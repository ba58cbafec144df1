---------------------------- MODULE MlanCmd_proof ----------------------------
(***************************************************************************)
(* The command engine, for any pool of command nodes, any requests and any *)
(* number of scan commands: types and places (TypeCorrect,                 *)
(* NodesHaveOnePlace), the answer and the timer of the current command     *)
(* (ResponsesMatch, CurrentLeaves), the refinement of RequestService       *)
(* (RequestsServed), who holds a request that is pending (RequestsOwned),  *)
(* and what a scan holds back (ScansRelease).                              *)
(*                                                                         *)
(* The invariants are proved in layers, each with those before it:         *)
(*   Shape      types, the control of each context, one place per node     *)
(*   Linked     the firmware holds the current command                     *)
(*   Exits      something watches the current command                      *)
(*   Engine     the above, and who carries, holds and answers a request    *)
(*   Scans      what is about before the first scan starts                 *)
(*   Harmless   what is about when nothing is cancelled and nothing fails  *)
(*   OfOneType  where a scan is, when all are of one type                  *)
(***************************************************************************)
EXTENDS MlanCmd, TLAPS, FiniteSetTheorems, SequenceTheorems, WellFoundedInduction

(* Queues of command nodes.                                                *)

Queue(q) == q \in Seq(Node) /\ IsInjective(q)

\* The empty queue holds nothing.
LEMMA EmptyQueue == Queue(<<>>) /\ Range(<<>>) = {}
  BY DEF Queue, IsInjective, Range

\* A queue of one node.
LEMMA OneQueue ==
  ASSUME NEW n \in Node
  PROVE  Queue(<<n>>) /\ Range(<<n>>) = {n}
  BY DEF Queue, IsInjective, Range

\* A node that is not in a queue may join it.
LEMMA AppendQueue ==
  ASSUME NEW q, Queue(q), NEW n \in Node, n \notin Range(q)
  PROVE  Queue(Append(q, n)) /\ Range(Append(q, n)) = Range(q) \cup {n}
  BY DEF Queue, IsInjective, Range

\* Queues without a common node make one queue.
LEMMA ConcatQueue ==
  ASSUME NEW p, NEW q, Queue(p), Queue(q), Range(p) \cap Range(q) = {}
  PROVE  Queue(p \o q) /\ Range(p \o q) = Range(p) \cup Range(q)
<1> DEFINE m == Len(p)
           n == Len(q)
<1>1. p \in Seq(Node) /\ q \in Seq(Node) /\ m \in Nat /\ n \in Nat
  BY DEF Queue
<1>2. /\ p \o q \in Seq(Node) /\ Len(p \o q) = m + n
      /\ \A k \in 1 .. m + n : (p \o q)[k] = IF k <= m THEN p[k] ELSE q[k - m]
  BY <1>1, ConcatProperties
<1>3. Range(p \o q) = Range(p) \cup Range(q)
  BY <1>1, RangeConcatenation
<1>4. ASSUME NEW a \in 1 .. m + n, NEW b \in 1 .. m + n, (p \o q)[a] = (p \o q)[b]
      PROVE  a = b
  <2>1. \A k \in 1 .. m : p[k] \in Range(p)
    BY <1>1 DEF Range
  <2>2. \A k \in 1 .. n : q[k] \in Range(q)
    BY <1>1 DEF Range
  <2>3. CASE a <= m /\ b <= m
    BY <1>1, <1>2, <1>4, <2>3 DEF Queue, IsInjective
  <2>4. CASE a > m /\ b > m
    <3>1. a - m \in 1 .. n /\ b - m \in 1 .. n /\ q[a - m] = q[b - m]
      BY <1>1, <1>2, <1>4, <2>4
    <3> QED BY <1>1, <3>1 DEF Queue, IsInjective
  <2>5. CASE a <= m /\ b > m
    <3>1. p[a] = q[b - m] /\ b - m \in 1 .. n /\ a \in 1 .. m
      BY <1>1, <1>2, <1>4, <2>5
    <3> QED BY <3>1, <2>1, <2>2
  <2>6. CASE a > m /\ b <= m
    <3>1. p[b] = q[a - m] /\ a - m \in 1 .. n /\ b \in 1 .. m
      BY <1>1, <1>2, <1>4, <2>6
    <3> QED BY <3>1, <2>1, <2>2
  <2> QED BY <1>1, <2>3, <2>4, <2>5, <2>6
<1>5. DOMAIN (p \o q) = 1 .. m + n
  BY <1>1, <1>2, LenProperties
<1> QED BY <1>2, <1>3, <1>4, <1>5 DEF Queue, IsInjective

\* Taking the head off a queue leaves a queue of the others.
LEMMA TailQueue ==
  ASSUME NEW q, Queue(q), q # <<>>
  PROVE  /\ Head(q) \in Range(q) /\ Head(q) \in Node
         /\ Queue(Tail(q)) /\ Range(Tail(q)) = Range(q) \ {Head(q)}
<1> DEFINE n == Len(q)
           t == Tail(q)
<1>1. q \in Seq(Node) /\ n \in Nat \ {0} /\ DOMAIN q = 1 .. n /\ Head(q) = q[1]
  BY EmptySeq, LenProperties DEF Queue
<1>2. /\ t \in Seq(Node) /\ Len(t) = n - 1
      /\ \A k \in 1 .. n - 1 : t[k] = q[k + 1]
  BY <1>1, HeadTailProperties
<1>3. DOMAIN t = 1 .. n - 1
  BY <1>1, <1>2, LenProperties
<1>4. \A a, b \in 1 .. n : q[a] = q[b] => a = b
  BY <1>1 DEF Queue, IsInjective
<1>5. IsInjective(t)
  <2> SUFFICES ASSUME NEW a \in 1 .. n - 1, NEW b \in 1 .. n - 1, t[a] = t[b]
               PROVE  a = b
    BY <1>3 DEF IsInjective
  <2>1. a + 1 \in 1 .. n /\ b + 1 \in 1 .. n
    BY <1>1
  <2> QED BY <1>1, <1>2, <1>4, <2>1
<1>6. Range(t) = Range(q) \ {Head(q)}
  <2>1. ASSUME NEW x \in Range(t) PROVE x \in Range(q) \ {Head(q)}
    <3>1. PICK k \in 1 .. n - 1 : x = t[k]
      BY <1>3 DEF Range
    <3>2. x = q[k + 1] /\ k + 1 \in 1 .. n /\ k + 1 # 1 /\ 1 \in 1 .. n
      BY <1>1, <1>2, <3>1
    <3>3. x # q[1]
      BY <1>4, <3>2
    <3> QED BY <1>1, <3>2, <3>3 DEF Range
  <2>2. ASSUME NEW x \in Range(q) \ {Head(q)} PROVE x \in Range(t)
    <3>1. PICK k \in 1 .. n : x = q[k]
      BY <1>1 DEF Range
    <3>2. k - 1 \in 1 .. n - 1 /\ t[k - 1] = q[(k - 1) + 1] /\ (k - 1) + 1 = k
      BY <1>1, <1>2, <2>2, <3>1
    <3> QED BY <1>3, <3>1, <3>2 DEF Range
  <2> QED BY <2>1, <2>2
<1>7. Head(q) \in Range(q) /\ Head(q) \in Node
  BY <1>1, ElementOfSeq DEF Range
<1> QED BY <1>2, <1>5, <1>6, <1>7 DEF Queue

\* A queue is no longer than the pool is large.
LEMMA QueueLen ==
  ASSUME NEW q, Queue(q)
  PROVE  Len(q) \in Nat /\ Len(q) <= Cardinality(Node)
<1> DEFINE n == Len(q)
<1>1. q \in [1 .. n -> Node] /\ n \in Nat
  BY LenProperties DEF Queue
<1>2. q \in Injection(1 .. n, Node)
  BY <1>1 DEF Queue, IsInjective, Injection
<1>3. Cardinality(1 .. n) <= Cardinality(Node)
  BY <1>2, CmdAssumption, FS_Injection
<1>4. Cardinality(1 .. n) = n
  <2> HIDE DEF n
  <2>1. 1 \in Int /\ n \in Int
    BY <1>1
  <2>2. Cardinality(1 .. n) = IF 1 > n THEN 0 ELSE n - 1 + 1
    BY <2>1, FS_Interval
  <2> QED BY <1>1, <2>2
<1> QED BY <1>1, <1>3, <1>4

\* A nonempty set of natural numbers has a least element.
LEMMA LeastElement ==
  ASSUME NEW T, T \subseteq Nat, T # {}
  PROVE  \E x \in T : \A y \in T : ~(y < x)
<1> DEFINE R == OpToRel(<, Nat)
<1>1. IsWellFoundedOn(R, Nat)
  BY NatLessThanWellFounded
<1>2. \A x, y \in Nat : y < x => <<y, x>> \in R
  BY DEF OpToRel
<1> HIDE DEF R
<1>3. \E x \in T : \A y \in T : ~(<<y, x>> \in R)
  BY <1>1, WFMin
<1> QED BY <1>2, <1>3

\* Induction over the natural numbers, for a set of them.
LEMMA NatInductionSet ==
  ASSUME NEW S, 0 \in S, \A n \in Nat : n \in S => n + 1 \in S
  PROVE  Nat \subseteq S
<1> DEFINE T == Nat \ S
<1> SUFFICES ASSUME T # {} PROVE FALSE
  OBVIOUS
<1>1. PICK x \in T : \A y \in T : ~(y < x)
  BY LeastElement
<1>2. x # 0 /\ x - 1 \in Nat /\ x - 1 \notin T
  BY <1>1
<1> QED BY <1>2

Kept(q, N, m, g) ==
  /\ g \in [0 .. m -> Seq(Node)] /\ g[0] = <<>>
  /\ \A k \in 1 .. m : g[k] = IF q[k] \in N THEN g[k - 1] ELSE Append(g[k - 1], q[k])

\* The recursive function of Without is defined for every sequence.
LEMMA KeptExists ==
  ASSUME NEW q \in Seq(Node), NEW N
  PROVE  \A m \in 0 .. Len(q) : \E g : Kept(q, N, m, g)
<1> DEFINE S == {m \in Nat : m <= Len(q) => \E g : Kept(q, N, m, g)}
<1>1. 0 \in S
  <2>1. Kept(q, N, 0, [k \in 0 .. 0 |-> <<>>])
    BY DEF Kept
  <2> QED BY <2>1
<1>2. ASSUME NEW m \in Nat, m \in S PROVE m + 1 \in S
  <2> SUFFICES ASSUME m + 1 <= Len(q) PROVE \E g : Kept(q, N, m + 1, g)
    OBVIOUS
  <2>0. Len(q) \in Nat
    OBVIOUS
  <2>1. PICK g : Kept(q, N, m, g)
    BY <1>2, <2>0
  <2> DEFINE e == IF q[m + 1] \in N THEN g[m] ELSE Append(g[m], q[m + 1])
             h == [k \in 0 .. m + 1 |-> IF k = m + 1 THEN e ELSE g[k]]
  <2>2. q[m + 1] \in Node
    BY <2>0, ElementOfSeq
  <2>3. g \in [0 .. m -> Seq(Node)] /\ g[m] \in Seq(Node)
    BY <2>1 DEF Kept
  <2>4. e \in Seq(Node)
    BY <2>2, <2>3
  <2> HIDE DEF e
  <2>5. h \in [0 .. m + 1 -> Seq(Node)] /\ h[0] = <<>>
    BY <2>1, <2>3, <2>4 DEF Kept
  <2>6. ASSUME NEW k \in 1 .. m + 1
        PROVE  h[k] = IF q[k] \in N THEN h[k - 1] ELSE Append(h[k - 1], q[k])
    <3>1. CASE k = m + 1
      <4>1. h[k] = e /\ h[k - 1] = g[m]
        BY <3>1
      <4> QED BY <3>1, <4>1 DEF e
    <3>2. CASE k # m + 1
      <4>1. k \in 1 .. m /\ h[k] = g[k] /\ h[k - 1] = g[k - 1]
        BY <3>2
      <4> QED BY <2>1, <4>1 DEF Kept
    <3> QED BY <3>1, <3>2
  <2> QED BY <2>5, <2>6 DEF Kept
<1>3. Nat \subseteq S
  <2> HIDE DEF S
  <2> QED BY <1>1, <1>2, NatInductionSet
<1> QED BY <1>3

\* What the recursion computes.
LEMMA KeptIs ==
  ASSUME NEW q, Queue(q), NEW N, NEW g, Kept(q, N, Len(q), g)
  PROVE  \A m \in 0 .. Len(q) :
           Queue(g[m]) /\ Range(g[m]) = {q[k] : k \in 1 .. m} \ N
<1> DEFINE OK(m) == Queue(g[m]) /\ Range(g[m]) = {q[k] : k \in 1 .. m} \ N
           S == {m \in Nat : m <= Len(q) => OK(m)}
<1>0. q \in Seq(Node) /\ Len(q) \in Nat
  BY DEF Queue
<1>1. 0 \in S
  BY EmptyQueue DEF Kept
<1>2. ASSUME NEW m \in Nat, m \in S PROVE m + 1 \in S
  <2> SUFFICES ASSUME m + 1 <= Len(q) PROVE OK(m + 1)
    OBVIOUS
  <2>1. OK(m)
    BY <1>0, <1>2
  <2>2. q[m + 1] \in Node
    BY <1>0, ElementOfSeq
  <2>3. g[m + 1] = IF q[m + 1] \in N THEN g[m] ELSE Append(g[m], q[m + 1])
    BY <1>0 DEF Kept
  <2>4. {q[k] : k \in 1 .. m + 1} = {q[k] : k \in 1 .. m} \cup {q[m + 1]}
    OBVIOUS
  <2>5. CASE q[m + 1] \in N
    BY <2>1, <2>3, <2>4, <2>5
  <2>6. CASE q[m + 1] \notin N
    <3>1. q[m + 1] \notin {q[k] : k \in 1 .. m}
      BY <1>0 DEF Queue, IsInjective
    <3>2. q[m + 1] \notin Range(g[m])
      BY <2>1, <3>1
    <3> QED BY <2>1, <2>2, <2>3, <2>4, <2>6, <3>2, AppendQueue
  <2> QED BY <2>5, <2>6
<1>3. Nat \subseteq S
  <2> HIDE DEF S
  <2> QED BY <1>1, <1>2, NatInductionSet
<1>4. ASSUME NEW m \in 0 .. Len(q) PROVE OK(m)
  <2>1. m \in Nat /\ m <= Len(q)
    BY <1>0
  <2> QED BY <1>3, <2>1
<1> QED BY <1>4

\* Without unlinks exactly the nodes of N (wlan_cancel_pending_scan_cmd,
\* wlan_cancel_bss_pending_cmd).
LEMMA WithoutQueue ==
  ASSUME NEW q, Queue(q), NEW N
  PROVE  Queue(Without(q, N)) /\ Range(Without(q, N)) = Range(q) \ N
<1> DEFINE F(f) == [k \in 0 .. Len(q) |->
                      IF k = 0 THEN <<>>
                      ELSE IF q[k] \in N THEN f[k - 1] ELSE Append(f[k - 1], q[k])]
           kept == CHOOSE f : f = F(f)
<1>0. q \in Seq(Node) /\ Len(q) \in Nat
  BY DEF Queue
<1>1. \E f : f = F(f)
  <2>1. PICK g : Kept(q, N, Len(q), g)
    BY SMTT(30), <1>0, KeptExists
  <2>2. /\ DOMAIN g = 0 .. Len(q)
        /\ \A k \in 0 .. Len(q) :
              g[k] = IF k = 0 THEN <<>>
                     ELSE IF q[k] \in N THEN g[k - 1] ELSE Append(g[k - 1], q[k])
    <3>1. DOMAIN g = 0 .. Len(q) /\ g[0] = <<>>
      BY <2>1 DEF Kept
    <3>2. \A k \in 1 .. Len(q) :
            g[k] = IF q[k] \in N THEN g[k - 1] ELSE Append(g[k - 1], q[k])
      BY <2>1 DEF Kept
    <3>3. \A k \in 0 .. Len(q) : k = 0 \/ k \in 1 .. Len(q)
      BY <1>0
    <3>4. 0 \notin 1 .. Len(q)
      OBVIOUS
    <3> QED BY <3>1, <3>2, <3>3, <3>4, Zenon
  <2>3. g = [k \in 0 .. Len(q) |-> g[k]]
    BY <2>1 DEF Kept
  <2>4. g = F(g)
    BY <2>2, <2>3
  <2> QED BY <2>4
<1>2. kept = F(kept)
  BY <1>1
<1>3. Without(q, N) = kept[Len(q)]
  BY DEF Without
<1> HIDE DEF kept
<1>4. /\ DOMAIN kept = 0 .. Len(q) /\ kept[0] = <<>>
      /\ \A k \in 1 .. Len(q) :
            kept[k] = IF q[k] \in N THEN kept[k - 1] ELSE Append(kept[k - 1], q[k])
  <2>1. DOMAIN F(kept) = 0 .. Len(q) /\ F(kept)[0] = <<>>
    BY <1>0
  <2>2. \A k \in 1 .. Len(q) :
           F(kept)[k] = IF q[k] \in N THEN kept[k - 1] ELSE Append(kept[k - 1], q[k])
    <3> TAKE k \in 1 .. Len(q)
    <3>1. k \in 0 .. Len(q) /\ k # 0
      BY <1>0
    <3> QED BY <3>1, Zenon
  <2> HIDE DEF F
  <2> QED BY <1>2, <2>1, <2>2
<1>5. \A m \in 0 .. Len(q) : kept[m] \in Seq(Node)
  <2> DEFINE S == {m \in Nat : m <= Len(q) => kept[m] \in Seq(Node)}
  <2>1. 0 \in S
    <3>1. kept[0] \in Seq(Node)
      BY <1>4, EmptySeq
    <3> QED BY <3>1
  <2>2. ASSUME NEW m \in Nat, m \in S PROVE m + 1 \in S
    <3> SUFFICES ASSUME m + 1 <= Len(q) PROVE kept[m + 1] \in Seq(Node)
      OBVIOUS
    <3>1. kept[m + 1] = IF q[m + 1] \in N THEN kept[m] ELSE Append(kept[m], q[m + 1])
      BY <1>0, <1>4
    <3>2. q[m + 1] \in Node /\ kept[m] \in Seq(Node)
      BY <1>0, <2>2, ElementOfSeq
    <3> QED BY <3>1, <3>2
  <2>3. Nat \subseteq S
    <3> HIDE DEF S
    <3> QED BY <2>1, <2>2, NatInductionSet
  <2> QED BY <2>3
<1>6. Kept(q, N, Len(q), kept)
  <2>1. kept \in [0 .. Len(q) -> Seq(Node)] /\ kept[0] = <<>>
    <3> HIDE DEF F
    <3>1. kept = [k \in 0 .. Len(q) |-> kept[k]]
      BY <1>2 DEF F
    <3> QED BY <3>1, <1>4, <1>5
  <2>2. \A k \in 1 .. Len(q) : kept[k] = IF q[k] \in N THEN kept[k - 1] ELSE Append(kept[k - 1], q[k])
    BY <1>0, <1>4
  <2> QED BY <2>1, <2>2 DEF Kept
<1>7. Queue(kept[Len(q)]) /\ Range(kept[Len(q)]) = {q[k] : k \in 1 .. Len(q)} \ N
  <2>1. Len(q) \in 0 .. Len(q)
    BY <1>0
  <2> QED BY <2>1, <1>6, KeptIs
<1>8. Range(q) = {q[k] : k \in 1 .. Len(q)}
  BY <1>0 DEF Range
<1> QED BY <1>3, <1>7, <1>8

-----------------------------------------------------------------------------
(* Types: the records and the operators on them.                           *)

Codes   == {None, "cancel", "timeout", "fail"}
NodeRec == [cmd : Commands \cup {None}, ioctl : Ioctl \cup {None}, scan : BOOLEAN,
            canceled : BOOLEAN, resp : AllResults \cup {None}]
BeforeResp == {"send", "noresp", "nrfree", "arm"}
AfterResp  == {"resp", "handle", "errscan", "errfree", "stopped", "tail"}
EventPC    == {"report", "status", "complete", "move"}
MainPC     == {"idle", "dnld"} \cup BeforeResp \cup AfterResp \cup EventPC
UserPC     == {"idle", "get", "queue", "start", "cancel", "bssrm", "stop", "flush"}

MainRec == [pc : MainPC, node : Node \cup {None}, ioctl : Ioctl \cup {None}]
UserRec == [pc : UserPC, ioctl : Ioctl \cup {None}, node : Node \cup {None},
            todo : 0 .. MaxScanCmds]
FwRec   == [cmd : Commands \cup {None}, rsp : AllResults \cup {None},
            scan : {"idle", "run", "drun", "reported"},
            results : SUBSET AllResults, fails : BOOLEAN]

\* The types of everything but the queues.
Types ==
  /\ curr_cmd \in Node \cup {None} /\ tcb \in Node \cup {None, "watch"}
  /\ node \in [Node -> NodeRec]
  /\ pscan_ioctl_req \in Ioctl \cup {None}
  /\ scan_processing \in BOOLEAN /\ ext_scan_enhance \in BOOLEAN
  /\ cmd_sent \in BOOLEAN /\ cmd_resp_received \in BOOLEAN
  /\ cmd_timer_is_set \in BOOLEAN /\ driver_status \in BOOLEAN
  /\ timer \in {"off", "armed"} /\ hang \in {"idle", "queued", "scan", "ext"}
  /\ main \in MainRec /\ user \in UserRec /\ fw \in FwRec
  /\ req \in [Ioctl -> Req]

Control ==
  /\ main.node # None <=> main.pc = "dnld"
  /\ user.node # None <=> user.pc = "queue"
  /\ user.ioctl = None <=> user.pc = "idle"
  /\ main.pc = "dnld" => curr_cmd = None
  /\ main.pc \in BeforeResp \cup AfterResp => curr_cmd # None
  /\ cmd_resp_received => main.pc = "idle" /\ curr_cmd # None

UserKnown ==
  user.pc # "idle" =>
    /\ \/ req[user.ioctl].st = "running"
       \/ Kind(user.ioctl) = "cancel" /\ req[user.ioctl].st = "pending" /\ user.pc = "flush"
    /\ user.pc = "start" => IsScan(user.ioctl)
    /\ user.pc \in {"cancel", "bssrm"} => Kind(user.ioctl) = user.pc
    /\ user.pc \in {"stop", "flush"} => Kind(user.ioctl) \in {"cancel", "bssrm"}
    /\ user.pc \in {"get", "queue"} =>
         Kind(user.ioctl) # "unused" /\ (IsScan(user.ioctl) => user.todo >= 1)

\* What does not change when requests are completed or marked.
SameCall(r, s) ==
  \A i \in Ioctl : /\ s[i].kind = r[i].kind /\ s[i].bss = r[i].bss
                   /\ s[i].cmds = r[i].cmds /\ s[i].st = r[i].st

\* What does not change when its state does.
SameWork(r, s) ==
  \A i \in Ioctl : /\ s[i].kind = r[i].kind /\ s[i].bss = r[i].bss
                   /\ s[i].cmds = r[i].cmds /\ s[i].code = r[i].code
                   /\ s[i].done = r[i].done /\ s[i].ok = r[i].ok
                   /\ s[i].answered = r[i].answered

\* None is none of the values it stands beside.
LEMMA NoneApart ==
  /\ None \notin Node /\ None \notin Ioctl
  /\ MaxScanCmds \in Nat \ {0}
  BY CmdAssumption

\* The idle contexts have their types.
LEMMA IdleOK ==
  MainIdle \in MainRec /\ UserIdle \in UserRec
  BY NoneApart DEF MainIdle, UserIdle, MainRec, UserRec, MainPC, UserPC

\* A context that goes elsewhere keeps its type.
LEMMA PcOK ==
  /\ \A m \in MainRec : \A p \in MainPC : [m EXCEPT !.pc = p] \in MainRec
  /\ \A u \in UserRec : \A p \in UserPC : [u EXCEPT !.pc = p] \in UserRec
  BY DEF MainRec, UserRec

\* moal_ioctl_complete keeps the types, and what the caller asked for.
LEMMA CompleteAllOK ==
  ASSUME NEW r \in [Ioctl -> Req], NEW S, NEW ok \in BOOLEAN
  PROVE  CompleteAll(r, S, ok) \in [Ioctl -> Req] /\ SameCall(r, CompleteAll(r, S, ok))
<1> DEFINE s == CompleteAll(r, S, ok)
<1>1. ASSUME NEW i \in Ioctl
      PROVE  /\ s[i] \in Req
             /\ s[i].kind = r[i].kind /\ s[i].bss = r[i].bss
             /\ s[i].cmds = r[i].cmds /\ s[i].st = r[i].st
  <2>1. r[i] \in Req
    OBVIOUS
  <2>2. s[i] = IF i \in S THEN [r[i] EXCEPT !.done = IF @ < 2 THEN @ + 1 ELSE 2, !.ok = ok]
                          ELSE r[i]
    BY DEF CompleteAll
  <2>3. CASE i \in S
    <3> DEFINE d == IF r[i].done < 2 THEN r[i].done + 1 ELSE 2
    <3>1. r[i].done \in {0, 1, 2}
      BY <2>1 DEF Req
    <3>2. d \in 0 .. 2
      BY <3>1
    <3>3. s[i] = [r[i] EXCEPT !.done = d, !.ok = ok]
      BY <2>2, <2>3
    <3> HIDE DEF d, s
    <3> QED BY <2>1, <3>2, <3>3 DEF Req
  <2>4. CASE i \notin S
    BY <2>1, <2>2, <2>4
  <2> QED BY <2>3, <2>4
<1>2. s = [i \in Ioctl |-> s[i]]
  BY DEF CompleteAll
<1> QED BY <1>1, <1>2 DEF SameCall

\* Writing a status code keeps the types, and what the caller asked for.
LEMMA SetCodeOK ==
  ASSUME NEW r \in [Ioctl -> Req], NEW S, NEW c \in Codes
  PROVE  SetCode(r, S, c) \in [Ioctl -> Req] /\ SameCall(r, SetCode(r, S, c))
<1>1. ASSUME NEW i \in Ioctl
      PROVE  /\ SetCode(r, S, c)[i] \in Req
             /\ SetCode(r, S, c)[i].kind = r[i].kind /\ SetCode(r, S, c)[i].bss = r[i].bss
             /\ SetCode(r, S, c)[i].cmds = r[i].cmds /\ SetCode(r, S, c)[i].st = r[i].st
  <2>1. r[i] \in Req
    OBVIOUS
  <2> QED BY <2>1 DEF Req, Codes, SetCode
<1>2. SetCode(r, S, c) = [i \in Ioctl |-> SetCode(r, S, c)[i]]
  BY DEF SetCode
<1> QED BY <1>1, <1>2 DEF SameCall

\* Cancelling keeps the types, and what the caller asked for.
LEMMA CancelAllOK ==
  ASSUME NEW r \in [Ioctl -> Req], NEW S
  PROVE  CancelAll(r, S) \in [Ioctl -> Req] /\ SameCall(r, CancelAll(r, S))
<1>1. "cancel" \in Codes
  BY DEF Codes
<1> DEFINE s == SetCode(r, S, "cancel")
<1>2. s \in [Ioctl -> Req] /\ SameCall(r, s)
  BY <1>1, SetCodeOK
<1> HIDE DEF s
<1>3. CompleteAll(s, S, FALSE) \in [Ioctl -> Req] /\ SameCall(s, CompleteAll(s, S, FALSE))
  BY <1>2, CompleteAllOK
<1> QED BY <1>2, <1>3 DEF CancelAll, SameCall, s

\* wlan_insert_cmd_to_free_q keeps the types, and what the caller asked for.
LEMMA CompleteByCodeOK ==
  ASSUME NEW r \in [Ioctl -> Req], NEW S
  PROVE  CompleteByCode(r, S) \in [Ioctl -> Req] /\ SameCall(r, CompleteByCode(r, S))
<1> DEFINE s == CompleteByCode(r, S)
<1>1. ASSUME NEW i \in Ioctl
      PROVE  /\ s[i] \in Req
             /\ s[i].kind = r[i].kind /\ s[i].bss = r[i].bss
             /\ s[i].cmds = r[i].cmds /\ s[i].st = r[i].st
  <2>1. CASE i \in S
    <3>1. (r[i].code = None) \in BOOLEAN
      OBVIOUS
    <3>2. s[i] = CompleteAll(r, {i}, r[i].code = None)[i]
      BY <2>1 DEF CompleteByCode
    <3> DEFINE t == CompleteAll(r, {i}, r[i].code = None)
    <3>3. t \in [Ioctl -> Req] /\ SameCall(r, t)
      BY <3>1, CompleteAllOK
    <3> HIDE DEF t, s
    <3>4. s[i] = t[i]
      BY <3>2 DEF t
    <3> QED BY <3>3, <3>4 DEF SameCall
  <2>2. CASE i \notin S
    BY <2>2 DEF CompleteByCode
  <2> QED BY <2>1, <2>2
<1>2. s = [i \in Ioctl |-> s[i]]
  BY DEF CompleteByCode
<1> QED BY <1>1, <1>2 DEF SameCall

\* A new state of a request keeps the types, and changes nothing else.
LEMMA StatusOK ==
  ASSUME NEW r \in [Ioctl -> Req], NEW i \in Ioctl,
         NEW s \in {"new", "admitted", "running", "pending", "returned"}
  PROVE  /\ Status(r, i, s) \in [Ioctl -> Req]
         /\ Status(r, i, s)[i].st = s
         /\ \A j \in Ioctl \ {i} : Status(r, i, s)[j] = r[j]
         /\ SameWork(r, Status(r, i, s))
<1> DEFINE t == [r[i] EXCEPT !.st = s]
<1>1. r[i] \in Req
  OBVIOUS
<1>2. /\ t \in Req /\ t.st = s /\ t.kind = r[i].kind /\ t.bss = r[i].bss /\ t.cmds = r[i].cmds
      /\ t.code = r[i].code /\ t.done = r[i].done /\ t.ok = r[i].ok /\ t.answered = r[i].answered
  BY <1>1 DEF Req
<1>3. Status(r, i, s) = [r EXCEPT ![i] = t]
  BY DEF Status
<1> HIDE DEF t
<1> QED BY <1>2, <1>3 DEF SameWork

\* A free node has the type of a node.
LEMMA BlankOK == Blank \in NodeRec
  BY DEF Blank, NodeRec

\* Freeing nodes keeps the types, and what the callers asked for.
LEMMA FreeOK ==
  ASSUME NEW r \in [Ioctl -> Req], NEW nd \in [Node -> NodeRec], NEW N, Free(N, r, nd)
  PROVE  /\ node' \in [Node -> NodeRec] /\ req' \in [Ioctl -> Req]
         /\ SameCall(r, req')
         /\ cmd_free_q' = cmd_free_q \cup N
         /\ \A n \in Node : node'[n] = IF n \in N THEN Blank ELSE nd[n]
  BY CompleteByCodeOK, BlankOK DEF Free

\* Taking requests off nodes keeps the types.
LEMMA DetachOK ==
  ASSUME NEW nd \in [Node -> NodeRec], NEW N
  PROVE  Detach(nd, N) \in [Node -> NodeRec]
  BY DEF Detach, NodeRec

\* Marking nodes cancelled keeps the types.
LEMMA MarkCanceledOK ==
  ASSUME NEW nd \in [Node -> NodeRec], NEW N
  PROVE  MarkCanceled(nd, N) \in [Node -> NodeRec]
  BY DEF MarkCanceled, NodeRec

\* Two changes that leave the calls alone leave them alone together.
LEMMA SameCallTrans ==
  ASSUME NEW r, NEW s, NEW t, SameCall(r, s), SameCall(s, t)
  PROVE  SameCall(r, t)
  BY DEF SameCall

\* No change leaves the calls alone.
LEMMA SameCallRefl == \A r : SameCall(r, r)
  BY DEF SameCall

-----------------------------------------------------------------------------
(* Types: what holds of the shape of a state, and the steps of USER.       *)

At(w, s) == {n \in Node : w[n] = s}
Spots == {"free", "pending", "scan", "deferred", "curr", "main", "user"}
Places(w) ==
  /\ w \in [Node -> Spots]
  /\ cmd_free_q = At(w, "free")
  /\ Queue(cmd_pending_q) /\ Range(cmd_pending_q) = At(w, "pending")
  /\ Queue(scan_pending_q) /\ Range(scan_pending_q) = At(w, "scan")
  /\ Queue(ext_cmd_pending_q) /\ Range(ext_cmd_pending_q) = At(w, "deferred")
  /\ Some(curr_cmd) = At(w, "curr")
  /\ Some(main.node) = At(w, "main")
  /\ Some(user.node) = At(w, "user")

FreeBlank == \A n \in cmd_free_q : node[n] = Blank

\* Only requests that are used are ever issued.
Used == \A i \in Ioctl : req[i].st # "new" => Kind(i) # "unused"

Shape == Types /\ Control /\ UserKnown /\ Used /\ (\E w : Places(w)) /\ FreeBlank

\* The queues hold nodes of the pool.
LEMMA ShapeFacts ==
  ASSUME Shape
  PROVE  /\ cmd_free_q \subseteq Node
         /\ Range(cmd_pending_q) \subseteq Node /\ Range(scan_pending_q) \subseteq Node
         /\ Range(ext_cmd_pending_q) \subseteq Node
         /\ cmd_pending_q # <<>> => Head(cmd_pending_q) \in Node
         /\ scan_pending_q # <<>> => Head(scan_pending_q) \in Node
  BY TailQueue DEF Shape, Places, At

\* The request of the user.
LEMMA UserFacts ==
  ASSUME Types, Control, UserKnown, user.pc # "idle"
  PROVE  /\ user.ioctl \in Ioctl
         /\ req[user.ioctl] \in Req
         /\ Kind(user.ioctl) \in Kinds
  BY DEF Types, UserRec, Control, UserKnown, Kind, Req

\* The steps of USER keep the types.
LEMMA TypesUserStep ==
  ASSUME Shape, UserStep
  PROVE  Types'
<1> USE NoneApart, IdleOK
<1>0. Types /\ Control /\ UserKnown
  BY DEF Shape
<1>1. CASE \E i \in Ioctl : Enter(i)
  <2> PICK i \in Ioctl : Enter(i)
    BY <1>1
  <2>1. /\ Status(req, i, "returned") \in [Ioctl -> Req]
        /\ Status(req, i, "running") \in [Ioctl -> Req]
    BY <1>0, StatusOK DEF Types
  <2>2. req[i] \in Req
    BY <1>0 DEF Types
  <2>3. (IF IsScan(i) THEN ScanCmds(i) ELSE 0) \in 0 .. MaxScanCmds
    BY <2>2 DEF Req, ScanCmds
  <2>4. (IF Kind(i) \in {"cancel", "bssrm"} THEN Kind(i) ELSE "get") \in UserPC
    BY DEF UserPC
  <2>5. (Kind(i) = "scan") \in BOOLEAN
    OBVIOUS
  <2>6. CASE ScanBusy(i)
    BY <1>0, <2>1, <2>6 DEF Enter, Types, timerVars, linkVars
  <2>7. CASE ~ScanBusy(i)
    <3>1. user' \in UserRec
      BY <2>3, <2>4, <2>7 DEF Enter, UserRec
    <3>2. ext_scan_enhance' \in BOOLEAN
      BY <1>0, <2>5, <2>7 DEF Enter, Types
    <3> QED BY <1>0, <2>1, <2>7, <3>1, <3>2 DEF Enter, Types, timerVars, linkVars
  <2> QED BY <2>6, <2>7
<1>2. CASE GetCmdNode
  <2>1. UserAt("get") /\ user.ioctl \in Ioctl /\ Kind(user.ioctl) \in Kinds
        /\ Kind(user.ioctl) # "unused"
    BY <1>0, <1>2, UserFacts DEF GetCmdNode, UserAt, UserKnown
  <2>2. CmdOf(user.ioctl) \in Commands /\ Carried(user.ioctl) \in Ioctl \cup {None}
    BY <2>1 DEF CmdOf, Carried, Commands, Kinds, ScanKinds, IsScan
  <2>3. PICK n \in cmd_free_q :
          /\ node' = [node EXCEPT ![n] = [Blank EXCEPT !.cmd = CmdOf(user.ioctl),
                                                       !.ioctl = Carried(user.ioctl)]]
          /\ user' = [user EXCEPT !.pc = "queue", !.node = n]
    BY <1>2 DEF GetCmdNode
  <2>4. n \in Node
    BY ShapeFacts
  <2>5. [Blank EXCEPT !.cmd = CmdOf(user.ioctl), !.ioctl = Carried(user.ioctl)] \in NodeRec
    BY <2>2, BlankOK DEF NodeRec
  <2>6. node' \in [Node -> NodeRec]
    BY <1>0, <2>3, <2>5 DEF Types
  <2>7. user' \in UserRec
    BY <1>0, <2>3, <2>4 DEF Types, UserPC, UserRec
  <2> QED BY <1>0, <1>2, <2>6, <2>7 DEF GetCmdNode, Types, scanVars, timerVars, linkVars
<1>3. CASE NoCmdNode
  <2>1. Status(req, user.ioctl, "returned") \in [Ioctl -> Req]
    BY <1>0, <1>3, UserFacts, StatusOK DEF NoCmdNode, UserAt, Types
  <2>2. user' \in UserRec
    BY <1>0, <1>3, PcOK DEF NoCmdNode, UserTo, UserReturn, UserPC, Types
  <2> QED BY <1>0, <1>3, <2>1, <2>2 DEF NoCmdNode, Types, UserReturn, UserIdle, UserPC,
             scanVars, timerVars, linkVars
<1>4. CASE PrepareFails
  <2>1. Status(req, user.ioctl, "returned") \in [Ioctl -> Req]
    BY <1>0, <1>4, UserFacts, StatusOK DEF PrepareFails, UserAt, Types
  <2>2. node' \in [Node -> NodeRec] /\ req' \in [Ioctl -> Req]
    BY <1>0, <1>4, <2>1, FreeOK, DetachOK DEF PrepareFails, Unbuilt, Types
  <2> QED BY <1>0, <1>4, <2>2 DEF PrepareFails, Types, scanVars,
             timerVars, linkVars
<1>5. CASE PrepareQueues
  <2>1. user.ioctl \in Ioctl
    BY <1>0, <1>5, UserFacts DEF PrepareQueues, UserAt
  <2>2. Status(req, user.ioctl, "pending") \in [Ioctl -> Req]
    BY <1>0, <2>1, StatusOK DEF Types
  <2>3. node' \in [Node -> NodeRec]
    <3>1. AsScan(node[user.node].cmd) \in BOOLEAN
      BY DEF AsScan
    <3>2. node' = [node EXCEPT ![user.node].scan = AsScan(node[user.node].cmd)]
      BY <1>5 DEF PrepareQueues, Enqueue
    <3>3. user.node \in Node
      BY <1>0, <1>5 DEF PrepareQueues, UserAt, Types, UserRec, Control
    <3>4. node \in [Node -> NodeRec] /\ node[user.node] \in NodeRec
      BY <1>0, <3>3 DEF Types
    <3>5. [node[user.node] EXCEPT !.scan = AsScan(node[user.node].cmd)] \in NodeRec
      BY <3>1, <3>4 DEF NodeRec
    <3> QED BY <3>2, <3>3, <3>4, <3>5
  <2>4. /\ user' \in UserRec
        /\ req' \in [Ioctl -> Req]
    <3>1. CASE IsScan(user.ioctl)
      <4>1. PICK t \in {0} \cup {user.todo - 1} :
               /\ user' = [user EXCEPT !.pc = IF t = 0 THEN "start" ELSE "get",
                                       !.node = None, !.todo = t]
               /\ UNCHANGED req
        BY <1>5, <3>1 DEF PrepareQueues, IsScan, ScanKinds
      <4>2. user.todo \in 0 .. MaxScanCmds /\ user.todo >= 1
        BY <1>0, <1>5, <3>1 DEF PrepareQueues, UserAt, UserKnown, Types, UserRec
      <4>3. t \in 0 .. MaxScanCmds
        BY <4>1, <4>2
      <4> QED BY <1>0, <4>1, <4>3 DEF Types, UserPC, UserRec
    <3>2. CASE ~IsScan(user.ioctl)
      <4>1. user' = [user EXCEPT !.pc = "flush", !.node = None] \/ user' = UserIdle
        BY <1>5, <3>2 DEF PrepareQueues, UserReturn
      <4>2. req' = Status(req, user.ioctl, "pending") \/ req' = req
        BY <1>5, <3>2 DEF PrepareQueues, UserReturn
      <4> QED BY <1>0, <2>2, <4>1, <4>2 DEF Types, UserPC, UserRec
    <3> QED BY <3>1, <3>2
  <2> QED BY <1>0, <1>5, <2>3, <2>4 DEF PrepareQueues, Types, scanVars, timerVars, linkVars
<1>6. CASE ScanStart
  <2>1. user.ioctl \in Ioctl
    BY <1>0, <1>6, UserFacts DEF ScanStart, UserAt
  <2>2. Status(req, user.ioctl, "pending") \in [Ioctl -> Req]
    BY <1>0, <2>1, StatusOK DEF Types
  <2>3. /\ pscan_ioctl_req' \in {pscan_ioctl_req, user.ioctl}
        /\ scan_processing' \in BOOLEAN /\ ext_scan_enhance' = ext_scan_enhance
    BY <1>0, <1>6 DEF ScanStart, scanVars, Types
  <2> QED BY <1>0, <1>6, <2>1, <2>2, <2>3 DEF ScanStart, UserReturn, Types,
             timerVars, linkVars
<1>7. CASE CancelScan
  <2>1. node' \in [Node -> NodeRec] /\ req' \in [Ioctl -> Req]
    BY <1>0, <1>7, FreeOK, CancelAllOK, MarkCanceledOK DEF CancelScan, Types
  <2>2. user' \in UserRec
    BY <1>0, <1>7, PcOK DEF CancelScan, UserTo, UserPC, Types
  <2> QED BY <1>0, <1>7, <2>1, <2>2 DEF CancelScan, Types, timerVars, linkVars
<1>8. CASE CancelBss
  <2> DEFINE Mine(i) == Bss(i) = Bss(user.ioctl)
             P == {i \in Some(pscan_ioctl_req) : Mine(i)}
             C == {n \in Some(curr_cmd) : \E i \in Some(node[n].ioctl) : Mine(i)}
             N == {n \in Range(cmd_pending_q) : \E i \in Some(node[n].ioctl) : Mine(i)}
             R == IoctlsOf(C \cup N)
             flash_scan == P # {} \/ \E i \in R : IsScanReq(i)
             r == CancelAll(req, P \cup R)
             s == IF flash_scan THEN r ELSE Status(r, user.ioctl, "returned")
             nd == Detach(MarkCanceled(node, C), N)
  <2>1. Free(N, s, nd)
    BY <1>8 DEF CancelBss
  <2>2. r \in [Ioctl -> Req]
    BY <1>0, CancelAllOK DEF Types
  <2>3. user.ioctl \in Ioctl
    BY <1>0, <1>8, UserFacts DEF CancelBss, UserAt
  <2>4. s \in [Ioctl -> Req]
    BY <2>2, <2>3, StatusOK
  <2>5. nd \in [Node -> NodeRec]
    BY <1>0, DetachOK, MarkCanceledOK DEF Types
  <2> HIDE DEF s, nd
  <2>6. node' \in [Node -> NodeRec] /\ req' \in [Ioctl -> Req]
    BY <2>1, <2>4, <2>5, FreeOK
  <2>7. /\ pscan_ioctl_req' \in {None, pscan_ioctl_req}
        /\ UserTo("stop") \/ UserTo("flush") \/ user' = UserIdle
    BY <1>8 DEF CancelBss
  <2>8. user' \in UserRec
    BY <1>0, <2>7, PcOK DEF UserTo, UserPC, Types
  <2> QED BY <1>0, <1>8, <2>6, <2>7, <2>8 DEF CancelBss, Types, timerVars, linkVars
<1>9. CASE StopDecide
  <2>1. user' \in UserRec
    BY <1>0, <1>9, PcOK DEF StopDecide, UserTo, UserPC, Types
  <2> QED BY <1>0, <1>9, <2>1 DEF StopDecide, Types, scanVars, timerVars, linkVars
<1>10. CASE CancelFlush
  <2>1. user.ioctl \in Ioctl
    BY <1>0, <1>10, UserFacts DEF CancelFlush, UserAt
  <2>2. Status(req, user.ioctl, "returned") \in [Ioctl -> Req]
    BY <1>0, <2>1, StatusOK DEF Types
  <2>3. node' \in [Node -> NodeRec] /\ req' \in [Ioctl -> Req]
    BY <1>0, <1>10, <2>2, FreeOK DEF CancelFlush, FlushScan, Types
  <2>4. /\ scan_processing' = FALSE /\ user' = UserIdle
        /\ UNCHANGED <<curr_cmd, pscan_ioctl_req, ext_scan_enhance, timerVars, linkVars,
                       main, hang, driver_status>>
    BY <1>10 DEF CancelFlush, FlushScan
  <2>5. UNCHANGED <<curr_cmd, tcb, pscan_ioctl_req, ext_scan_enhance, cmd_sent,
                    cmd_resp_received, cmd_timer_is_set, driver_status, timer, hang, main, fw>>
    BY <2>4 DEF timerVars, linkVars
  <2>6. scan_processing' \in BOOLEAN /\ user' \in UserRec
    BY <2>4
  <2> QED BY <1>0, <2>3, <2>5, <2>6 DEF Types
<1> QED BY <1>1, <1>2, <1>3, <1>4, <1>5, <1>6, <1>7, <1>8, <1>9, <1>10 DEF UserStep

-----------------------------------------------------------------------------
(* Types: the steps of the other contexts.                                 *)

\* What the steps of the other contexts leave alone.
Others == Types' /\ SameCall(req, req') /\ user' = user

\* Downloading keeps the types.
LEMMA DnldTypes ==
  ASSUME Shape, DnldStep
  PROVE  Others
<1> USE NoneApart, IdleOK, SameCallRefl
<1>0. Types /\ Control /\ UserKnown
  BY DEF Shape
<1>p. \A p \in MainPC : [main EXCEPT !.pc = p] \in MainRec
  BY <1>0, PcOK DEF Types
<1>1. CASE ExecNextCmd
  <2>1. Head(cmd_pending_q) \in Node
    BY <1>1, ShapeFacts DEF ExecNextCmd
  <2>2. main' \in MainRec
    BY <1>1, <2>1 DEF ExecNextCmd, MainRec, MainPC, MainIdle
  <2> QED BY <1>0, <1>1, <2>2 DEF ExecNextCmd, Others, Types, scanVars, timerVars, linkVars
<1>2. CASE DnldCurrent
  <2>1. curr_cmd' \in Node \cup {None} /\ main' \in MainRec
    BY <1>0, <1>2 DEF DnldCurrent, Types, MainRec, MainPC, MainIdle, BeforeResp
  <2> QED BY <1>0, <1>2, <2>1 DEF DnldCurrent, Others, Types, scanVars, timerVars, linkVars
<1>3. CASE DnldSent
  <2>1. curr_cmd \in Node /\ node[curr_cmd] \in NodeRec
    BY <1>0, <1>3 DEF DnldSent, MainAt, Control, BeforeResp, Types
  <2>2. fw' \in FwRec
    BY <1>0, <1>3, <2>1 DEF DnldSent, Types, FwRec, NodeRec
  <2>3. main' \in MainRec
    BY <1>p, <1>3 DEF DnldSent, MainTo, MainPC, BeforeResp
  <2> QED BY <1>0, <1>3, <2>2, <2>3 DEF DnldSent, Others, Types, scanVars, timerVars
<1>4. CASE DnldFails
  <2>1. SetCode(req, IoctlsOf({curr_cmd}), DnldCode) \in [Ioctl -> Req]
        /\ SameCall(req, SetCode(req, IoctlsOf({curr_cmd}), DnldCode))
    BY <1>0, SetCodeOK DEF Types, Codes, DnldCode
  <2>2. node' \in [Node -> NodeRec] /\ req' \in [Ioctl -> Req]
        /\ SameCall(SetCode(req, IoctlsOf({curr_cmd}), DnldCode), req')
    BY <1>0, <1>4, <2>1, FreeOK DEF DnldFails, Types
  <2> QED BY <1>0, <1>4, <2>1, <2>2, SameCallTrans DEF DnldFails, Others, Types, scanVars, timerVars
<1>5. CASE NoRespDone
  <2>1. main' \in MainRec
    BY <1>p, <1>5 DEF NoRespDone, MainTo, MainPC, BeforeResp
  <2> QED BY <1>0, <1>5, <2>1 DEF NoRespDone, Others, Types, scanVars, timerVars, linkVars
<1>6. CASE NoRespFree
  <2>1. node' \in [Node -> NodeRec] /\ req' \in [Ioctl -> Req] /\ SameCall(req, req')
    BY <1>0, <1>6, FreeOK DEF NoRespFree, Types
  <2> QED BY <1>0, <1>6, <2>1 DEF NoRespFree, Others, Types, scanVars, timerVars, linkVars
<1>7. CASE DnldArm
  BY <1>0, <1>7 DEF DnldArm, Others, Types, scanVars, linkVars
<1> QED BY <1>1, <1>2, <1>3, <1>4, <1>5, <1>6, <1>7 DEF DnldStep

\* The firmware and its interrupts keep the types.
LEMMA LinkTypes ==
  ASSUME Shape, FwRespond \/ DownloadDone \/ RxCmdResp
  PROVE  Others
<1> USE NoneApart, SameCallRefl
<1>0. Types /\ Control /\ UserKnown
  BY DEF Shape
<1>1. CASE FwRespond
  <2>1. PICK r \in fw.results :
       /\ fw' = [fw EXCEPT !.rsp = r,
                           !.scan = CASE r = "ok" /\ fw.cmd = "scan" -> "run"
                                      [] r = "ok" /\ fw.cmd = "dscan" -> "drun"
                                      [] r = "ok" /\ fw.cmd = "stop" /\ @ = "run" -> "reported"
                                      [] r = "ok" /\ fw.cmd = "stop" /\ @ = "drun" -> "idle"
                                      [] OTHER -> @]
       /\ req' = IF r = "ok" /\ curr_cmd # None
                 THEN [i \in Ioctl |-> IF i = node[curr_cmd].ioctl
                                       THEN [req[i] EXCEPT !.answered = TRUE] ELSE req[i]]
                 ELSE req
    BY <1>1 DEF FwRespond
  <2>2. r \in AllResults
    BY <1>0 DEF Types, FwRec
  <2>3. fw' \in FwRec
    BY <1>0, <2>1, <2>2 DEF Types, FwRec
  <2>4. req' \in [Ioctl -> Req] /\ SameCall(req, req')
    <3>1. \A i \in Ioctl : /\ [req[i] EXCEPT !.answered = TRUE] \in Req
                           /\ [req[i] EXCEPT !.answered = TRUE].kind = req[i].kind
                           /\ [req[i] EXCEPT !.answered = TRUE].bss = req[i].bss
                           /\ [req[i] EXCEPT !.answered = TRUE].cmds = req[i].cmds
                           /\ [req[i] EXCEPT !.answered = TRUE].st = req[i].st
      <4> TAKE i \in Ioctl
      <4>1. req[i] \in Req
        BY <1>0 DEF Types
      <4> QED BY <4>1 DEF Req
    <3> QED BY <1>0, <2>1, <3>1 DEF Types, SameCall
  <2>5. UNCHANGED <<queueVars, curr_cmd, node, scanVars, timerVars, cmd_sent,
                    cmd_resp_received, main, user, hang, driver_status>>
    BY <1>1 DEF FwRespond
  <2> QED BY <1>0, <2>3, <2>4, <2>5 DEF Others, Types, scanVars, timerVars
<1>2. CASE DownloadDone
  <2>1. cmd_sent' \in BOOLEAN
    BY <1>2 DEF DownloadDone
  <2>2. UNCHANGED <<curr_cmd, node, pscan_ioctl_req, scan_processing, ext_scan_enhance,
                    timer, cmd_timer_is_set, tcb, cmd_resp_received, fw, main, user, hang,
                    driver_status, req>>
    BY <1>2 DEF DownloadDone, scanVars, timerVars
  <2>3. Types'
    BY <1>0, <2>1, <2>2 DEF Types
  <2>4. SameCall(req, req')
    BY <1>0, <2>2, SameCallRefl DEF Types
  <2> QED BY <2>2, <2>3, <2>4 DEF Others
<1>3. CASE RxCmdResp
  <2>1. fw.rsp \in AllResults /\ fw' \in FwRec
    BY <1>0, <1>3 DEF RxCmdResp, Types, FwRec
  <2>2. node' \in [Node -> NodeRec]
    BY <1>0, <1>3, <2>1 DEF RxCmdResp, Types, NodeRec
  <2>3. cmd_sent' \in BOOLEAN /\ cmd_resp_received' \in BOOLEAN
    <3>1. cmd_sent' = FALSE /\ (cmd_resp_received' = cmd_resp_received \/ cmd_resp_received' = TRUE)
      BY <1>3 DEF RxCmdResp
    <3> QED BY <1>0, <3>1 DEF Types
  <2>4. UNCHANGED <<curr_cmd, pscan_ioctl_req, scan_processing, ext_scan_enhance, timer,
                    cmd_timer_is_set, tcb, main, user, hang, driver_status, req>>
    BY <1>3 DEF RxCmdResp, scanVars, timerVars
  <2>5. Types'
    BY <1>0, <2>1, <2>2, <2>3, <2>4 DEF Types
  <2>6. SameCall(req, req')
    BY <1>0, <2>4, SameCallRefl DEF Types
  <2> QED BY <2>4, <2>5, <2>6 DEF Others
<1> QED BY <1>1, <1>2, <1>3

\* Handling a response keeps the types.
LEMMA RespTypes ==
  ASSUME Shape, RespStep
  PROVE  Others
<1> USE NoneApart, IdleOK, SameCallRefl
<1>0. Types /\ Control /\ UserKnown
  BY DEF Shape
<1>p. \A p \in MainPC : [main EXCEPT !.pc = p] \in MainRec
  BY <1>0, PcOK DEF Types
<1>c. \A S, c : c \in Codes => /\ SetCode(req, S, c) \in [Ioctl -> Req]
                               /\ SameCall(req, SetCode(req, S, c))
  BY <1>0, SetCodeOK DEF Types
<1>d. {None, "cancel", "fail"} \subseteq Codes
  BY DEF Codes
<1>f. \A r \in [Ioctl -> Req] : \A N : SameCall(req, r) /\ Free(N, r, node) =>
         node' \in [Node -> NodeRec] /\ req' \in [Ioctl -> Req] /\ SameCall(req, req')
  BY <1>0, FreeOK, SameCallTrans DEF Types
<1>1. CASE RespTaken
  <2>1. curr_cmd \in Node /\ node[curr_cmd] \in NodeRec
    BY <1>0, <1>1 DEF RespTaken, Control, Types
  <2>2. main' \in MainRec
    BY <1>0, <1>1, <2>1 DEF RespTaken, Types, MainRec, MainIdle, MainPC, AfterResp, NodeRec
  <2>3. timer' \in {"off", "armed"} /\ cmd_timer_is_set' \in BOOLEAN /\ tcb' = tcb
    BY <1>0, <1>1 DEF RespTaken, Types, StopTimer, timerVars
  <2> QED BY <1>0, <1>1, <2>2, <2>3 DEF RespTaken, Others, Types, scanVars
<1>2. CASE RespCanceled
  <2>1. /\ node' \in [Node -> NodeRec] /\ req' \in [Ioctl -> Req] /\ SameCall(req, req')
        /\ curr_cmd' \in {curr_cmd, None}
    BY <1>0, <1>2, <1>c, <1>d, <1>f DEF RespCanceled, Types
  <2>2. main' \in MainRec
    BY <1>2, <1>p DEF RespCanceled, MainTo, MainPC, AfterResp
  <2> QED BY <1>0, <1>2, <2>1, <2>2 DEF RespCanceled, Others, Types, scanVars, timerVars, linkVars
<1>3. CASE HandleInvalid
  <2>1. node' \in [Node -> NodeRec] /\ req' \in [Ioctl -> Req] /\ SameCall(req, req')
    BY <1>3, <1>c, <1>d, <1>f DEF HandleInvalid
  <2> QED BY <1>0, <1>3, <2>1 DEF HandleInvalid, Others, Types, scanVars, timerVars, linkVars
<1>4. CASE HandlePreAsleep
  <2>1. node' \in [Node -> NodeRec]
    <3>1. node \in [Node -> NodeRec] /\ curr_cmd \in Node \cup {None}
      BY <1>0 DEF Types
    <3> QED BY <1>4, <3>1 DEF HandlePreAsleep, NodeRec
  <2> QED BY <1>0, <1>4, <2>1 DEF HandlePreAsleep, Others, Types, scanVars, timerVars, linkVars
<1>5. CASE HandleError
  <2> DEFINE r == SetCode(req, Some(main.ioctl), "fail")
  <2>1. r \in [Ioctl -> Req] /\ SameCall(req, r)
    BY <1>c, <1>d
  <2> HIDE DEF r
  <2>2. /\ \/ FlushScan(r) /\ MainTo("errscan")
           \/ /\ req' = r /\ MainTo("errfree")
              /\ UNCHANGED <<cmd_free_q, node, scan_pending_q, scan_processing>>
        /\ UNCHANGED <<cmd_pending_q, ext_cmd_pending_q, curr_cmd, pscan_ioctl_req,
                       ext_scan_enhance, timerVars, linkVars, user, hang, driver_status>>
    BY <1>5 DEF HandleError, r
  <2>3. /\ node' \in [Node -> NodeRec] /\ req' \in [Ioctl -> Req] /\ SameCall(req, req')
        /\ scan_processing' \in BOOLEAN
    BY <1>0, <2>1, <2>2, <1>f DEF FlushScan, Types
  <2>4. main' \in MainRec
    BY <2>2, <1>p DEF MainTo, MainPC, AfterResp
  <2> QED BY <1>0, <2>2, <2>3, <2>4 DEF Others, Types, timerVars, linkVars
<1>6. CASE ErrorScanDone
  <2>1. req' \in [Ioctl -> Req] /\ SameCall(req, req')
    BY <1>6, <1>c, <1>d, CompleteAllOK, SameCallTrans DEF ErrorScanDone, ScanDone
  <2>2. main' \in MainRec
    BY <1>6, <1>p DEF ErrorScanDone, MainTo, MainPC, AfterResp
  <2>3. scan_processing' \in BOOLEAN /\ pscan_ioctl_req' = None
    BY <1>6 DEF ErrorScanDone
  <2>4. UNCHANGED <<curr_cmd, tcb, node, ext_scan_enhance, cmd_sent, cmd_resp_received,
                    cmd_timer_is_set, driver_status, timer, hang, user, fw>>
    BY <1>6 DEF ErrorScanDone, timerVars, linkVars
  <2>5. Types'
    BY <1>0, <2>1, <2>2, <2>3, <2>4 DEF Types
  <2> QED BY <2>1, <2>4, <2>5 DEF Others
<1>7. CASE ErrorFree
  <2>1. node' \in [Node -> NodeRec] /\ req' \in [Ioctl -> Req] /\ SameCall(req, req')
    BY <1>0, <1>7, <1>f DEF ErrorFree, Types
  <2> QED BY <1>0, <1>7, <2>1 DEF ErrorFree, Others, Types, scanVars, timerVars, linkVars
<1>8. CASE HandleOk
  <2>1. main' \in MainRec
    BY <1>8, <1>p DEF HandleOk, MainTo, MainPC, AfterResp
  <2>2. /\ timer' \in {"off", "armed"} /\ cmd_timer_is_set' \in BOOLEAN
        /\ scan_processing' \in BOOLEAN /\ ext_scan_enhance' \in BOOLEAN
        /\ pscan_ioctl_req' = pscan_ioctl_req
    BY <1>0, <1>8 DEF HandleOk, Types, scanVars
  <2> QED BY <1>0, <1>8, <2>1, <2>2 DEF HandleOk, Others, Types, linkVars
<1>9. CASE StopCompletes
  <2>1. req' \in [Ioctl -> Req] /\ SameCall(req, req')
    BY <1>9, <1>c, <1>d, CompleteAllOK, SameCallTrans DEF StopCompletes
  <2>2. main' \in MainRec
    BY <1>9, <1>p DEF StopCompletes, MainTo, MainPC, AfterResp
  <2>3. UNCHANGED <<queueVars, curr_cmd, node, scanVars, timerVars, linkVars, user, hang,
                    driver_status>>
    BY <1>9 DEF StopCompletes
  <2> QED BY <1>0, <2>1, <2>2, <2>3 DEF Others, Types, scanVars, timerVars, linkVars
<1>10. CASE RespTail
  <2>1. node' \in [Node -> NodeRec] /\ req' \in [Ioctl -> Req] /\ SameCall(req, req')
    BY <1>10, <1>c, <1>d, <1>f DEF RespTail
  <2> QED BY <1>0, <1>10, <2>1 DEF RespTail, Others, Types, scanVars, timerVars, linkVars
<1> QED BY <1>1, <1>2, <1>3, <1>4, <1>5, <1>6, <1>7, <1>8, <1>9, <1>10 DEF RespStep

\* Handling an event keeps the types.
LEMMA EventTypes ==
  ASSUME Shape, EventStep
  PROVE  Others
<1> USE NoneApart, IdleOK, SameCallRefl
<1>0. Types /\ Control /\ UserKnown
  BY DEF Shape
<1>p. \A p \in MainPC : [main EXCEPT !.pc = p] \in MainRec
  BY <1>0, PcOK DEF Types
<1>q. {"idle", "move", "status", "report", "complete"} \subseteq MainPC
  BY DEF MainPC, EventPC
<1>1. CASE ScanReport
  <2>1. main' \in MainRec /\ fw' \in FwRec
    BY <1>0, <1>1, <1>p, <1>q DEF ScanReport, MainTo, Types, FwRec
  <2> QED BY <1>0, <1>1, <2>1 DEF ScanReport, Others, Types, scanVars, timerVars
<1>2. CASE ScanStatus
  <2>1. main' \in MainRec /\ fw' \in FwRec
    BY <1>0, <1>2, <1>p, <1>q DEF ScanStatus, MainTo, Types, FwRec
  <2> QED BY <1>0, <1>2, <2>1 DEF ScanStatus, Others, Types, scanVars, timerVars
<1>3. CASE StatusStopsTimer
  <2>1. main' \in MainRec
    BY <1>3, <1>p, <1>q DEF StatusStopsTimer, MainTo
  <2>2. timer' \in {"off", "armed"} /\ cmd_timer_is_set' \in BOOLEAN
    BY <1>0, <1>3 DEF StatusStopsTimer, StopTimer, Types
  <2> QED BY <1>0, <1>3, <2>1, <2>2 DEF StatusStopsTimer, Others, Types, scanVars, linkVars
<1>4. CASE ScanCompletes
  <2>1. req' \in [Ioctl -> Req] /\ SameCall(req, req')
    <3>1. None \in Codes
      BY DEF Codes
    <3> QED BY <1>0, <1>4, <3>1, SetCodeOK, CompleteAllOK, SameCallTrans
            DEF ScanCompletes, ScanDone, Types
  <2>2. main' \in MainRec
    BY <1>4, <1>p, <1>q DEF ScanCompletes, MainTo
  <2> QED BY <1>0, <1>4, <2>1, <2>2 DEF ScanCompletes, Others, Types, timerVars, linkVars
<1>5. CASE MoveDeferred
  BY <1>0, <1>5 DEF MoveDeferred, Others, Types, scanVars, timerVars, linkVars
<1> QED BY <1>1, <1>2, <1>3, <1>4, <1>5 DEF EventStep

\* The timer and the hang work keep the types.
LEMMA TimerTypes ==
  ASSUME Shape, TimerStep \/ HangStep
  PROVE  Others
<1> USE NoneApart, SameCallRefl
<1>0. Types /\ Control /\ UserKnown
  BY DEF Shape
<1>1. CASE TimerExpires
  BY <1>0, <1>1 DEF TimerExpires, Others, Types, scanVars, linkVars
<1>2. CASE TimerReports
  <2>1. "timeout" \in Codes
    BY DEF Codes
  <2>2. req' \in [Ioctl -> Req] /\ SameCall(req, req')
    BY <1>0, <1>2, <2>1, SetCodeOK DEF TimerReports, Types
  <2> QED BY <1>0, <1>2, <2>2 DEF TimerReports, Others, Types, scanVars, linkVars
<1>3. CASE HangCancel
  <2> DEFINE N == Range(cmd_pending_q)
             S == N \cup Some(curr_cmd)
             r == CancelAll(req, Some(pscan_ioctl_req) \cup IoctlsOf(S))
             nd == Detach(node, S)
  <2>1. Free(N, r, nd)
    BY <1>3 DEF HangCancel, flag
  <2>2. r \in [Ioctl -> Req] /\ SameCall(req, r) /\ nd \in [Node -> NodeRec]
    BY <1>0, CancelAllOK, DetachOK DEF Types
  <2> HIDE DEF r, nd
  <2>3. node' \in [Node -> NodeRec] /\ req' \in [Ioctl -> Req] /\ SameCall(req, req')
    BY <2>1, <2>2, FreeOK, SameCallTrans
  <2>4. /\ curr_cmd' = curr_cmd /\ timer' \in {"off", "armed"} /\ cmd_timer_is_set' \in BOOLEAN
        /\ hang' = "scan" /\ pscan_ioctl_req' = None
        /\ UNCHANGED <<scan_pending_q, ext_cmd_pending_q, scan_processing,
                       ext_scan_enhance, tcb, linkVars, main, user, driver_status>>
    BY <1>0, <1>3 DEF HangCancel, flag, Types
  <2> QED BY <1>0, <2>3, <2>4 DEF Others, Types, linkVars
<1>4. CASE HangFlushScan
  <2>1. node' \in [Node -> NodeRec] /\ req' \in [Ioctl -> Req] /\ SameCall(req, req')
    BY <1>0, <1>4, FreeOK DEF HangFlushScan, FlushScan, Types
  <2> QED BY <1>0, <1>4, <2>1 DEF HangFlushScan, FlushScan, Others, Types, timerVars, linkVars
<1>5. CASE HangFlushExt
  <2>1. node' \in [Node -> NodeRec] /\ req' \in [Ioctl -> Req] /\ SameCall(req, req')
    BY <1>0, <1>5, FreeOK, CancelAllOK, DetachOK, SameCallTrans DEF HangFlushExt, Types
  <2> QED BY <1>0, <1>5, <2>1 DEF HangFlushExt, Others, Types, scanVars, timerVars, linkVars
<1> QED BY <1>1, <1>2, <1>3, <1>4, <1>5 DEF TimerStep, HangStep

\* Every context but USER keeps the types, the calls and the user.
LEMMA OtherTypes ==
  ASSUME Shape, MainStep \/ FwRespond \/ TimerStep \/ HangStep
  PROVE  Others
  BY DnldTypes, LinkTypes, RespTypes, EventTypes, TimerTypes DEF MainStep

-----------------------------------------------------------------------------
(* Places: every node is in one place.                                     *)

\* The place of one node.
Stands(w, n) ==
  /\ n \in cmd_free_q <=> w[n] = "free"
  /\ n \in Range(cmd_pending_q) <=> w[n] = "pending"
  /\ n \in Range(scan_pending_q) <=> w[n] = "scan"
  /\ n \in Range(ext_cmd_pending_q) <=> w[n] = "deferred"
  /\ n = curr_cmd <=> w[n] = "curr"
  /\ n = main.node <=> w[n] = "main"
  /\ n = user.node <=> w[n] = "user"

\* Where a node is, read off the variables.
LEMMA PlacesFacts ==
  ASSUME NEW w, Places(w)
  PROVE  /\ \A n \in Node : Stands(w, n)
         /\ cmd_free_q \subseteq Node /\ Range(cmd_pending_q) \subseteq Node
         /\ Range(scan_pending_q) \subseteq Node /\ Range(ext_cmd_pending_q) \subseteq Node
  BY NoneApart DEF Places, At, Some, Stands

\* The same the other way round, for the next state.
LEMMA PlacesNext ==
  ASSUME NEW w \in [Node -> Spots],
         curr_cmd' \in Node \cup {None}, main'.node \in Node \cup {None},
         user'.node \in Node \cup {None},
         cmd_free_q' \subseteq Node, Range(cmd_pending_q') \subseteq Node,
         Range(scan_pending_q') \subseteq Node, Range(ext_cmd_pending_q') \subseteq Node,
         Queue(cmd_pending_q'), Queue(scan_pending_q'), Queue(ext_cmd_pending_q'),
         \A n \in Node : Stands(w, n)'
  PROVE  Places(w)'
<1>1. /\ cmd_free_q' = At(w, "free") /\ Range(cmd_pending_q') = At(w, "pending")
      /\ Range(scan_pending_q') = At(w, "scan") /\ Range(ext_cmd_pending_q') = At(w, "deferred")
  BY DEF At, Stands
<1>2. Some(curr_cmd') = At(w, "curr")
  BY NoneApart DEF At, Some, Stands
<1>3. Some(main'.node) = At(w, "main")
  BY NoneApart DEF At, Some, Stands
<1>4. Some(user'.node) = At(w, "user")
  BY NoneApart DEF At, Some, Stands
<1> QED BY <1>1, <1>2, <1>3, <1>4 DEF Places, At, Queue

\* A step that moves no node.
LEMMA PlacesSame ==
  ASSUME Shape, UNCHANGED <<queueVars, curr_cmd>>,
         main'.node = main.node, user'.node = user.node
  PROVE  \E w : Places(w)'
<1>1. PICK w : Places(w)
  BY DEF Shape
<1>2. Places(w)'
  BY <1>1 DEF Places, queueVars
<1> QED BY <1>2

\* The current command is freed.
LEMMA PlacesFreeCurr ==
  ASSUME Shape, curr_cmd \in Node, curr_cmd' = None, cmd_free_q' = cmd_free_q \cup {curr_cmd},
         UNCHANGED <<cmd_pending_q, scan_pending_q, ext_cmd_pending_q>>,
         main'.node = main.node, user'.node = user.node
  PROVE  \E w : Places(w)'
<1>1. PICK w : Places(w)
  BY DEF Shape
<1>2. PICK v \in [Node -> Spots] : \A n \in Node : v[n] = IF n = curr_cmd THEN "free" ELSE w[n]
  <2>1. [w EXCEPT ![curr_cmd] = "free"] \in [Node -> Spots]
    BY <1>1 DEF Places, Spots
  <2> QED BY <2>1
<1>3. Places(v)'
  <2>1. main.node \in Node \cup {None} /\ user.node \in Node \cup {None}
    BY DEF Shape, Types, MainRec, UserRec
  <2>2. Queue(cmd_pending_q) /\ Queue(scan_pending_q) /\ Queue(ext_cmd_pending_q)
    BY <1>1 DEF Places
  <2>3. \A n \in Node : Stands(w, n)
    BY <1>1, PlacesFacts
  <2>4. \A n \in Node : Stands(v, n)'
    BY <1>2, <2>3, NoneApart DEF Stands
  <2> QED BY <1>1, <1>2, <2>1, <2>2, <2>4, PlacesFacts, PlacesNext
<1> QED BY <1>3

\* The scan queue is flushed.
LEMMA PlacesFlushScan ==
  ASSUME Shape, cmd_free_q' = cmd_free_q \cup Range(scan_pending_q), scan_pending_q' = <<>>,
         UNCHANGED <<cmd_pending_q, ext_cmd_pending_q, curr_cmd>>,
         main'.node = main.node, user'.node = user.node
  PROVE  \E w : Places(w)'
<1>1. PICK w : Places(w)
  BY DEF Shape
<1>2. PICK v \in [Node -> Spots] : \A n \in Node : v[n] = IF w[n] = "scan" THEN "free" ELSE w[n]
  <2>1. [n \in Node |-> IF w[n] = "scan" THEN "free" ELSE w[n]] \in [Node -> Spots]
    BY <1>1 DEF Places, Spots
  <2> QED BY <2>1
<1>3. Places(v)'
  BY <1>1, <1>2, PlacesFacts, EmptyQueue DEF Places, At
<1> QED BY <1>3

\* The next scan command is moved.
LEMMA PlacesNextScan ==
  ASSUME Shape, scan_pending_q # <<>>, scan_pending_q' = Tail(scan_pending_q),
         cmd_pending_q' = Append(cmd_pending_q, Head(scan_pending_q)),
         UNCHANGED <<cmd_free_q, ext_cmd_pending_q, curr_cmd>>,
         main'.node = main.node, user'.node = user.node
  PROVE  \E w : Places(w)'
<1>1. PICK w : Places(w)
  BY DEF Shape
<1> DEFINE h == Head(scan_pending_q)
<1>0. /\ h \in Node /\ w[h] = "scan" /\ h \notin Range(cmd_pending_q)
      /\ Queue(scan_pending_q') /\ Range(scan_pending_q') = Range(scan_pending_q) \ {h}
  BY <1>1, TailQueue, PlacesFacts DEF Places, Stands
<1>4. Queue(cmd_pending_q') /\ Range(cmd_pending_q') = Range(cmd_pending_q) \cup {h}
  BY <1>0, <1>1, AppendQueue DEF Places
<1>2. PICK v \in [Node -> Spots] : \A n \in Node : v[n] = IF n = h THEN "pending" ELSE w[n]
  <2>1. [w EXCEPT ![h] = "pending"] \in [Node -> Spots]
    BY <1>1 DEF Places, Spots
  <2> QED BY <2>1
<1> HIDE DEF h
<1>3. Places(v)'
  <2>1. main.node \in Node \cup {None} /\ user.node \in Node \cup {None}
        /\ curr_cmd \in Node \cup {None}
    BY DEF Shape, Types, MainRec, UserRec
  <2>2. Queue(ext_cmd_pending_q)
    BY <1>1 DEF Places
  <2>3. \A n \in Node : Stands(w, n)
    BY <1>1, PlacesFacts
  <2>4. \A n \in Node : Stands(v, n)'
    BY <1>0, <1>4, <1>2, <2>3, NoneApart DEF Stands
  <2> QED BY <1>0, <1>4, <1>1, <1>2, <2>1, <2>2, <2>4, PlacesFacts, PlacesNext
<1> QED BY <1>3

\* Downloading moves a node from the queue to the loop, to curr_cmd, to free.
LEMMA PlacesDnld ==
  ASSUME Shape, DnldStep
  PROVE  \E w : Places(w)'
<1> USE NoneApart
<1>0. Types /\ Control
  BY DEF Shape
<1>1. CASE ExecNextCmd
  <2>1. PICK w : Places(w)
    BY DEF Shape
  <2> DEFINE h == Head(cmd_pending_q)
  <2>2. /\ main.node = None /\ main'.node = h /\ cmd_pending_q' = Tail(cmd_pending_q)
        /\ cmd_pending_q # <<>>
        /\ UNCHANGED <<cmd_free_q, scan_pending_q, ext_cmd_pending_q, curr_cmd, user>>
    BY <1>0, <1>1 DEF ExecNextCmd, MainAt, Control, MainIdle
  <2>3. /\ h \in Node /\ w[h] = "pending"
        /\ Queue(cmd_pending_q') /\ Range(cmd_pending_q') = Range(cmd_pending_q) \ {h}
    BY <2>1, <2>2, TailQueue, PlacesFacts DEF Places, Stands
  <2>4. PICK v \in [Node -> Spots] : \A n \in Node : v[n] = IF n = h THEN "main" ELSE w[n]
    <3>1. [w EXCEPT ![h] = "main"] \in [Node -> Spots]
      BY <2>1 DEF Places, Spots
    <3> QED BY <3>1
  <2> HIDE DEF h
  <2>5. Places(v)'
    <3>1. user.node \in Node \cup {None} /\ curr_cmd \in Node \cup {None}
      BY <1>0 DEF Types, UserRec
    <3>2. Queue(scan_pending_q) /\ Queue(ext_cmd_pending_q)
      BY <2>1 DEF Places
    <3>8. \A n \in Node : Stands(w, n)
      BY <2>1, PlacesFacts
    <3>9. \A n \in Node : Stands(v, n)'
      BY <2>2, <2>3, <2>4, <3>8, NoneApart DEF Stands
    <3> QED BY <2>1, <2>2, <2>3, <2>4, <3>1, <3>2, <3>9, PlacesFacts, PlacesNext
  <2> QED BY <2>5
<1>2. CASE DnldCurrent
  <2>1. PICK w : Places(w)
    BY DEF Shape
  <2> DEFINE h == main.node
  <2>2. /\ curr_cmd = None /\ curr_cmd' = h /\ main'.node = None /\ h \in Node
        /\ UNCHANGED <<queueVars, user>>
    BY <1>0, <1>2 DEF DnldCurrent, MainAt, Control, MainIdle, Types, MainRec
  <2>3. PICK v \in [Node -> Spots] : \A n \in Node : v[n] = IF n = h THEN "curr" ELSE w[n]
    <3>1. [w EXCEPT ![h] = "curr"] \in [Node -> Spots]
      BY <2>1 DEF Places, Spots
    <3> QED BY <3>1
  <2>4. Places(v)'
    <3>1. user.node \in Node \cup {None}
      BY <1>0 DEF Types, UserRec
    <3>2. Queue(cmd_pending_q) /\ Queue(scan_pending_q) /\ Queue(ext_cmd_pending_q)
      BY <2>1 DEF Places
    <3>3. /\ cmd_free_q' = cmd_free_q /\ cmd_pending_q' = cmd_pending_q /\ user' = user
          /\ scan_pending_q' = scan_pending_q /\ ext_cmd_pending_q' = ext_cmd_pending_q
      BY <2>2 DEF queueVars
    <3>8. \A n \in Node : Stands(w, n)
      BY <2>1, PlacesFacts
    <3>9. \A n \in Node : Stands(v, n)'
      BY <2>2, <2>3, <3>3, <3>8, NoneApart DEF Stands
    <3> QED BY <2>1, <2>2, <2>3, <3>3, <3>1, <3>2, <3>9, PlacesFacts, PlacesNext
  <2> QED BY <2>4
<1>3. CASE DnldSent \/ NoRespDone \/ DnldArm
  <2>1. main'.node = main.node
    BY <1>0, <1>3 DEF DnldSent, NoRespDone, DnldArm, MainTo, MainAt, MainIdle, Control, Types, MainRec
  <2>2. UNCHANGED <<queueVars, curr_cmd, user>>
    BY <1>3 DEF DnldSent, NoRespDone, DnldArm
  <2> QED BY <2>1, <2>2, PlacesSame
<1>4. CASE DnldFails \/ NoRespFree
  <2>1. /\ main'.node = main.node /\ curr_cmd \in Node /\ curr_cmd' = None /\ user' = user
        /\ UNCHANGED <<cmd_pending_q, scan_pending_q, ext_cmd_pending_q>>
    BY <1>0, <1>4 DEF DnldFails, NoRespFree, MainAt, MainIdle, Control, Types, MainRec, BeforeResp
  <2>2. cmd_free_q' = cmd_free_q \cup {curr_cmd}
    BY <1>4 DEF DnldFails, NoRespFree, Free
  <2> QED BY <2>1, <2>2, PlacesFreeCurr
<1> QED BY <1>1, <1>2, <1>3, <1>4 DEF DnldStep

\* The firmware and the timer move no node.
LEMMA PlacesLink ==
  ASSUME Shape, FwRespond \/ DownloadDone \/ RxCmdResp \/ TimerStep
  PROVE  \E w : Places(w)'
<1>1. UNCHANGED <<queueVars, curr_cmd, main, user>>
  BY DEF FwRespond, DownloadDone, RxCmdResp, TimerStep, TimerExpires, TimerReports
<1> QED BY <1>1, PlacesSame

\* A response frees the current node, or puts it back into the queue.
LEMMA PlacesResp ==
  ASSUME Shape, RespStep
  PROVE  \E w : Places(w)'
<1> USE NoneApart
<1>0. Types /\ Control
  BY DEF Shape
<1>1. CASE RespTaken \/ ErrorScanDone \/ HandleOk \/ StopCompletes
  <2>1. UNCHANGED <<queueVars, curr_cmd, user>>
    BY <1>1 DEF RespTaken, ErrorScanDone, HandleOk, StopCompletes
  <2>2. main'.node = main.node
    BY <1>0, <1>1 DEF RespTaken, ErrorScanDone, HandleOk, StopCompletes, MainTo, MainAt, MainIdle,
       Control, Types, MainRec
  <2> QED BY <2>1, <2>2, PlacesSame
<1>2. ASSUME curr_cmd' = None, cmd_free_q' = cmd_free_q \cup {curr_cmd}, main' = MainIdle,
             main.pc \in AfterResp,
             UNCHANGED <<cmd_pending_q, scan_pending_q, ext_cmd_pending_q, user>>
      PROVE  \E w : Places(w)'
  <2>1. main'.node = main.node /\ curr_cmd \in Node
    BY <1>0, <1>2 DEF Control, AfterResp, MainIdle, Types
  <2> QED BY <1>2, <2>1, PlacesFreeCurr
<1>3. CASE HandleInvalid
  BY <1>2, <1>3 DEF HandleInvalid, Handling, MainAt, AfterResp, Free
<1>4. CASE ErrorFree
  BY <1>2, <1>4 DEF ErrorFree, MainAt, AfterResp, Free
<1>5. CASE RespTail
  BY <1>2, <1>5 DEF RespTail, MainAt, AfterResp, Free
<1>6. CASE RespCanceled
  <2>1. CASE node[curr_cmd].canceled
    BY <1>2, <1>6, <2>1 DEF RespCanceled, MainAt, AfterResp, Free
  <2>2. CASE ~node[curr_cmd].canceled
    <3>1. UNCHANGED <<queueVars, curr_cmd, user>> /\ main'.node = main.node
      BY <1>0, <1>6, <2>2 DEF RespCanceled, MainTo, Types, MainRec, queueVars
    <3> QED BY <3>1, PlacesSame
  <2> QED BY <2>1, <2>2
<1>7. CASE HandlePreAsleep
  <2>1. PICK w : Places(w)
    BY DEF Shape
  <2>2. /\ curr_cmd \in Node /\ curr_cmd' = None /\ main'.node = main.node
        /\ cmd_pending_q' = <<curr_cmd>> \o cmd_pending_q
        /\ UNCHANGED <<cmd_free_q, scan_pending_q, ext_cmd_pending_q, user>>
    BY <1>0, <1>7 DEF HandlePreAsleep, Handling, Requeued, MainAt, Control, MainIdle, Types, AfterResp
  <2>3. Queue(cmd_pending_q') /\ Range(cmd_pending_q') = Range(cmd_pending_q) \cup {curr_cmd}
    <3>1. Range(<<curr_cmd>>) \cap Range(cmd_pending_q) = {}
      BY <2>1, <2>2, OneQueue, PlacesFacts DEF Stands
    <3> QED BY <2>1, <2>2, <3>1, OneQueue, ConcatQueue DEF Places
  <2>4. PICK v \in [Node -> Spots] : \A n \in Node : v[n] = IF n = curr_cmd THEN "pending" ELSE w[n]
    <3>1. [w EXCEPT ![curr_cmd] = "pending"] \in [Node -> Spots]
      BY <2>1 DEF Places, Spots
    <3> QED BY <3>1
  <2>5. Places(v)'
    <3>1. user.node \in Node \cup {None} /\ main.node \in Node \cup {None}
      BY <1>0 DEF Types, UserRec, MainRec
    <3>2. Queue(scan_pending_q) /\ Queue(ext_cmd_pending_q)
      BY <2>1 DEF Places
    <3>8. \A n \in Node : Stands(w, n)
      BY <2>1, PlacesFacts
    <3>9. \A n \in Node : Stands(v, n)'
      BY <2>2, <2>3, <2>4, <3>8, NoneApart DEF Stands
    <3> QED BY <2>1, <2>2, <2>3, <2>4, <3>1, <3>2, <3>9, PlacesFacts, PlacesNext
  <2> QED BY <2>5
<1>8. CASE HandleError
  <2>1. UNCHANGED <<cmd_pending_q, ext_cmd_pending_q, curr_cmd, user>>
    BY <1>8 DEF HandleError
  <2>2. main'.node = main.node
    BY <1>0, <1>8 DEF HandleError, MainTo, Types, MainRec
  <2>3. CASE node[curr_cmd].cmd \in ScanKinds \cup {"stop"}
    <3>1. cmd_free_q' = cmd_free_q \cup Range(scan_pending_q) /\ scan_pending_q' = <<>>
      BY <1>8, <2>3 DEF HandleError, FlushScan, Free
    <3> QED BY <2>1, <2>2, <3>1, PlacesFlushScan
  <2>4. CASE node[curr_cmd].cmd \notin ScanKinds \cup {"stop"}
    <3>1. UNCHANGED <<cmd_free_q, scan_pending_q>>
      BY <1>8, <2>4 DEF HandleError
    <3> QED BY <2>1, <2>2, <3>1, PlacesSame DEF queueVars
  <2> QED BY <2>3, <2>4
<1> QED BY <1>1, <1>3, <1>4, <1>5, <1>6, <1>7, <1>8 DEF RespStep

\* Events move scan commands and deferred commands on.
LEMMA PlacesEvent ==
  ASSUME Shape, EventStep
  PROVE  \E w : Places(w)'
<1> USE NoneApart
<1>0. Types /\ Control
  BY DEF Shape
<1>1. CASE ScanReport \/ ScanStatus
  <2>1. main'.node = main.node /\ UNCHANGED <<cmd_free_q, ext_cmd_pending_q, curr_cmd, user>>
    BY <1>0, <1>1 DEF ScanReport, ScanStatus, MainTo, Types, MainRec
  <2>2. \/ scan_pending_q # <<>> /\ NextScanCmd
        \/ UNCHANGED <<cmd_pending_q, scan_pending_q>>
    BY <1>1 DEF ScanReport, ScanStatus
  <2> QED BY <2>1, <2>2, PlacesNextScan, PlacesSame DEF NextScanCmd, queueVars
<1>2. CASE StatusStopsTimer \/ ScanCompletes
  <2>1. UNCHANGED <<queueVars, curr_cmd, user>>
    BY <1>2 DEF StatusStopsTimer, ScanCompletes
  <2>2. main'.node = main.node
    BY <1>0, <1>2 DEF StatusStopsTimer, ScanCompletes, MainTo, Types, MainRec
  <2> QED BY <2>1, <2>2, PlacesSame
<1>3. CASE MoveDeferred
  <2>1. PICK w : Places(w)
    BY DEF Shape
  <2>2. /\ main'.node = main.node
        /\ cmd_pending_q' = cmd_pending_q \o ext_cmd_pending_q /\ ext_cmd_pending_q' = <<>>
        /\ UNCHANGED <<cmd_free_q, scan_pending_q, curr_cmd, user>>
    BY <1>0, <1>3 DEF MoveDeferred, MainAt, Control, MainIdle, Types
  <2>3. /\ Queue(cmd_pending_q')
        /\ Range(cmd_pending_q') = Range(cmd_pending_q) \cup Range(ext_cmd_pending_q)
    <3>1. Range(cmd_pending_q) \cap Range(ext_cmd_pending_q) = {}
      BY <2>1, PlacesFacts DEF Stands
    <3> QED BY <2>1, <2>2, <3>1, ConcatQueue DEF Places
  <2>4. PICK v \in [Node -> Spots] : \A n \in Node : v[n] = IF w[n] = "deferred" THEN "pending" ELSE w[n]
    <3>1. [n \in Node |-> IF w[n] = "deferred" THEN "pending" ELSE w[n]] \in [Node -> Spots]
      BY <2>1 DEF Places, Spots
    <3> QED BY <3>1
  <2>5. Places(v)'
    BY <2>1, <2>2, <2>3, <2>4, PlacesFacts, EmptyQueue DEF Places, At, Some
  <2> QED BY <2>5
<1> QED BY <1>1, <1>2, <1>3 DEF EventStep

\* The hang work empties one queue after the other.
LEMMA PlacesHang ==
  ASSUME Shape, HangStep
  PROVE  \E w : Places(w)'
<1>1. CASE HangCancel
  <2>1. PICK w : Places(w)
    BY DEF Shape
  <2>2. /\ cmd_free_q' = cmd_free_q \cup Range(cmd_pending_q) /\ cmd_pending_q' = <<>>
        /\ UNCHANGED <<scan_pending_q, ext_cmd_pending_q, curr_cmd, main, user>>
    BY <1>1 DEF HangCancel, flag, Free
  <2>3. PICK v \in [Node -> Spots] : \A n \in Node : v[n] = IF w[n] = "pending" THEN "free" ELSE w[n]
    <3>1. [n \in Node |-> IF w[n] = "pending" THEN "free" ELSE w[n]] \in [Node -> Spots]
      BY <2>1 DEF Places, Spots
    <3> QED BY <3>1
  <2>4. Places(v)'
    BY <2>1, <2>2, <2>3, PlacesFacts, EmptyQueue DEF Places, At
  <2> QED BY <2>4
<1>2. CASE HangFlushScan
  <2>1. /\ cmd_free_q' = cmd_free_q \cup Range(scan_pending_q) /\ scan_pending_q' = <<>>
        /\ UNCHANGED <<cmd_pending_q, ext_cmd_pending_q, curr_cmd, main, user>>
    BY <1>2 DEF HangFlushScan, FlushScan, Free
  <2> QED BY <2>1, PlacesFlushScan
<1>3. CASE HangFlushExt
  <2>1. PICK w : Places(w)
    BY DEF Shape
  <2>2. /\ cmd_free_q' = cmd_free_q \cup Range(ext_cmd_pending_q) /\ ext_cmd_pending_q' = <<>>
        /\ UNCHANGED <<scan_pending_q, cmd_pending_q, curr_cmd, main, user>>
    BY <1>3 DEF HangFlushExt, Free, Deferred
  <2>3. PICK v \in [Node -> Spots] : \A n \in Node : v[n] = IF w[n] = "deferred" THEN "free" ELSE w[n]
    <3>1. [n \in Node |-> IF w[n] = "deferred" THEN "free" ELSE w[n]] \in [Node -> Spots]
      BY <2>1 DEF Places, Spots
    <3> QED BY <3>1
  <2>4. Places(v)'
    BY <2>1, <2>2, <2>3, PlacesFacts, EmptyQueue DEF Places, At
  <2> QED BY <2>4
<1> QED BY <1>1, <1>2, <1>3 DEF HangStep

-----------------------------------------------------------------------------
(* Places: unlinking, USER, and free nodes.                                *)

\* Nodes N of cmd_pending_q are unlinked and freed.
LEMMA PlacesUnlink ==
  ASSUME Shape, NEW N, N \subseteq Range(cmd_pending_q),
         cmd_free_q' = cmd_free_q \cup N, cmd_pending_q' = Without(cmd_pending_q, N),
         UNCHANGED <<scan_pending_q, ext_cmd_pending_q, curr_cmd>>,
         main'.node = main.node, user'.node = user.node
  PROVE  \E w : Places(w)'
<1>1. PICK w : Places(w)
  BY DEF Shape
<1>2. PICK v \in [Node -> Spots] : \A n \in Node : v[n] = IF n \in N THEN "free" ELSE w[n]
  <2>1. [n \in Node |-> IF n \in N THEN "free" ELSE w[n]] \in [Node -> Spots]
    BY <1>1 DEF Places, Spots
  <2> QED BY <2>1
<1>3. /\ Queue(cmd_pending_q') /\ Range(cmd_pending_q') = Range(cmd_pending_q) \ N
      /\ Queue(scan_pending_q) /\ Queue(ext_cmd_pending_q)
  BY <1>1, WithoutQueue DEF Places
<1>4. \A n \in Node : Stands(w, n)
  BY <1>1, PlacesFacts
<1>5. \A n \in Node : Stands(v, n)'
  BY <1>2, <1>3, <1>4 DEF Stands
<1>6. main.node \in Node \cup {None} /\ user.node \in Node \cup {None}
      /\ curr_cmd \in Node \cup {None}
  BY DEF Shape, Types, MainRec, UserRec
<1> QED BY <1>1, <1>2, <1>3, <1>5, <1>6, PlacesFacts, PlacesNext

\* The user takes a free node and queues it, or unlinks and flushes.
LEMMA PlacesUser ==
  ASSUME Shape, UserStep
  PROVE  \E w : Places(w)'
<1> USE NoneApart
<1>0. Types /\ Control
  BY DEF Shape
<1>m. main.node \in Node \cup {None} /\ user.node \in Node \cup {None}
      /\ curr_cmd \in Node \cup {None}
  BY <1>0 DEF Types, MainRec, UserRec
<1>1. CASE (\E i \in Ioctl : Enter(i)) \/ NoCmdNode \/ StopDecide
  <2>1. UNCHANGED <<queueVars, curr_cmd, main>>
    BY <1>1 DEF Enter, NoCmdNode, StopDecide
  <2>2. user'.node = user.node
    BY <1>0, <1>1 DEF Enter, NoCmdNode, StopDecide, UserReturn, UserTo, UserAt, UserIdle, Control,
       Types, UserRec
  <2> QED BY <2>1, <2>2, PlacesSame
<1>2. CASE GetCmdNode
  <2>1. PICK w : Places(w)
    BY DEF Shape
  <2>2. PICK h \in cmd_free_q : cmd_free_q' = cmd_free_q \ {h} /\ user'.node = h
    BY <1>0, <1>2 DEF GetCmdNode, Types, UserRec
  <2>3. /\ UNCHANGED <<cmd_pending_q, scan_pending_q, ext_cmd_pending_q, curr_cmd, main>>
        /\ user.node = None
    BY <1>0, <1>2 DEF GetCmdNode, UserAt, Control
  <2>4. PICK v \in [Node -> Spots] : \A n \in Node : v[n] = IF n = h THEN "user" ELSE w[n]
    <3>1. [w EXCEPT ![h] = "user"] \in [Node -> Spots]
      BY <2>1 DEF Places, Spots
    <3> QED BY <3>1
  <2>5. \A n \in Node : Stands(w, n)
    BY <2>1, PlacesFacts
  <2>6. \A n \in Node : Stands(v, n)'
    BY <2>2, <2>3, <2>4, <2>5 DEF Stands
  <2>7. Queue(cmd_pending_q) /\ Queue(scan_pending_q) /\ Queue(ext_cmd_pending_q)
    BY <2>1 DEF Places
  <2>8. h \in Node
    BY <2>1, PlacesFacts
  <2> QED BY <1>m, <2>1, <2>2, <2>3, <2>4, <2>6, <2>7, <2>8, PlacesFacts, PlacesNext
<1>3. CASE PrepareFails
  <2>1. PICK w : Places(w)
    BY DEF Shape
  <2>2. /\ cmd_free_q' = cmd_free_q \cup {user.node} /\ user'.node = None /\ user.node \in Node
        /\ UNCHANGED <<cmd_pending_q, scan_pending_q, ext_cmd_pending_q, curr_cmd, main>>
    BY <1>0, <1>3 DEF PrepareFails, Free, UserIdle, UserAt, Control, Types, UserRec
  <2>4. PICK v \in [Node -> Spots] : \A n \in Node : v[n] = IF n = user.node THEN "free" ELSE w[n]
    <3>1. [w EXCEPT ![user.node] = "free"] \in [Node -> Spots]
      BY <2>1 DEF Places, Spots
    <3> QED BY <3>1
  <2>5. \A n \in Node : Stands(w, n)
    BY <2>1, PlacesFacts
  <2>6. \A n \in Node : Stands(v, n)'
    BY <2>2, <2>4, <2>5 DEF Stands
  <2>7. Queue(cmd_pending_q) /\ Queue(scan_pending_q) /\ Queue(ext_cmd_pending_q)
    BY <2>1 DEF Places
  <2> QED BY <1>m, <2>1, <2>2, <2>4, <2>6, <2>7, PlacesFacts, PlacesNext
<1>4. CASE PrepareQueues
  <2>1. PICK w : Places(w)
    BY DEF Shape
  <2>2. user.node \in Node /\ user'.node = None
    <3>1. \/ \E t, p : user' = [user EXCEPT !.pc = p, !.node = None, !.todo = t]
          \/ \E p : user' = [user EXCEPT !.pc = p, !.node = None]
          \/ user' = UserIdle
      BY <1>4, Zenon DEF PrepareQueues, UserReturn
    <3>2. ASSUME NEW t, NEW p, user' = [user EXCEPT !.pc = p, !.node = None, !.todo = t]
          PROVE  user'.node = None
      BY <1>0, <3>2 DEF Types, UserRec
    <3>3. ASSUME NEW p, user' = [user EXCEPT !.pc = p, !.node = None]
          PROVE  user'.node = None
      BY <1>0, <3>3 DEF Types, UserRec
    <3>4. user' = UserIdle => user'.node = None
      BY DEF UserIdle
    <3>5. user'.node = None
      BY <3>1, <3>2, <3>3, <3>4, Zenon
    <3> QED BY <1>0, <1>4, <3>5 DEF PrepareQueues, UserAt, Control, Types, UserRec
  <2>3. UNCHANGED <<cmd_free_q, curr_cmd, main>>
    BY <1>4 DEF PrepareQueues
  <2> DEFINE h == user.node
  <2>5. \A n \in Node : Stands(w, n)
    BY <2>1, PlacesFacts
  <2>6. /\ h \notin Range(cmd_pending_q) /\ h \notin Range(scan_pending_q)
        /\ h \notin Range(ext_cmd_pending_q)
    BY <2>2, <2>5 DEF Stands
  <2>7. /\ Queue(cmd_pending_q) /\ Queue(scan_pending_q) /\ Queue(ext_cmd_pending_q)
        /\ Queue(<<h>>) /\ Range(<<h>>) = {h}
    BY <2>1, <2>2, OneQueue DEF Places
  <2>8. \/ /\ scan_pending_q' = Append(scan_pending_q, h)
           /\ UNCHANGED <<cmd_pending_q, ext_cmd_pending_q>>
        \/ /\ cmd_pending_q' = <<h>> \o cmd_pending_q
           /\ UNCHANGED <<scan_pending_q, ext_cmd_pending_q>>
        \/ /\ ext_cmd_pending_q' = Append(ext_cmd_pending_q, h)
           /\ UNCHANGED <<cmd_pending_q, scan_pending_q>>
        \/ /\ cmd_pending_q' = Append(cmd_pending_q, h)
           /\ UNCHANGED <<scan_pending_q, ext_cmd_pending_q>>
    BY <1>4 DEF PrepareQueues, Enqueue, QueueCmd
  <2>9. PICK s \in {"scan", "pending", "deferred"} :
          /\ Queue(cmd_pending_q') /\ Queue(scan_pending_q') /\ Queue(ext_cmd_pending_q')
          /\ Range(cmd_pending_q') = Range(cmd_pending_q) \cup (IF s = "pending" THEN {h} ELSE {})
          /\ Range(scan_pending_q') = Range(scan_pending_q) \cup (IF s = "scan" THEN {h} ELSE {})
          /\ Range(ext_cmd_pending_q')
               = Range(ext_cmd_pending_q) \cup (IF s = "deferred" THEN {h} ELSE {})
    <3> HIDE DEF h
    <3>1. CASE /\ scan_pending_q' = Append(scan_pending_q, h)
               /\ UNCHANGED <<cmd_pending_q, ext_cmd_pending_q>>
      BY <2>2, <2>6, <2>7, <3>1, AppendQueue DEF h
    <3>2. CASE /\ cmd_pending_q' = <<h>> \o cmd_pending_q
               /\ UNCHANGED <<scan_pending_q, ext_cmd_pending_q>>
      BY <2>2, <2>6, <2>7, <3>2, ConcatQueue DEF h
    <3>3. CASE /\ ext_cmd_pending_q' = Append(ext_cmd_pending_q, h)
               /\ UNCHANGED <<cmd_pending_q, scan_pending_q>>
      BY <2>2, <2>6, <2>7, <3>3, AppendQueue DEF h
    <3>4. CASE /\ cmd_pending_q' = Append(cmd_pending_q, h)
               /\ UNCHANGED <<scan_pending_q, ext_cmd_pending_q>>
      BY <2>2, <2>6, <2>7, <3>4, AppendQueue DEF h
    <3> QED BY <2>8, <3>1, <3>2, <3>3, <3>4
  <2>10. PICK v \in [Node -> Spots] : \A n \in Node : v[n] = IF n = h THEN s ELSE w[n]
    <3>1. [w EXCEPT ![h] = s] \in [Node -> Spots]
      BY <2>1 DEF Places, Spots
    <3> QED BY <3>1
  <2>11. \A n \in Node : Stands(v, n)'
    BY <2>2, <2>3, <2>5, <2>9, <2>10 DEF Stands
  <2> QED BY <1>m, <2>1, <2>2, <2>3, <2>9, <2>11, PlacesFacts, PlacesNext
<1>5. CASE ScanStart
  <2>1. UNCHANGED <<cmd_free_q, ext_cmd_pending_q, curr_cmd, main>>
    BY <1>5 DEF ScanStart, queueVars
  <2>2. user'.node = user.node
    BY <1>0, <1>5 DEF ScanStart, UserReturn, UserAt, UserIdle, Control
  <2>3. CASE scan_pending_q = <<>>
    BY <1>5, <2>2, <2>3, PlacesSame DEF ScanStart
  <2>4. CASE scan_pending_q # <<>>
    BY <1>5, <2>1, <2>2, <2>4, PlacesNextScan DEF ScanStart
  <2> QED BY <2>3, <2>4
<1>6. CASE CancelScan
  <2> DEFINE N == {n \in Range(cmd_pending_q) : node[n].scan}
  <2>1. /\ cmd_free_q' = cmd_free_q \cup N /\ cmd_pending_q' = Without(cmd_pending_q, N)
        /\ UNCHANGED <<scan_pending_q, ext_cmd_pending_q, curr_cmd, main>>
    BY <1>6 DEF CancelScan, Free
  <2>2. user'.node = user.node
    BY <1>0, <1>6 DEF CancelScan, UserTo, Types, UserRec
  <2> QED BY <2>1, <2>2, PlacesUnlink
<1>7. CASE CancelBss
  <2> DEFINE N == {n \in Range(cmd_pending_q) :
                     \E i \in Some(node[n].ioctl) : Bss(i) = Bss(user.ioctl)}
  <2>1. /\ cmd_free_q' = cmd_free_q \cup N /\ cmd_pending_q' = Without(cmd_pending_q, N)
        /\ UNCHANGED <<scan_pending_q, ext_cmd_pending_q, curr_cmd, main>>
    BY <1>7 DEF CancelBss, Free
  <2>2. UserTo("stop") \/ UserTo("flush") \/ user' = UserIdle
    BY <1>7 DEF CancelBss
  <2>3. user'.node = user.node
    BY <1>0, <1>7, <2>2 DEF CancelBss, UserTo, Types, UserRec, UserAt, Control, UserIdle
  <2> QED BY <2>1, <2>3, PlacesUnlink
<1>8. CASE CancelFlush
  <2>1. /\ cmd_free_q' = cmd_free_q \cup Range(scan_pending_q) /\ scan_pending_q' = <<>>
        /\ UNCHANGED <<cmd_pending_q, ext_cmd_pending_q, curr_cmd, main>>
    BY <1>8 DEF CancelFlush, FlushScan, Free
  <2>2. user'.node = user.node
    BY <1>0, <1>8 DEF CancelFlush, UserAt, UserIdle, Control
  <2> QED BY <2>1, <2>2, PlacesFlushScan
<1> QED BY <1>1, <1>2, <1>3, <1>4, <1>5, <1>6, <1>7, <1>8 DEF UserStep

(* Free nodes stay clean.                                                   *)

\* Freeing nodes leaves the free nodes blank.
LEMMA BlankFree ==
  ASSUME Shape, NEW r, NEW N, N \subseteq Node, NEW nd, Free(N, r, nd),
         \A n \in cmd_free_q : nd[n] = node[n]
  PROVE  FreeBlank'
<1>1. /\ cmd_free_q' = cmd_free_q \cup N
      /\ \A n \in Node : node'[n] = IF n \in N THEN Blank ELSE nd[n]
  BY DEF Free
<1>2. cmd_free_q \subseteq Node /\ \A n \in cmd_free_q : node[n] = Blank
  BY ShapeFacts DEF Shape, FreeBlank
<1>3. ASSUME NEW n \in cmd_free_q' PROVE node'[n] = Blank
  BY <1>1, <1>2, <1>3
<1> QED BY <1>3 DEF FreeBlank

\* Taking requests off nodes leaves the free nodes blank.
LEMMA DetachBlank ==
  ASSUME Shape, NEW N
  PROVE  \A n \in cmd_free_q : Detach(node, N)[n] = node[n]
<1>1. [Blank EXCEPT !.ioctl = None] = Blank
  <2>1. \A b \in NodeRec : b.ioctl = None => [b EXCEPT !.ioctl = None] = b
    BY DEF NodeRec
  <2>2. Blank.ioctl = None
    BY DEF Blank
  <2> QED BY <2>1, <2>2, BlankOK
<1>2. cmd_free_q \subseteq Node /\ \A n \in cmd_free_q : node[n] = Blank
  BY ShapeFacts DEF Shape, FreeBlank
<1>3. ASSUME NEW n \in cmd_free_q PROVE Detach(node, N)[n] = node[n]
  BY <1>1, <1>2, <1>3 DEF Detach
<1> QED BY <1>3

\* The nodes in use are not free.
LEMMA NotFree ==
  ASSUME Shape
  PROVE  /\ curr_cmd \notin cmd_free_q /\ main.node \notin cmd_free_q
         /\ user.node \notin cmd_free_q
         /\ Range(cmd_pending_q) \cap cmd_free_q = {}
         /\ Range(scan_pending_q) \cap cmd_free_q = {}
         /\ Range(ext_cmd_pending_q) \cap cmd_free_q = {}
<1>1. PICK w : Places(w)
  BY DEF Shape
<1> QED BY <1>1, PlacesFacts DEF Stands

\* Every step leaves the free nodes blank.
LEMMA FreeBlankStep ==
  ASSUME Shape, [Next]_vars
  PROVE  FreeBlank'
<1>0. Types /\ FreeBlank
  BY DEF Shape
<1>m. ASSUME NEW C, C \subseteq Some(curr_cmd)
      PROVE  \A n \in cmd_free_q : MarkCanceled(node, C)[n] = node[n]
  BY <1>m, NotFree, ShapeFacts DEF MarkCanceled, Some
<1>u. ASSUME UNCHANGED <<cmd_free_q, node>> PROVE FreeBlank'
  BY <1>0, <1>u DEF FreeBlank
<1>c. ASSUME cmd_free_q' = cmd_free_q, \A n \in cmd_free_q : node'[n] = node[n] PROVE FreeBlank'
  BY <1>0, <1>c DEF FreeBlank
<1>n. /\ Range(cmd_pending_q) \subseteq Node /\ Range(scan_pending_q) \subseteq Node
      /\ Range(ext_cmd_pending_q) \subseteq Node
      /\ main.pc \in BeforeResp \cup AfterResp => {curr_cmd} \subseteq Node
      /\ user.pc = "queue" => {user.node} \subseteq Node
  BY <1>0, NoneApart, ShapeFacts DEF Shape, Control, Types, UserRec
<1>1. CASE UserStep
  <2>1. CASE (\E i \in Ioctl : Enter(i)) \/ NoCmdNode \/ StopDecide
    BY <1>u, <2>1 DEF Enter, NoCmdNode, StopDecide, queueVars
  <2>2. CASE GetCmdNode
    <3>1. PICK h \in cmd_free_q : /\ cmd_free_q' = cmd_free_q \ {h}
                                  /\ \A n \in Node \ {h} : node'[n] = node[n]
      BY <1>0, <2>2 DEF GetCmdNode, Types
    <3> QED BY <1>0, <3>1, ShapeFacts DEF FreeBlank
  <2>3. CASE PrepareFails
    BY <1>n, <2>3, DetachBlank, BlankFree DEF PrepareFails, Unbuilt, UserAt
  <2>4. CASE PrepareQueues
    <3>1. cmd_free_q' = cmd_free_q /\ \A n \in Node \ {user.node} : node'[n] = node[n]
      BY <1>0, <2>4 DEF PrepareQueues, Enqueue, Types
    <3> QED BY <1>c, <3>1, NotFree, ShapeFacts
  <2>5. CASE ScanStart
    BY <1>u, <2>5 DEF ScanStart, queueVars
  <2>6. CASE CancelScan
    <3> DEFINE C == {n \in Some(curr_cmd) : \E i \in Some(node[n].ioctl) : IsScanReq(i)}
    <3>1. C \subseteq Some(curr_cmd)
      OBVIOUS
    <3>2. {n \in Range(cmd_pending_q) : node[n].scan} \subseteq Node
      BY <1>n
    <3>3. \E r : Free({n \in Range(cmd_pending_q) : node[n].scan}, r, MarkCanceled(node, C))
      BY <2>6 DEF CancelScan
    <3> HIDE DEF C
    <3> QED BY <1>m, <3>1, <3>2, <3>3, BlankFree
  <2>7. CASE CancelBss
    <3> DEFINE Mine(i) == Bss(i) = Bss(user.ioctl)
               C == {n \in Some(curr_cmd) : \E i \in Some(node[n].ioctl) : Mine(i)}
               N == {n \in Range(cmd_pending_q) : \E i \in Some(node[n].ioctl) : Mine(i)}
               nd == Detach(MarkCanceled(node, C), N)
    <3>1. \E r : Free(N, r, nd)
      BY <2>7 DEF CancelBss
    <3>2. ASSUME NEW n \in cmd_free_q PROVE nd[n] = node[n]
      <4>1. MarkCanceled(node, C)[n] = node[n] /\ n \in Node /\ n \notin N
        BY <1>m, NotFree, ShapeFacts
      <4> HIDE DEF N, C
      <4> QED BY <4>1 DEF Detach
    <3>3. N \subseteq Node
      BY <1>n
    <3> HIDE DEF N, nd
    <3> QED BY <3>1, <3>2, <3>3, BlankFree
  <2>8. CASE CancelFlush
    BY <1>n, <2>8, BlankFree DEF CancelFlush, FlushScan
  <2> QED BY <1>1, <2>1, <2>2, <2>3, <2>4, <2>5, <2>6, <2>7, <2>8 DEF UserStep
<1>2. CASE DnldStep
  <2>1. CASE ExecNextCmd \/ DnldCurrent \/ DnldSent \/ NoRespDone \/ DnldArm
    BY <1>u, <2>1 DEF ExecNextCmd, DnldCurrent, DnldSent, NoRespDone, DnldArm, queueVars
  <2>2. CASE DnldFails \/ NoRespFree
    BY <1>n, <2>2, BlankFree DEF DnldFails, NoRespFree, MainAt, BeforeResp
  <2> QED BY <1>2, <2>1, <2>2 DEF DnldStep
<1>3. CASE FwRespond \/ DownloadDone \/ TimerStep \/ EventStep
  BY <1>u, <1>3 DEF FwRespond, DownloadDone, TimerStep, TimerExpires, TimerReports, EventStep,
     ScanReport, ScanStatus, StatusStopsTimer, ScanCompletes, MoveDeferred, queueVars
<1>4. CASE RxCmdResp
  <2>1. cmd_free_q' = cmd_free_q /\ \A n \in Node \ {curr_cmd} : node'[n] = node[n]
    BY <1>0, <1>4 DEF RxCmdResp, Types, queueVars
  <2> QED BY <1>c, <2>1, NotFree, ShapeFacts
<1>5. CASE RespStep
  <2>1. CASE RespTaken \/ ErrorScanDone \/ HandleOk \/ StopCompletes
    BY <1>u, <2>1 DEF RespTaken, ErrorScanDone, HandleOk, StopCompletes, queueVars
  <2>2. CASE RespCanceled
    BY <1>n, <1>u, <2>2, BlankFree DEF RespCanceled, MainAt, AfterResp
  <2>3. CASE HandleInvalid \/ ErrorFree \/ RespTail
    BY <1>n, <2>3, BlankFree DEF HandleInvalid, ErrorFree, RespTail, Handling, MainAt, AfterResp
  <2>4. CASE HandlePreAsleep
    <3>1. cmd_free_q' = cmd_free_q /\ \A n \in Node \ {curr_cmd} : node'[n] = node[n]
      BY <1>0, <2>4 DEF HandlePreAsleep, Types
    <3> QED BY <1>c, <3>1, NotFree, ShapeFacts
  <2>5. CASE HandleError
    BY <1>n, <1>u, <2>5, BlankFree DEF HandleError, FlushScan
  <2> QED BY <1>5, <2>1, <2>2, <2>3, <2>4, <2>5 DEF RespStep
<1>6. CASE HangStep
  <2>1. CASE HangCancel
    <3> DEFINE S == Range(cmd_pending_q) \cup Some(curr_cmd)
    <3>1. \E r : Free(Range(cmd_pending_q), r, Detach(node, S))
      BY <2>1 DEF HangCancel, flag
    <3> HIDE DEF S
    <3> QED BY <1>n, <3>1, DetachBlank, BlankFree
  <2>2. CASE HangFlushScan
    BY <1>n, <2>2, BlankFree DEF HangFlushScan, FlushScan
  <2>3. CASE HangFlushExt
    BY <1>n, <2>3, DetachBlank, BlankFree DEF HangFlushExt, Deferred
  <2> QED BY <1>6, <2>1, <2>2, <2>3 DEF HangStep
<1>7. CASE (\E i \in Ioctl : Request(i)) \/ UNCHANGED vars
  BY <1>u, <1>7 DEF Request, vars, queueVars
<1> QED BY <1>1, <1>2, <1>3, <1>4, <1>5, <1>6, <1>7 DEF Next, MainStep

-----------------------------------------------------------------------------
(* Control: where each context is.                                         *)

\* The control states of the main loop and of the current command.
LEMMA ControlStep ==
  ASSUME Shape, [Next]_vars, Types'
  PROVE  Control'
<1> USE NoneApart
<1>0. Types /\ Control /\ UserKnown
  BY DEF Shape
<1>m. main \in MainRec /\ user \in UserRec /\ curr_cmd \in Node \cup {None}
  BY <1>0 DEF Types
<1> DEFINE MainPart == /\ main.node # None <=> main.pc = "dnld"
                       /\ main.pc = "dnld" => curr_cmd = None
                       /\ main.pc \in BeforeResp \cup AfterResp => curr_cmd # None
                       /\ cmd_resp_received => main.pc = "idle" /\ curr_cmd # None
           UserPart == /\ user.node # None <=> user.pc = "queue"
                       /\ user.ioctl = None <=> user.pc = "idle"
<1>p. MainPart /\ UserPart
  BY <1>0 DEF Control
<1>a. ASSUME UNCHANGED <<main, curr_cmd, cmd_resp_received>> PROVE MainPart'
  BY <1>p, <1>a
<1>b. ASSUME user' = user PROVE UserPart'
  BY <1>p, <1>b
<1>c. ASSUME NEW p \in {"idle"} \cup BeforeResp \cup AfterResp \cup EventPC,
             main' = [main EXCEPT !.pc = p], main.pc # "dnld",
             p \in BeforeResp \cup AfterResp => curr_cmd # None,
             UNCHANGED <<curr_cmd, cmd_resp_received>>, ~cmd_resp_received
      PROVE  MainPart'
  BY <1>m, <1>p, <1>c DEF MainRec, BeforeResp, AfterResp, EventPC
<1>d. ASSUME main' = MainIdle, ~cmd_resp_received' PROVE MainPart'
  BY <1>d DEF MainIdle, BeforeResp, AfterResp
<1>1. CASE UserStep
  <2>1. UNCHANGED <<main, curr_cmd, cmd_resp_received>>
    BY <1>1 DEF UserStep, Enter, GetCmdNode, NoCmdNode, PrepareFails, PrepareQueues, ScanStart,
       CancelScan, CancelBss, StopDecide, CancelFlush, linkVars
  <2>2. UserPart'
    <3>1. ASSUME NEW i \in Ioctl, Enter(i) PROVE UserPart'
      <4>1. CASE ScanBusy(i)
        BY <1>b, <3>1, <4>1 DEF Enter
      <4>2. CASE ~ScanBusy(i)
        BY <3>1, <4>2 DEF Enter
      <4> QED BY <4>1, <4>2
    <3>a. ASSUME user' = UserIdle PROVE UserPart'
      BY <3>a DEF UserIdle
    <3>b. ASSUME NEW p \in {"flush", "stop", "get"}, user' = [user EXCEPT !.pc = p],
                 user.pc # "idle", user.pc # "queue"
          PROVE  UserPart'
      BY <1>m, <1>p, <3>b DEF UserRec
    <3>2. CASE GetCmdNode
      <4>1. PICK n \in cmd_free_q : user' = [user EXCEPT !.pc = "queue", !.node = n]
        BY <3>2 DEF GetCmdNode
      <4>2. n \in Node /\ user.pc = "get"
        BY <3>2, ShapeFacts DEF GetCmdNode, UserAt
      <4> QED BY <1>m, <1>p, <4>1, <4>2 DEF UserRec
    <3>3. CASE NoCmdNode
      BY <3>3, <3>a, <3>b DEF NoCmdNode, UserAt, UserTo, UserReturn
    <3>4. CASE PrepareFails \/ ScanStart \/ CancelFlush
      BY <3>4, <3>a DEF PrepareFails, ScanStart, UserReturn, CancelFlush
    <3>5. CASE PrepareQueues
      <4>1. user.pc = "queue"
        BY <3>5 DEF PrepareQueues, UserAt
      <4>2. CASE \E t \in {0} \cup {user.todo - 1} :
                   user' = [user EXCEPT !.pc = IF t = 0 THEN "start" ELSE "get",
                                        !.node = None, !.todo = t]
        BY <1>m, <1>p, <4>1, <4>2 DEF UserRec
      <4>3. CASE user' = [user EXCEPT !.pc = "flush", !.node = None]
        BY <1>m, <1>p, <4>1, <4>3 DEF UserRec
      <4>4. CASE user' = UserIdle
        BY <3>a, <4>4
      <4> QED BY <3>5, <4>2, <4>3, <4>4, Zenon DEF PrepareQueues, UserReturn
    <3>6. CASE CancelScan
      BY <3>6, <3>b DEF CancelScan, UserAt, UserTo
    <3>7. CASE CancelBss
      <4>1. /\ UserTo("stop") \/ UserTo("flush") \/ user' = UserIdle
            /\ user.pc = "bssrm"
        BY <3>7 DEF CancelBss, UserAt
      <4> QED BY <3>a, <3>b, <4>1 DEF UserTo
    <3>8. CASE StopDecide
      BY <3>8, <3>b DEF StopDecide, UserAt, UserTo
    <3> QED BY <1>1, <3>1, <3>2, <3>3, <3>4, <3>5, <3>6, <3>7, <3>8 DEF UserStep
  <2> QED BY <1>a, <2>1, <2>2 DEF Control
<1>2. CASE DnldStep
  <2>1. user' = user
    BY <1>2 DEF DnldStep, ExecNextCmd, DnldCurrent, DnldSent, DnldFails, NoRespDone, NoRespFree, DnldArm
  <2>2. cmd_resp_received' = cmd_resp_received /\ ~cmd_resp_received
    BY <1>2, <1>p DEF DnldStep, ExecNextCmd, DnldCurrent, DnldSent, DnldFails, NoRespDone, NoRespFree,
       DnldArm, linkVars, MainAt
  <2>3. CASE ExecNextCmd
    <3>1. Head(cmd_pending_q) \in Node
      BY <2>3, ShapeFacts DEF ExecNextCmd
    <3> QED BY <1>b, <2>1, <2>2, <2>3, <3>1 DEF ExecNextCmd, MayExec, MainIdle, Control, BeforeResp, AfterResp
  <2>4. CASE DnldCurrent
    <3>1. main.node # None
      BY <1>p, <2>4 DEF DnldCurrent, MainAt
    <3> QED BY <1>b, <2>1, <2>2, <2>4, <3>1 DEF DnldCurrent, MainIdle, Control, BeforeResp, AfterResp
  <2>5. CASE DnldFails \/ NoRespFree \/ DnldArm
    BY <1>b, <1>d, <2>1, <2>2, <2>5 DEF DnldFails, NoRespFree, DnldArm, Control
  <2>6. CASE DnldSent \/ NoRespDone
    BY <1>b, <1>c, <1>p, <2>1, <2>2, <2>6 DEF DnldSent, NoRespDone, MainTo, MainAt, Control, BeforeResp, AfterResp
  <2> QED BY <1>2, <2>3, <2>4, <2>5, <2>6 DEF DnldStep
<1>3. CASE FwRespond \/ DownloadDone \/ TimerStep \/ HangStep \/ (\E i \in Ioctl : Request(i))
           \/ UNCHANGED vars
  <2>1. UNCHANGED <<main, curr_cmd, cmd_resp_received, user>>
    BY <1>3 DEF FwRespond, DownloadDone, TimerStep, TimerExpires, TimerReports, HangStep,
       HangCancel, flag, HangFlushScan, HangFlushExt, Request, vars, linkVars
  <2> QED BY <1>a, <1>b, <2>1 DEF Control
<1>4. CASE RxCmdResp
  BY <1>p, <1>4 DEF RxCmdResp, MainAt, Control, BeforeResp, AfterResp
<1>5. CASE RespStep
  <2>1. user' = user
    BY <1>5 DEF RespStep, RespTaken, RespCanceled, HandleInvalid, HandlePreAsleep, HandleError,
       ErrorScanDone, ErrorFree, HandleOk, StopCompletes, RespTail
  <2>2. CASE RespTaken
    <3>1. cmd_resp_received' = FALSE /\ curr_cmd' = curr_cmd /\ curr_cmd # None /\ main.pc = "idle"
      BY <1>p, <2>2 DEF RespTaken, MainAt
    <3>2. main' = main \/ main' = [MainIdle EXCEPT !.pc = "resp", !.ioctl = node[curr_cmd].ioctl]
      BY <2>2 DEF RespTaken
    <3> QED BY <1>b, <1>p, <2>1, <3>1, <3>2 DEF MainIdle, Control, BeforeResp, AfterResp
  <2>3. CASE ~RespTaken
    <3>1. main.pc \in AfterResp /\ ~cmd_resp_received /\ cmd_resp_received' = cmd_resp_received
          /\ curr_cmd # None
      BY <1>5, <1>p, <2>3 DEF RespStep, RespCanceled, HandleInvalid, HandlePreAsleep, HandleError,
         ErrorScanDone, ErrorFree, HandleOk, StopCompletes, RespTail, linkVars, Handling, MainAt, AfterResp
    <3>2. \/ main' = MainIdle
          \/ curr_cmd' = curr_cmd /\ \E p \in AfterResp : main' = [main EXCEPT !.pc = p]
      BY <1>5, <2>3 DEF RespStep, RespCanceled, HandleInvalid, HandlePreAsleep, HandleError,
         ErrorScanDone, ErrorFree, HandleOk, StopCompletes, RespTail, MainTo, AfterResp
    <3>3. CASE main' = MainIdle
      BY <1>b, <1>d, <2>1, <3>1, <3>3 DEF Control
    <3>4. CASE curr_cmd' = curr_cmd /\ \E p \in AfterResp : main' = [main EXCEPT !.pc = p]
      BY <1>b, <1>c, <2>1, <3>1, <3>4 DEF Control, AfterResp
    <3> QED BY <3>2, <3>3, <3>4
  <2> QED BY <2>2, <2>3
<1>6. CASE EventStep
  <2>1. user' = user /\ curr_cmd' = curr_cmd /\ cmd_resp_received' = cmd_resp_received
        /\ ~cmd_resp_received /\ main.pc # "dnld"
    BY <1>6, <1>p DEF EventStep, ScanReport, ScanStatus, StatusStopsTimer, ScanCompletes, MoveDeferred,
       EventAt, MainAt, linkVars
  <2>2. \/ main' = MainIdle \/ main' = main
        \/ \E p \in {"idle"} \cup EventPC : main' = [main EXCEPT !.pc = p]
    BY <1>6 DEF EventStep, ScanReport, ScanStatus, StatusStopsTimer, ScanCompletes, MoveDeferred,
       MainTo, EventPC
  <2>3. CASE main' = MainIdle \/ main' = main
    BY <1>a, <1>b, <1>d, <2>1, <2>3 DEF Control
  <2>4. CASE \E p \in {"idle"} \cup EventPC : main' = [main EXCEPT !.pc = p]
    BY <1>b, <1>c, <2>1, <2>4 DEF Control, EventPC, BeforeResp, AfterResp
  <2> QED BY <2>2, <2>3, <2>4
<1> QED BY <1>1, <1>2, <1>3, <1>4, <1>5, <1>6 DEF Next, MainStep

-----------------------------------------------------------------------------
(* The calls of requests.                                                  *)

\* A request changes its state only while the user handles it.
LEMMA UserCall ==
  ASSUME Shape, UserStep
  PROVE  \A i \in Ioctl :
           /\ req'[i].kind = req[i].kind
           /\ \/ req'[i].st = req[i].st
              \/ req[i].st = "admitted" /\ user.pc = "idle"
              \/ user.pc # "idle" /\ i = user.ioctl
<1> USE NoneApart
<1>0. Types /\ Control /\ UserKnown
  BY DEF Shape
<1>m. req \in [Ioctl -> Req] /\ node \in [Node -> NodeRec]
  BY <1>0 DEF Types
<1>u. user.pc # "idle" => user.ioctl \in Ioctl
  BY <1>0, UserFacts
<1> DEFINE Goal == \A i \in Ioctl :
                     /\ req'[i].kind = req[i].kind
                     /\ \/ req'[i].st = req[i].st
                        \/ req[i].st = "admitted" /\ user.pc = "idle"
                        \/ user.pc # "idle" /\ i = user.ioctl
<1>s. ASSUME NEW s \in {"pending", "returned"}, user.pc # "idle",
             req' = Status(req, user.ioctl, s)
      PROVE  Goal
  BY <1>m, <1>u, <1>s, StatusOK DEF SameWork
<1>f. ASSUME NEW N, NEW nd \in [Node -> NodeRec], NEW r \in [Ioctl -> Req],
             NEW s \in {"pending", "returned"}, user.pc # "idle", SameCall(req, r),
             Free(N, Status(r, user.ioctl, s), nd)
      PROVE  Goal
  <2>1. Status(r, user.ioctl, s) \in [Ioctl -> Req]
    BY <1>u, <1>f, StatusOK
  <2>2. SameCall(Status(r, user.ioctl, s), req')
    BY <1>f, <2>1, FreeOK
  <2>3. /\ \A j \in Ioctl \ {user.ioctl} : Status(r, user.ioctl, s)[j] = r[j]
        /\ \A j \in Ioctl : Status(r, user.ioctl, s)[j].kind = r[j].kind
    BY <1>u, <1>f, StatusOK DEF SameWork
  <2> QED BY <1>f, <2>2, <2>3 DEF SameCall
<1>g. ASSUME SameCall(req, req') PROVE Goal
  BY <1>g DEF SameCall
<1>h. ASSUME NEW N, NEW nd \in [Node -> NodeRec], NEW r \in [Ioctl -> Req],
             SameCall(req, r), Free(N, r, nd)
      PROVE  SameCall(req, req')
  BY <1>h, FreeOK, SameCallTrans
<1>1. ASSUME NEW i \in Ioctl, Enter(i) PROVE Goal
  <2>1. /\ req[i].st = "admitted" /\ user.pc = "idle"
        /\ req' = Status(req, i, "returned") \/ req' = Status(req, i, "running")
    BY <1>1 DEF Enter, UserAt
  <2>2. req' \in [Ioctl -> Req] /\ SameWork(req, req') /\ \A j \in Ioctl \ {i} : req'[j] = req[j]
    BY <1>m, <2>1, StatusOK
  <2> QED BY <2>1, <2>2 DEF SameWork
<1>2. CASE GetCmdNode \/ StopDecide
  BY <1>2, <1>g, SameCallRefl DEF GetCmdNode, StopDecide
<1>3. CASE NoCmdNode
  BY <1>3, <1>s, <1>g, SameCallRefl DEF NoCmdNode, UserReturn, UserAt
<1>4. CASE PrepareFails
  <2>1. Unbuilt(user.node) \in [Node -> NodeRec]
    BY <1>m, DetachOK DEF Unbuilt
  <2> QED BY <1>m, <1>4, <1>f, <2>1, SameCallRefl DEF PrepareFails, UserAt
<1>5. CASE PrepareQueues
  <2>1. user.pc # "idle"
    BY <1>5 DEF PrepareQueues, UserAt
  <2>2. req' = req \/ req' = Status(req, user.ioctl, "pending")
    BY <1>5, Zenon DEF PrepareQueues, UserReturn
  <2> QED BY <1>s, <1>g, <2>1, <2>2, SameCallRefl
<1>6. CASE ScanStart
  BY <1>6, <1>s DEF ScanStart, UserReturn, UserAt
<1>7. CASE CancelScan
  <2>1. PICK C, N, S : Free(N, CancelAll(req, S), MarkCanceled(node, C))
    BY <1>7 DEF CancelScan
  <2> QED BY <1>m, <1>g, <1>h, <2>1, MarkCanceledOK, CancelAllOK
<1>8. CASE CancelBss
  <2>1. PICK C, N, S : \/ Free(N, CancelAll(req, S), Detach(MarkCanceled(node, C), N))
                       \/ Free(N, Status(CancelAll(req, S), user.ioctl, "returned"),
                               Detach(MarkCanceled(node, C), N))
    <3> DEFINE Mine(i) == Bss(i) = Bss(user.ioctl)
               P == {i \in Some(pscan_ioctl_req) : Mine(i)}
               C == {n \in Some(curr_cmd) : \E i \in Some(node[n].ioctl) : Mine(i)}
               N == {n \in Range(cmd_pending_q) : \E i \in Some(node[n].ioctl) : Mine(i)}
               R == IoctlsOf(C \cup N)
               flash_scan == P # {} \/ \E i \in R : IsScanReq(i)
               r == CancelAll(req, P \cup R)
    <3>1. Free(N, IF flash_scan THEN r ELSE Status(r, user.ioctl, "returned"),
               Detach(MarkCanceled(node, C), N))
      BY <1>8 DEF CancelBss
    <3> HIDE DEF flash_scan, P, R, N, C
    <3> QED BY <3>1
  <2>2. /\ Detach(MarkCanceled(node, C), N) \in [Node -> NodeRec]
        /\ CancelAll(req, S) \in [Ioctl -> Req] /\ SameCall(req, CancelAll(req, S))
        /\ user.pc # "idle"
    BY <1>m, <1>8, MarkCanceledOK, DetachOK, CancelAllOK DEF CancelBss, UserAt
  <2> QED BY <1>f, <1>g, <1>h, <2>1, <2>2
<1>9. CASE CancelFlush
  BY <1>m, <1>9, <1>f, <1>g, <1>h, SameCallRefl DEF CancelFlush, FlushScan, UserAt
<1> HIDE DEF Goal
<1>e. CASE \E i \in Ioctl : Enter(i)
  BY <1>1, <1>e DEF Goal
<1> QED BY <1>e, <1>2, <1>3, <1>4, <1>5, <1>6, <1>7, <1>8, <1>9 DEF UserStep

\* What the user knows of its request, and that unused requests stay unused.
LEMMA KnownStep ==
  ASSUME Shape, [Next]_vars, Types'
  PROVE  UserKnown' /\ Used'
<1> USE NoneApart
<1>0. Types /\ Control /\ UserKnown /\ Used
  BY DEF Shape
<1>m. user \in UserRec /\ req \in [Ioctl -> Req] /\ req' \in [Ioctl -> Req]
  BY <1>0 DEF Types
<1>u. user.pc # "idle" => user.ioctl \in Ioctl
  BY <1>0, UserFacts
<1>a. ASSUME user' = user, SameCall(req, req') PROVE UserKnown' /\ Used'
  BY <1>0, <1>a, <1>u DEF UserKnown, Used, SameCall, Kind, IsScan
<1>i. ASSUME user' = UserIdle PROVE UserKnown'
  BY <1>i DEF UserKnown, UserIdle
<1>1. CASE UserStep
  <2>1. /\ \A i \in Ioctl : req'[i].kind = req[i].kind
        /\ Used'
    BY <1>0, <1>1, <1>u, UserCall DEF Used, UserKnown, Kind
  <2>2. ASSUME NEW i \in Ioctl, Enter(i) PROVE UserKnown'
    <3>1. CASE ScanBusy(i)
      <4>1. user' = user /\ user.pc = "idle"
        BY <2>2, <3>1 DEF Enter, UserAt
      <4> QED BY <4>1 DEF UserKnown
    <3>2. CASE ~ScanBusy(i)
      <4>1. user'.ioctl = i /\ user'.pc = (IF Kind(i) \in {"cancel", "bssrm"} THEN Kind(i) ELSE "get")
            /\ user'.todo = (IF IsScan(i) THEN ScanCmds(i) ELSE 0)
        BY <2>2, <3>2 DEF Enter
      <4>2. req'[i].st = "running"
        BY <1>m, <2>2, <3>2, StatusOK DEF Enter
      <4>3. Kind(i)' = Kind(i) /\ req[i].cmds \in Nat \ {0}
            /\ Kind(i) # "unused"
        BY <1>0, <1>m, <2>1, <2>2, <4>2 DEF Req, Kind, Used, Enter
      <4> QED BY <2>1, <4>1, <4>2, <4>3 DEF UserKnown, IsScan, ScanCmds, Kind, ScanKinds
    <3> QED BY <3>1, <3>2
  <2>3. ASSUME UNCHANGED req, user'.ioctl = user.ioctl, user'.todo = user.todo, user.pc # "idle",
               \/ user'.pc = "queue" /\ user.pc = "get"
               \/ user'.pc = "flush" /\ user.pc = "get" /\ CmdOf(user.ioctl) = "stop"
               \/ user'.pc \in {"get", "flush"} /\ user.pc = "stop"
        PROVE  UserKnown'
    <3>1. req[user.ioctl].st # "new"
      BY <1>0, <2>3 DEF UserKnown
    <3>2. CmdOf(user.ioctl) = "stop" => Kind(user.ioctl) \in {"cancel", "bssrm"}
      <4>1. Kind(user.ioctl) \in Kinds
        BY <1>0, <2>3, UserFacts
      <4> QED BY <4>1 DEF CmdOf, Kinds, ScanKinds, IsScan
    <3>3. Kind(user.ioctl) # "unused"
      BY <1>0, <1>u, <2>3, <3>1 DEF Used
    <3> QED BY <1>0, <2>3, <3>1, <3>2, <3>3 DEF UserKnown, Kind, IsScan, ScanKinds
  <2>4. CASE GetCmdNode
    <3>1. user'.pc = "queue" /\ user.pc = "get" /\ user'.ioctl = user.ioctl /\ user'.todo = user.todo
      BY <1>m, <2>4 DEF GetCmdNode, UserAt, UserRec
    <3> QED BY <2>1, <2>3, <2>4, <3>1 DEF GetCmdNode
  <2>5. CASE NoCmdNode
    <3>1. CASE CmdOf(user.ioctl) = "stop"
      <4>1. user'.pc = "flush" /\ user.pc = "get" /\ user'.ioctl = user.ioctl /\ user'.todo = user.todo
        BY <1>m, <2>5, <3>1 DEF NoCmdNode, UserAt, UserTo, UserRec
      <4> QED BY <2>1, <2>3, <2>5, <3>1, <4>1 DEF NoCmdNode
    <3>2. CASE CmdOf(user.ioctl) # "stop"
      BY <1>i, <2>1, <2>5, <3>2 DEF NoCmdNode, UserReturn
    <3> QED BY <3>1, <3>2
  <2>6. CASE PrepareFails \/ ScanStart \/ CancelFlush
    BY <1>i, <2>1, <2>6 DEF PrepareFails, ScanStart, CancelFlush, UserReturn
  <2>7. CASE PrepareQueues
    <3>1. user.pc = "queue" /\ user.ioctl \in Ioctl /\ req[user.ioctl].st = "running"
          /\ user.todo \in 0 .. MaxScanCmds
      BY <1>0, <1>m, <1>u, <2>7 DEF PrepareQueues, UserAt, UserKnown, UserRec
    <3>2. CASE IsScan(user.ioctl)
      <4>1. PICK t \in {0} \cup {user.todo - 1} :
               /\ user' = [user EXCEPT !.pc = IF t = 0 THEN "start" ELSE "get",
                                       !.node = None, !.todo = t]
               /\ UNCHANGED req
        BY <2>7, <3>2 DEF PrepareQueues, IsScan, ScanKinds
      <4>2. /\ user'.ioctl = user.ioctl /\ user'.todo = t
            /\ user'.pc = IF t = 0 THEN "start" ELSE "get"
        BY <1>m, <4>1 DEF UserRec
      <4>3. user.todo >= 1 /\ Kind(user.ioctl) # "unused"
        BY <1>0, <3>1, <3>2 DEF UserKnown
      <4>4. t # 0 => t >= 1
        BY <3>1, <4>1, <4>3
      <4> QED BY <2>1, <3>1, <3>2, <4>1, <4>2, <4>3, <4>4 DEF UserKnown, Kind, IsScan
    <3>3. CASE Kind(user.ioctl) \in {"cancel", "bssrm"}
      <4>1. /\ user' = [user EXCEPT !.pc = "flush", !.node = None]
            /\ req' = IF Kind(user.ioctl) = "cancel"
                      THEN Status(req, user.ioctl, "pending") ELSE req
        BY <2>7, <3>3, Zenon DEF PrepareQueues, IsScan, ScanKinds
      <4>2. user'.ioctl = user.ioctl /\ user'.pc = "flush"
        BY <1>m, <4>1 DEF UserRec
      <4>3. req'[user.ioctl].st = (IF Kind(user.ioctl) = "cancel" THEN "pending" ELSE "running")
        BY <1>m, <3>1, <4>1, StatusOK
      <4> QED BY <2>1, <3>1, <3>3, <4>2, <4>3 DEF UserKnown, Kind
    <3>4. CASE ~IsScan(user.ioctl) /\ Kind(user.ioctl) \notin {"cancel", "bssrm"}
      BY <1>i, <2>1, <2>7, <3>4 DEF PrepareQueues, UserReturn
    <3> QED BY <3>2, <3>3, <3>4
  <2>8. CASE CancelScan \/ CancelBss
    <3>1. \/ user' = UserIdle
          \/ /\ \E p \in {"stop", "flush"} : user' = [user EXCEPT !.pc = p]
             /\ \E C, N, S, nd : Free(N, CancelAll(req, S), nd) /\ nd \in [Node -> NodeRec]
      <4>1. node \in [Node -> NodeRec]
        BY <1>0 DEF Types
      <4>2. CASE CancelScan
        <5>1. PICK C, N, S : Free(N, CancelAll(req, S), MarkCanceled(node, C))
          BY <4>2 DEF CancelScan
        <5>2. MarkCanceled(node, C) \in [Node -> NodeRec]
          BY <4>1, MarkCanceledOK
        <5>3. \E p \in {"stop", "flush"} : user' = [user EXCEPT !.pc = p]
          BY <4>2 DEF CancelScan, UserTo
        <5> QED BY <5>1, <5>2, <5>3
      <4>3. CASE CancelBss
        <5> DEFINE Mine(i) == Bss(i) = Bss(user.ioctl)
                   P == {i \in Some(pscan_ioctl_req) : Mine(i)}
                   C == {n \in Some(curr_cmd) : \E i \in Some(node[n].ioctl) : Mine(i)}
                   N == {n \in Range(cmd_pending_q) : \E i \in Some(node[n].ioctl) : Mine(i)}
                   R == IoctlsOf(C \cup N)
                   flash_scan == P # {} \/ \E i \in R : IsScanReq(i)
                   r == CancelAll(req, P \cup R)
                   nd == Detach(MarkCanceled(node, C), N)
        <5>1. nd \in [Node -> NodeRec]
          BY <4>1, DetachOK, MarkCanceledOK
        <5>2. /\ Free(N, IF flash_scan THEN r ELSE Status(r, user.ioctl, "returned"), nd)
              /\ IF flash_scan THEN UserTo(IF P # {} THEN "stop" ELSE "flush")
                               ELSE user' = UserIdle
          BY <4>3 DEF CancelBss
        <5> HIDE DEF flash_scan, P, R, N, C, nd
        <5> QED BY <5>1, <5>2 DEF UserTo
      <4> QED BY <2>8, <4>2, <4>3
    <3>2. CASE user' = UserIdle
      BY <1>i, <2>1, <3>2
    <3>3. CASE /\ \E p \in {"stop", "flush"} : user' = [user EXCEPT !.pc = p]
               /\ \E C, N, S, nd : Free(N, CancelAll(req, S), nd) /\ nd \in [Node -> NodeRec]
      <4>1. user'.pc \in {"stop", "flush"} /\ user'.ioctl = user.ioctl
        BY <1>m, <3>3 DEF UserRec
      <4>2. SameCall(req, req')
        BY <1>m, <3>3, FreeOK, CancelAllOK, SameCallTrans
      <4>3. user.pc \in {"cancel", "bssrm"} /\ user.ioctl \in Ioctl
        BY <1>u, <2>8 DEF CancelScan, CancelBss, UserAt
      <4>4. req[user.ioctl].st = "running" /\ Kind(user.ioctl) = user.pc
        BY <1>0, <4>3 DEF UserKnown
      <4> QED BY <2>1, <4>1, <4>2, <4>3, <4>4 DEF UserKnown, SameCall, Kind
    <3> QED BY <3>1, <3>2, <3>3
  <2>9. CASE StopDecide
    <3>1. user'.pc \in {"get", "flush"} /\ user.pc = "stop" /\ user'.ioctl = user.ioctl
          /\ user'.todo = user.todo /\ UNCHANGED req
      BY <1>m, <2>9 DEF StopDecide, UserAt, UserTo, UserRec
    <3> QED BY <2>1, <2>3, <3>1
  <2> QED BY <1>1, <2>1, <2>2, <2>4, <2>5, <2>6, <2>7, <2>8, <2>9 DEF UserStep
<1>2. CASE MainStep \/ FwRespond \/ TimerStep \/ HangStep
  BY <1>a, <1>2, OtherTypes DEF Others
<1>3. CASE UNCHANGED vars
  BY <1>a, <1>3, SameCallRefl DEF vars
<1>4. ASSUME NEW i \in Ioctl, Request(i) PROVE UserKnown' /\ Used'
  <2>1. /\ user' = user /\ req[i].st = "new" /\ Kind(i) # "unused"
        /\ req' = Status(req, i, "admitted")
    BY <1>4 DEF Request
  <2>2. /\ \A j \in Ioctl \ {i} : req'[j] = req[j]
        /\ \A j \in Ioctl : req'[j].kind = req[j].kind
    BY <1>m, <2>1, StatusOK DEF SameWork
  <2>3. Used'
    BY <1>0, <2>1, <2>2 DEF Used, Kind
  <2>4. user.pc # "idle" => user.ioctl # i
    BY <1>0, <2>1 DEF UserKnown
  <2>5. UserKnown'
    BY <1>0, <1>u, <2>1, <2>2, <2>4 DEF UserKnown, Kind, IsScan
  <2> QED BY <2>3, <2>5
<1> QED BY <1>1, <1>2, <1>3, <1>4 DEF Next

-----------------------------------------------------------------------------
(* Shape is an invariant.                                                  *)

\* Issuing a request keeps the types.
LEMMA RequestTypes ==
  ASSUME Shape, NEW i \in Ioctl, Request(i)
  PROVE  Types'
<1>1. Types
  BY DEF Shape
<1>2. req' \in [Ioctl -> Req]
  BY <1>1, StatusOK DEF Types, Request
<1> QED BY <1>1, <1>2 DEF Request, Types, scanVars, timerVars, linkVars

\* A step keeps the shape of the engine.
LEMMA ShapeStep ==
  ASSUME Shape, [Next]_vars
  PROVE  Shape'
<1>1. Types'
  <2>1. CASE UserStep
    BY <2>1, TypesUserStep
  <2>2. CASE MainStep \/ FwRespond \/ TimerStep \/ HangStep
    BY <2>2, OtherTypes DEF Others
  <2>3. CASE \E i \in Ioctl : Request(i)
    BY <2>3, RequestTypes
  <2>4. CASE UNCHANGED vars
    BY <2>4 DEF vars, scanVars, timerVars, linkVars, Shape, Types
  <2> QED BY <2>1, <2>2, <2>3, <2>4 DEF Next
<1>2. \E w : Places(w)'
  <2>1. CASE (\E i \in Ioctl : Request(i)) \/ UNCHANGED vars
    <3>1. UNCHANGED <<queueVars, curr_cmd, main, user>>
      BY <2>1 DEF Request, vars
    <3> QED BY <3>1, PlacesSame
  <2> QED BY <2>1, PlacesUser, PlacesDnld, PlacesLink, PlacesResp, PlacesEvent, PlacesHang
          DEF Next, MainStep
<1>3. Control' /\ UserKnown' /\ Used' /\ FreeBlank'
  BY <1>1, ControlStep, KnownStep, FreeBlankStep
<1> QED BY <1>1, <1>2, <1>3 DEF Shape

\* Shape holds at first.
LEMMA ShapeInit ==
  ASSUME Init
  PROVE  Shape
<1> USE NoneApart, IdleOK
<1>1. Types
  <2>1. PICK s \in Scenarios :
          /\ fw = [cmd |-> None, rsp |-> None, scan |-> "idle",
                   results |-> s.results, fails |-> s.fails]
          /\ req = [i \in Ioctl |->
                      [kind |-> s.kind[i], bss |-> s.bss[i], cmds |-> s.cmds,
                       st |-> "new", code |-> None, done |-> 0, ok |-> FALSE,
                       answered |-> FALSE]]
    BY DEF Init
  <2>2. /\ s.kind \in [Ioctl -> Kinds] /\ s.bss \in [Ioctl -> Nat] /\ s.cmds \in 1 .. MaxScanCmds
        /\ s.results \subseteq AllResults /\ s.fails \in BOOLEAN
    BY CmdAssumption
  <2>3. fw \in FwRec
    BY <2>1, <2>2 DEF FwRec
  <2>4. req \in [Ioctl -> Req]
    BY <2>1, <2>2 DEF Req
  <2>5. node \in [Node -> NodeRec]
    BY BlankOK DEF Init
  <2> QED BY <2>3, <2>4, <2>5 DEF Init, Types
<1>2. Control /\ UserKnown
  BY DEF Init, Control, UserKnown, MainIdle, UserIdle, BeforeResp, AfterResp
<1>3. Used
  BY DEF Init, Used
<1>4. PICK w : w = [n \in Node |-> "free"]
  OBVIOUS
<1>5. Places(w)
  BY <1>4, EmptyQueue DEF Init, Places, At, Spots, Some, MainIdle, UserIdle
<1>6. FreeBlank
  BY DEF Init, FreeBlank
<1> QED BY <1>1, <1>2, <1>3, <1>5, <1>6 DEF Shape

\* Types, control and places, for every value of the constants.
THEOREM ShapeAlways == Spec => []Shape
<1>1. Init => Shape
  BY ShapeInit
<1>2. Shape /\ [Next]_vars => Shape'
  BY ShapeStep
<1> QED BY <1>1, <1>2, PTL DEF Spec

\* Types.
LEMMA ShapeTypes ==
  ASSUME Shape
  PROVE  TypeOK
<1>0. Types
  BY DEF Shape
<1>1. PICK w : Places(w)
  BY DEF Shape
<1>2. \A q \in {cmd_pending_q, scan_pending_q, ext_cmd_pending_q} :
        q \in Seq(Node) /\ Len(q) <= Cardinality(Node)
  BY <1>1, QueueLen DEF Places, Queue
<1>3. cmd_free_q \subseteq Node
  BY ShapeFacts
<1>4. fw \in [cmd : Commands \cup {None}, rsp : AllResults \cup {None},
              scan : {"idle", "run", "drun", "reported"},
              results : SUBSET AllResults, fails : BOOLEAN]
  BY <1>0 DEF Types, FwRec
<1>5. main \in [pc : {"idle", "dnld", "send", "noresp", "nrfree", "arm", "resp", "handle",
                      "errscan", "errfree", "stopped", "tail", "report",
                      "status", "complete", "move"},
                node : Node \cup {None}, ioctl : Ioctl \cup {None}]
  <2>1. MainPC = {"idle", "dnld", "send", "noresp", "nrfree", "arm", "resp", "handle",
                  "errscan", "errfree", "stopped", "tail", "report",
                  "status", "complete", "move"}
    BY DEF MainPC, BeforeResp, AfterResp, EventPC
  <2> QED BY <1>0, <2>1 DEF Types, MainRec
<1>6. user \in [pc : {"idle", "get", "queue", "start", "cancel", "bssrm", "stop", "flush"},
                ioctl : Ioctl \cup {None}, node : Node \cup {None}, todo : 0 .. MaxScanCmds]
  BY <1>0 DEF Types, UserRec, UserPC
<1>7. node \in [Node -> [cmd : Commands \cup {None}, ioctl : Ioctl \cup {None},
                         scan : BOOLEAN, canceled : BOOLEAN, resp : AllResults \cup {None}]]
  BY <1>0 DEF Types, NodeRec
<1> QED BY <1>0, <1>2, <1>3, <1>4, <1>5, <1>6, <1>7 DEF TypeOK, Types

\* Every node is in one place.
LEMMA ShapeOnePlace ==
  ASSUME Shape
  PROVE  OnePlace
<1> USE NoneApart
<1>1. PICK w : Places(w)
  BY DEF Shape
<1>m. main.node \in Node \cup {None} /\ user.node \in Node \cup {None}
      /\ curr_cmd \in Node \cup {None}
  BY DEF Shape, Types, MainRec, UserRec
<1>2. ASSUME NEW x \in Node \cup {None}
      PROVE  Queue(Holding(x)) /\ Range(Holding(x)) = Some(x)
  BY <1>2, EmptyQueue, OneQueue DEF Holding, Some
<1>3. \A n \in Node : Stands(w, n)
  BY <1>1, PlacesFacts
<1> DEFINE q1 == cmd_pending_q \o scan_pending_q
           q2 == q1 \o ext_cmd_pending_q
           q3 == q2 \o Holding(curr_cmd)
           q4 == q3 \o Holding(main.node)
<1>4. Queue(q1) /\ Range(q1) = At(w, "pending") \cup At(w, "scan")
  BY <1>1, ConcatQueue DEF Places, At
<1> HIDE DEF q1
<1>5. Queue(q2) /\ Range(q2) = Range(q1) \cup At(w, "deferred")
  BY <1>1, <1>4, ConcatQueue DEF Places, At
<1> HIDE DEF q2
<1>6. Queue(q3) /\ Range(q3) = Range(q2) \cup At(w, "curr")
  BY <1>1, <1>2, <1>4, <1>5, <1>m, ConcatQueue DEF Places, At
<1> HIDE DEF q3
<1>7. Queue(q4) /\ Range(q4) = Range(q3) \cup At(w, "main")
  BY <1>1, <1>2, <1>4, <1>5, <1>6, <1>m, ConcatQueue DEF Places, At
<1> HIDE DEF q4
<1>8. Queue(InUse) /\ Range(InUse) = Range(q4) \cup At(w, "user")
  <2>1. InUse = q4 \o Holding(user.node)
    BY DEF InUse, q1, q2, q3, q4
  <2> QED BY <1>1, <1>2, <1>4, <1>5, <1>6, <1>7, <1>m, <2>1, ConcatQueue DEF Places, At
<1>9. Range(InUse) = Node \ cmd_free_q
  BY <1>1, <1>4, <1>5, <1>6, <1>7, <1>8 DEF Places, At, Spots
<1>10. \A n \in cmd_free_q : node[n] = Blank
  BY DEF Shape, FreeBlank
<1> QED BY <1>8, <1>9, <1>10 DEF OnePlace, Queue

\* The type invariant: every variable of the engine keeps its type, and no
\* queue grows beyond the command pool.
THEOREM TypeCorrect == Spec => []TypeOK
  BY ShapeAlways, ShapeTypes, PTL

\* Whatever cancels, fails or times out, a command node is free or in exactly
\* one place, and a free node is clean (wlan_get_cmd_node and
\* wlan_insert_cmd_to_free_q, and the queues between them).
THEOREM NodesHaveOnePlace == Spec => []OnePlace
  BY ShapeAlways, ShapeOnePlace, PTL

-----------------------------------------------------------------------------
(* What a step does to a node in use.                                      *)

\* What a step may do to a node that stays in use.
NodeKept(n) ==
  /\ node'[n].cmd = node[n].cmd
  /\ node[n].canceled => node'[n].canceled
  /\ node'[n].canceled => node[n].canceled \/ node'[n].ioctl = None
  /\ node'[n].scan = node[n].scan \/ (PrepareQueues /\ n = user.node)
  /\ node'[n].resp = node[n].resp \/ (n = curr_cmd /\ (RxCmdResp \/ HandlePreAsleep))
  /\ \/ node'[n].ioctl = node[n].ioctl
     \/ /\ node'[n].ioctl = None
        /\ node'[n].canceled \/ hang # "idle"

\* A node in use keeps its command, and its request, unless the node is marked
\* cancelled or the hang work takes the request.
LEMMA NodeStep ==
  ASSUME Shape, [Next]_vars, NEW n \in Node \ cmd_free_q, n \notin cmd_free_q'
  PROVE  NodeKept(n)
<1> USE NoneApart
<1>0. Types /\ Control /\ node \in [Node -> NodeRec]
  BY DEF Shape, Types
<1>r. node[n] \in NodeRec
  BY <1>0
<1>s. ASSUME node' = node PROVE NodeKept(n)
  BY <1>s DEF NodeKept
<1>f. ASSUME NEW N, NEW r, NEW nd \in [Node -> NodeRec], Free(N, r, nd)
      PROVE  node'[n] = nd[n]
  BY <1>f DEF Free
<1>m. ASSUME NEW C
      PROVE  /\ MarkCanceled(node, C)[n].cmd = node[n].cmd
             /\ node[n].canceled => MarkCanceled(node, C)[n].canceled
             /\ MarkCanceled(node, C)[n].scan = node[n].scan
             /\ MarkCanceled(node, C)[n].resp = node[n].resp
             /\ \/ MarkCanceled(node, C)[n].canceled = node[n].canceled
                \/ MarkCanceled(node, C)[n].ioctl = None
             /\ \/ MarkCanceled(node, C)[n].ioctl = node[n].ioctl
                \/ /\ MarkCanceled(node, C)[n].ioctl = None
                   /\ MarkCanceled(node, C)[n].canceled
  BY <1>r DEF MarkCanceled, NodeRec
<1>d. ASSUME NEW N, hang # "idle"
      PROVE  /\ Detach(node, N)[n].cmd = node[n].cmd
             /\ Detach(node, N)[n].canceled = node[n].canceled
             /\ Detach(node, N)[n].scan = node[n].scan
             /\ Detach(node, N)[n].resp = node[n].resp
             /\ \/ Detach(node, N)[n].ioctl = node[n].ioctl
                \/ Detach(node, N)[n].ioctl = None
  BY <1>r DEF Detach, NodeRec
<1>n. ASSUME NEW N, NEW r, Free(N, r, node) PROVE NodeKept(n)
  BY <1>0, <1>f, <1>n DEF NodeKept
<1>1. CASE UserStep
  <2>1. CASE (\E i \in Ioctl : Enter(i)) \/ NoCmdNode \/ StopDecide \/ ScanStart
    BY <1>s, <2>1 DEF Enter, NoCmdNode, StopDecide, ScanStart
  <2>2. CASE GetCmdNode
    <3>1. PICK h \in cmd_free_q : \A m \in Node \ {h} : node'[m] = node[m]
      BY <1>0, <2>2 DEF GetCmdNode
    <3> QED BY <3>1 DEF NodeKept
  <2>3. CASE PrepareFails
    <3>1. n # user.node
      BY <2>3 DEF PrepareFails, Free
    <3>2. Detach(node, {user.node})[n] = node[n]
      BY <3>1 DEF Detach
    <3>3. Detach(node, {user.node}) \in [Node -> NodeRec]
      BY <1>0, DetachOK
    <3>4. node'[n] = Detach(node, {user.node})[n]
      BY <1>f, <2>3, <3>3 DEF PrepareFails, Unbuilt
    <3> QED BY <3>2, <3>4 DEF NodeKept
  <2>4. CASE PrepareQueues
    <3>1. PICK b : node' = [node EXCEPT ![user.node].scan = b]
      BY <2>4 DEF PrepareQueues, Enqueue
    <3>2. /\ node'[n].cmd = node[n].cmd /\ node'[n].canceled = node[n].canceled
          /\ node'[n].ioctl = node[n].ioctl /\ node'[n].resp = node[n].resp
          /\ n # user.node => node'[n].scan = node[n].scan
      BY <1>0, <1>r, <3>1 DEF NodeRec
    <3> QED BY <2>4, <3>2 DEF NodeKept
  <2>5. CASE CancelScan
    <3>1. PICK C, N, r : Free(N, r, MarkCanceled(node, C))
      BY <2>5 DEF CancelScan
    <3>2. node'[n] = MarkCanceled(node, C)[n]
      BY <1>0, <1>f, <3>1, MarkCanceledOK
    <3> QED BY <1>m, <3>2 DEF NodeKept
  <2>6. CASE CancelBss
    <3>1. PICK C, N, r : Free(N, r, Detach(MarkCanceled(node, C), N))
      BY <2>6 DEF CancelBss
    <3>2. n \notin N
      BY <3>1 DEF Free
    <3>3. MarkCanceled(node, C) \in [Node -> NodeRec]
      BY <1>0, MarkCanceledOK
    <3>4. node'[n] = Detach(MarkCanceled(node, C), N)[n]
      BY <1>f, <3>1, <3>3, DetachOK
    <3>5. node'[n] = MarkCanceled(node, C)[n]
      BY <3>2, <3>4 DEF Detach
    <3> QED BY <1>m, <3>5 DEF NodeKept
  <2>7. CASE CancelFlush
    BY <1>n, <2>7 DEF CancelFlush, FlushScan
  <2> QED BY <1>1, <2>1, <2>2, <2>3, <2>4, <2>5, <2>6, <2>7 DEF UserStep
<1>2. CASE DnldStep
  BY <1>2, <1>s, <1>n DEF DnldStep, ExecNextCmd, DnldCurrent, DnldSent, DnldFails, NoRespDone,
     NoRespFree, DnldArm
<1>3. CASE FwRespond \/ DownloadDone \/ TimerStep \/ EventStep \/ (\E i \in Ioctl : Request(i))
           \/ UNCHANGED vars
  BY <1>s, <1>3 DEF FwRespond, DownloadDone, TimerStep, TimerExpires, TimerReports, EventStep,
     ScanReport, ScanStatus, StatusStopsTimer, ScanCompletes, MoveDeferred, Request, vars
<1>4. ASSUME NEW c, node' = [node EXCEPT ![curr_cmd].resp = c], RxCmdResp \/ HandlePreAsleep
      PROVE  NodeKept(n)
  <2>1. /\ node'[n].cmd = node[n].cmd /\ node'[n].canceled = node[n].canceled
        /\ node'[n].ioctl = node[n].ioctl /\ node'[n].scan = node[n].scan
        /\ n # curr_cmd => node'[n].resp = node[n].resp
    BY <1>0, <1>r, <1>4 DEF NodeRec
  <2> QED BY <1>4, <2>1 DEF NodeKept
<1>5. CASE RxCmdResp
  BY <1>s, <1>4, <1>5 DEF RxCmdResp
<1>6. CASE RespStep
  <2>1. CASE HandlePreAsleep
    BY <1>4, <2>1 DEF HandlePreAsleep
  <2>2. CASE ~HandlePreAsleep
    BY <1>6, <1>s, <1>n, <2>2 DEF RespStep, RespTaken, RespCanceled, HandleInvalid, HandleError,
       FlushScan, ErrorScanDone, ErrorFree, HandleOk, StopCompletes, RespTail
  <2> QED BY <2>1, <2>2
<1>7. CASE HangStep
  <2>1. CASE HangFlushScan
    BY <1>n, <2>1 DEF HangFlushScan, FlushScan
  <2>2. CASE ~HangFlushScan
    <3>1. hang # "idle" /\ \E N, S, r : Free(N, r, Detach(node, S))
      BY <1>7, <2>2 DEF HangStep, HangCancel, flag, HangFlushExt
    <3>2. PICK S : node'[n] = Detach(node, S)[n]
      BY <1>0, <1>f, <3>1, DetachOK
    <3> QED BY <1>d, <3>1, <3>2 DEF NodeKept
  <2> QED BY <2>1, <2>2
<1> QED BY <1>1, <1>2, <1>3, <1>5, <1>6, <1>7 DEF Next, MainStep

-----------------------------------------------------------------------------
(* The answer and the timer of the current command.                        *)

\* The answer of the firmware is to the current command.
Linked ==
  /\ fw.rsp # None => fw.cmd # None
  /\ fw.cmd # None => /\ curr_cmd # None /\ node[curr_cmd].cmd = fw.cmd
                      /\ main.pc \in {"arm", "idle"} \cup EventPC
                      /\ ~cmd_resp_received

\* What stays out of the way of the timer.
Exits ==
  /\ hang # "idle" => driver_status
  /\ main.pc \in {"noresp", "nrfree"} => node[curr_cmd].cmd = "noresp"
  /\ \A n \in Node \ cmd_free_q :
       node[n].cmd \in {"cmd", "conn", "noresp"} /\ node[n].ioctl = None =>
         node[n].canceled \/ driver_status
  /\ curr_cmd # None /\ main.pc \in {"idle"} \cup EventPC =>
       \/ timer = "armed" \/ tcb # None \/ driver_status
       \/ node[curr_cmd].cmd = "noresp" /\ node[curr_cmd].canceled

\* The current node is not free.
LEMMA CurrInUse == Shape => curr_cmd \notin cmd_free_q /\ curr_cmd \in Node \cup {None}
  BY NotFree DEF Shape, Types

\* The current command is kept.
LEMMA CurrKept ==
  ASSUME Shape, [Next]_vars, curr_cmd' = curr_cmd, curr_cmd # None
  PROVE  NodeKept(curr_cmd)
<1>1. curr_cmd \in Node \ cmd_free_q
  BY CurrInUse
<1>2. Shape'
  BY ShapeStep
<1>3. (curr_cmd \notin cmd_free_q /\ curr_cmd \in Node \cup {None})'
  BY <1>2, CurrInUse, PTL
<1> QED BY <1>1, <1>3, NodeStep

\* Only the user takes a node off the free list.
LEMMA NodeTaken ==
  ASSUME Shape, [Next]_vars, NEW n \in cmd_free_q, n \notin cmd_free_q'
  PROVE  /\ GetCmdNode
         /\ node'[n].cmd = CmdOf(user.ioctl) /\ node'[n].ioctl = Carried(user.ioctl)
         /\ ~node'[n].scan /\ ~node'[n].canceled /\ node'[n].resp = None
         /\ user'.node = n /\ user'.ioctl = user.ioctl
<1>1. GetCmdNode
  BY DEF Next, Request, UserStep, Enter, NoCmdNode, PrepareFails, PrepareQueues, ScanStart,
     CancelScan, CancelBss, StopDecide, CancelFlush, MainStep, DnldStep, ExecNextCmd, DnldCurrent,
     DnldSent, DnldFails, NoRespDone, NoRespFree, DnldArm, DownloadDone, RxCmdResp, RespStep,
     RespTaken, RespCanceled, HandleInvalid, HandlePreAsleep, HandleError, ErrorScanDone, ErrorFree,
     HandleOk, StopCompletes, RespTail, EventStep, ScanReport, ScanStatus, StatusStopsTimer,
     ScanCompletes, MoveDeferred, FwRespond, TimerStep, TimerExpires, TimerReports, HangStep,
     HangCancel, HangFlushScan, HangFlushExt, vars, queueVars, FlushScan, Free
<1>2. PICK m \in cmd_free_q :
        /\ cmd_free_q' = cmd_free_q \ {m}
        /\ node' = [node EXCEPT ![m] = [Blank EXCEPT !.cmd = CmdOf(user.ioctl),
                                                    !.ioctl = Carried(user.ioctl)]]
        /\ user' = [user EXCEPT !.pc = "queue", !.node = m]
  BY <1>1 DEF GetCmdNode
<1>3. m = n /\ n \in Node /\ node \in [Node -> NodeRec] /\ user \in UserRec
  BY <1>2, ShapeFacts DEF Shape, Types
<1>4. node'[n] = [Blank EXCEPT !.cmd = CmdOf(user.ioctl), !.ioctl = Carried(user.ioctl)]
  BY <1>2, <1>3
<1>5. /\ node'[n].cmd = CmdOf(user.ioctl) /\ node'[n].ioctl = Carried(user.ioctl)
      /\ node'[n].scan = Blank.scan /\ node'[n].canceled = Blank.canceled
      /\ node'[n].resp = Blank.resp
  BY <1>4, BlankOK DEF NodeRec
<1>6. ~Blank.scan /\ ~Blank.canceled /\ Blank.resp = None
  BY DEF Blank
<1>7. user'.node = n /\ user'.ioctl = user.ioctl
  BY <1>2, <1>3 DEF UserRec
<1> QED BY <1>1, <1>5, <1>6, <1>7

\* The firmware holds no other than the current command.
LEMMA LinkedStep ==
  ASSUME Shape, Linked, [Next]_vars
  PROVE  Linked'
<1> USE NoneApart
<1>0. Types /\ Control /\ main \in MainRec /\ fw \in FwRec
  BY DEF Shape, Types
<1>z. ASSUME fw' = fw, fw.cmd = None PROVE Linked'
  BY <1>z DEF Linked
<1>k. ASSUME UNCHANGED <<curr_cmd, cmd_resp_received>>, fw'.cmd = fw.cmd,
             fw'.rsp # None => fw.rsp # None \/ fw.cmd # None,
             main' = main \/ main'.pc \in {"idle"} \cup EventPC
      PROVE  Linked'
  BY <1>k, CurrKept DEF Linked, NodeKept
<1>1. CASE UserStep \/ TimerStep \/ HangStep \/ (\E i \in Ioctl : Request(i)) \/ UNCHANGED vars
  <2>1. UNCHANGED <<main, curr_cmd, linkVars>>
    BY <1>1 DEF UserStep, Enter, GetCmdNode, NoCmdNode, PrepareFails, PrepareQueues, ScanStart,
       CancelScan, CancelBss, StopDecide, CancelFlush, TimerStep, TimerExpires, TimerReports,
       HangStep, HangCancel, flag, HangFlushScan, HangFlushExt, Request, vars
  <2> QED BY <1>k, <2>1 DEF linkVars
<1>2. CASE DnldStep
  <2>1. CASE DnldArm
    BY <1>k, <2>1 DEF DnldArm, MainIdle, linkVars
  <2>2. CASE DnldSent
    <3>1. /\ main.pc = "send" /\ curr_cmd # None /\ ~cmd_resp_received /\ fw.cmd = None
          /\ UNCHANGED <<curr_cmd, cmd_resp_received, node>>
      BY <1>0, <2>2 DEF DnldSent, MainAt, Control, BeforeResp, EventPC, Linked
    <3> DEFINE c == node[curr_cmd].cmd
    <3>2. /\ fw' = [fw EXCEPT !.cmd = IF c = "noresp" THEN None ELSE c]
          /\ main' = [main EXCEPT !.pc = IF c = "noresp" THEN "noresp" ELSE "arm"]
      BY <2>2 DEF DnldSent, MainTo
    <3>3. /\ fw'.cmd = (IF c = "noresp" THEN None ELSE c) /\ fw'.rsp = fw.rsp
          /\ main'.pc = IF c = "noresp" THEN "noresp" ELSE "arm"
      BY <1>0, <3>2 DEF FwRec, MainRec
    <3> QED BY <3>1, <3>3 DEF Linked
  <2>3. CASE ExecNextCmd \/ DnldCurrent \/ DnldFails \/ NoRespDone \/ NoRespFree
    <3>1. fw' = fw /\ (curr_cmd = None \/ main.pc \in {"dnld", "send", "noresp", "nrfree"})
      BY <2>3 DEF ExecNextCmd, MayExec, DnldCurrent, DnldFails, NoRespDone, NoRespFree, MainAt, linkVars
    <3>2. fw.cmd = None
      BY <3>1 DEF Linked, EventPC
    <3> QED BY <1>z, <3>1, <3>2
  <2> QED BY <1>2, <2>1, <2>2, <2>3 DEF DnldStep
<1>3. CASE FwRespond \/ DownloadDone
  <2>1. UNCHANGED <<main, curr_cmd, cmd_resp_received>> /\ fw'.cmd = fw.cmd
        /\ (fw'.rsp # None => fw.rsp # None \/ fw.cmd # None)
    BY <1>0, <1>3 DEF FwRespond, DownloadDone, FwRec
  <2> QED BY <1>k, <2>1
<1>4. CASE RxCmdResp
  <2>1. fw'.cmd = None /\ fw'.rsp = None
    BY <1>0, <1>4 DEF RxCmdResp, FwRec
  <2> QED BY <2>1 DEF Linked
<1>5. CASE RespStep
  <2>1. fw' = fw /\ (cmd_resp_received \/ main.pc \in AfterResp)
    BY <1>5 DEF RespStep, RespTaken, RespCanceled, HandleInvalid, HandlePreAsleep, HandleError,
       ErrorScanDone, ErrorFree, HandleOk, StopCompletes, RespTail, Handling, MainAt, AfterResp, linkVars
  <2> QED BY <1>z, <2>1 DEF Linked, AfterResp, EventPC
<1>6. CASE EventStep
  <2>1. UNCHANGED <<curr_cmd, cmd_resp_received>> /\ fw'.cmd = fw.cmd /\ fw'.rsp = fw.rsp
    BY <1>0, <1>6 DEF EventStep, ScanReport, ScanStatus, StatusStopsTimer, ScanCompletes, MoveDeferred,
       FwRec, linkVars
  <2>2. main' = main \/ main'.pc \in {"idle"} \cup EventPC
    BY <1>0, <1>6 DEF EventStep, ScanReport, ScanStatus, StatusStopsTimer, ScanCompletes, MoveDeferred,
       MainRec, MainTo, MainIdle, EventPC
  <2> QED BY <1>k, <2>1, <2>2
<1> QED BY <1>1, <1>2, <1>3, <1>4, <1>5, <1>6 DEF Next, MainStep

\* The current command stays watched: it is armed before MAIN is idle again,
\* and StopTimer belongs to the handling of its response.
LEMMA ExitsStep ==
  ASSUME Shape, Exits, [Next]_vars
  PROVE  Exits'
<1> USE NoneApart
<1>0. Types /\ Control /\ UserKnown /\ main \in MainRec /\ node \in [Node -> NodeRec]
  BY DEF Shape, Types
<1>1. driver_status => driver_status'
  BY <1>0 DEF Next, Request, UserStep, Enter, GetCmdNode, NoCmdNode, PrepareFails, PrepareQueues, ScanStart,
     CancelScan, CancelBss, StopDecide, CancelFlush, MainStep, DnldStep, ExecNextCmd, DnldCurrent,
     DnldSent, DnldFails, NoRespDone, NoRespFree, DnldArm, DownloadDone, RxCmdResp, RespStep,
     RespTaken, RespCanceled, HandleInvalid, HandlePreAsleep, HandleError, ErrorScanDone, ErrorFree,
     HandleOk, StopCompletes, RespTail, EventStep, ScanReport, ScanStatus, StatusStopsTimer,
     ScanCompletes, MoveDeferred, FwRespond, TimerStep, TimerExpires, TimerReports, HangStep,
     HangCancel, HangFlushScan, HangFlushExt, vars
<1>2. hang' # "idle" => driver_status'
  <2>1. TimerReports \/ hang' = hang \/ (HangStep /\ hang # "idle")
    BY DEF Next, Request, UserStep, Enter, GetCmdNode, NoCmdNode, PrepareFails, PrepareQueues, ScanStart,
     CancelScan, CancelBss, StopDecide, CancelFlush, MainStep, DnldStep, ExecNextCmd, DnldCurrent,
     DnldSent, DnldFails, NoRespDone, NoRespFree, DnldArm, DownloadDone, RxCmdResp, RespStep,
     RespTaken, RespCanceled, HandleInvalid, HandlePreAsleep, HandleError, ErrorScanDone, ErrorFree,
     HandleOk, StopCompletes, RespTail, EventStep, ScanReport, ScanStatus, StatusStopsTimer,
     ScanCompletes, MoveDeferred, FwRespond, TimerStep, TimerExpires, HangStep,
     HangCancel, HangFlushScan, HangFlushExt, vars
  <2>2. TimerReports => driver_status'
    BY DEF TimerReports
  <2> QED BY <1>1, <2>1, <2>2 DEF Exits
<1>3. ASSUME NEW n \in Node \ cmd_free_q',
             node'[n].cmd \in {"cmd", "conn", "noresp"}, node'[n].ioctl = None
      PROVE  node'[n].canceled \/ driver_status'
  <2>1. CASE n \notin cmd_free_q
    <3>1. NodeKept(n)
      BY <1>3, <2>1, NodeStep
    <3> QED BY <1>1, <1>3, <2>1, <3>1 DEF NodeKept, Exits
  <2>2. CASE n \in cmd_free_q
    <3>1. GetCmdNode /\ node'[n].cmd = CmdOf(user.ioctl) /\ node'[n].ioctl = Carried(user.ioctl)
      BY <1>3, <2>2, NodeTaken
    <3>3. user.ioctl \in Ioctl /\ Kind(user.ioctl) \in Kinds
      BY <1>0, <3>1, UserFacts DEF GetCmdNode, UserAt
    <3>5. Carried(user.ioctl) # None
      BY <1>3, <3>1, <3>3 DEF CmdOf, Carried, Kinds, ScanKinds, IsScan
    <3> QED BY <1>3, <3>1, <3>5
  <2> QED BY <2>1, <2>2
<1> DEFINE NoResp == main.pc \in {"noresp", "nrfree"} => node[curr_cmd].cmd = "noresp"
           Way == curr_cmd # None /\ main.pc \in {"idle"} \cup EventPC =>
                    \/ timer = "armed" \/ tcb # None \/ driver_status
                    \/ node[curr_cmd].cmd = "noresp" /\ node[curr_cmd].canceled
<1>4. NoResp /\ Way
  BY DEF Exits
<1>a. ASSUME UNCHANGED <<curr_cmd, timer, tcb>>,
             main.pc \in {"idle"} \cup EventPC \/ main' = main
      PROVE  Way'
  BY <1>1, <1>4, <1>a, CurrKept DEF NodeKept
<1>n. ASSUME UNCHANGED <<curr_cmd, main>> PROVE NoResp'
  BY <1>0, <1>4, <1>n, CurrKept DEF NodeKept, Control, BeforeResp
<1>p. ASSUME main'.pc \notin {"noresp", "nrfree"} PROVE NoResp'
  BY <1>p
<1>w. ASSUME main'.pc \notin {"idle"} \cup EventPC \/ curr_cmd' = None \/ driver_status' PROVE Way'
  BY <1>w
<1>5. NoResp' /\ Way'
  <2>1. CASE UserStep \/ (\E i \in Ioctl : Request(i)) \/ UNCHANGED vars \/ FwRespond
             \/ DownloadDone \/ RxCmdResp
    <3>1. UNCHANGED <<main, curr_cmd, timer, tcb>>
      BY <2>1 DEF UserStep, Enter, GetCmdNode, NoCmdNode, PrepareFails, PrepareQueues, ScanStart,
         CancelScan, CancelBss, StopDecide, CancelFlush, FwRespond, DownloadDone, RxCmdResp,
         Request, vars, timerVars
    <3> QED BY <1>a, <1>n, <3>1
  <2>2. CASE TimerStep \/ HangStep
    <3>1. UNCHANGED <<main, curr_cmd>>
      BY <2>2 DEF TimerStep, TimerExpires, TimerReports, HangStep, HangCancel, flag, HangFlushScan,
         HangFlushExt
    <3>2. CASE TimerExpires
      <4>1. curr_cmd # None => tcb' # None
        BY <3>2 DEF TimerExpires
      <4> QED BY <1>n, <3>1, <4>1
    <3>3. CASE TimerReports
      BY <1>n, <1>w, <3>1, <3>3 DEF TimerReports
    <3>4. CASE HangStep
      <4>1. driver_status'
        BY <1>1, <3>4 DEF HangStep, HangCancel, HangFlushScan, HangFlushExt, Exits
      <4> QED BY <1>n, <1>w, <3>1, <4>1
    <3> QED BY <2>2, <3>2, <3>3, <3>4 DEF TimerStep
  <2>3. CASE DnldStep
    <3>1. CASE ExecNextCmd \/ DnldCurrent
      <4>1. main'.pc \in {"dnld", "send"}
        BY <3>1 DEF ExecNextCmd, DnldCurrent, MainIdle
      <4> QED BY <1>p, <1>w, <4>1 DEF EventPC
    <3>2. CASE DnldFails \/ NoRespFree
      <4>1. main'.pc = "idle" /\ curr_cmd' = None
        BY <3>2 DEF DnldFails, NoRespFree, MainIdle
      <4> QED BY <1>p, <1>w, <4>1
    <3>3. CASE DnldArm
      <4>1. main'.pc = "idle" /\ timer' = "armed"
        BY <3>3 DEF DnldArm, MainIdle
      <4> QED BY <1>p, <4>1
    <3>4. CASE DnldSent
      <4>1. main'.pc = (IF node[curr_cmd].cmd = "noresp" THEN "noresp" ELSE "arm")
            /\ UNCHANGED <<node, curr_cmd>>
        BY <1>0, <3>4 DEF DnldSent, MainTo, MainRec
      <4>2. NoResp'
        BY <4>1
      <4> QED BY <1>w, <4>1, <4>2 DEF EventPC
    <3>5. CASE NoRespDone
      <4>1. main'.pc = (IF node[curr_cmd].ioctl # None THEN "nrfree" ELSE "idle")
            /\ main.pc = "noresp" /\ UNCHANGED <<node, curr_cmd, driver_status>>
        BY <1>0, <3>5 DEF NoRespDone, MainTo, MainRec, MainAt
      <4>2. curr_cmd \in Node \ cmd_free_q /\ node[curr_cmd].cmd = "noresp"
        BY <1>0, <1>4, <4>1, CurrInUse DEF Control, BeforeResp
      <4>3. node[curr_cmd].ioctl = None => node[curr_cmd].canceled \/ driver_status
        BY <4>2 DEF Exits
      <4> QED BY <4>1, <4>2, <4>3 DEF EventPC
    <3> QED BY <2>3, <3>1, <3>2, <3>3, <3>4, <3>5 DEF DnldStep
  <2>4. CASE RespStep
    <3>1. CASE RespTaken
      <4>1. CASE main' = main
        <5>1. UNCHANGED <<curr_cmd, timer, tcb>>
          <6>1. main.pc = "idle"
            BY <3>1 DEF RespTaken, MainAt
          <6> QED BY <3>1, <4>1, <6>1 DEF RespTaken, timerVars, MainIdle
        <5> QED BY <1>a, <1>n, <4>1, <5>1
      <4>2. CASE main' # main
        <5>1. main'.pc = "resp"
          BY <3>1, <4>2 DEF RespTaken, MainIdle
        <5> QED BY <1>p, <1>w, <5>1 DEF EventPC
      <4> QED BY <4>1, <4>2
    <3>2. CASE ~RespTaken
      <4>1. \/ \E p \in AfterResp : MainTo(p)
            \/ main' = MainIdle /\ curr_cmd' = None
        BY <2>4, <3>2 DEF RespStep, RespCanceled, HandleInvalid, HandlePreAsleep, HandleError,
           ErrorScanDone, ErrorFree, HandleOk, StopCompletes, RespTail, AfterResp
      <4>2. main'.pc \in AfterResp \/ (main'.pc = "idle" /\ curr_cmd' = None)
        <5>1. ASSUME NEW p, MainTo(p) PROVE main'.pc = p
          BY <1>0, <5>1 DEF MainRec, MainTo
        <5>2. MainIdle.pc = "idle"
          BY DEF MainIdle
        <5> QED BY <4>1, <5>1, <5>2
      <4> QED BY <1>p, <1>w, <4>2 DEF AfterResp, EventPC
    <3> QED BY <3>1, <3>2
  <2>5. CASE EventStep
    <3>1. /\ main.pc \in {"idle"} \cup EventPC
          /\ main' = main \/ main' = MainIdle \/ \E p \in {"idle"} \cup EventPC : MainTo(p)
          /\ curr_cmd' = curr_cmd
      BY <2>5 DEF EventStep, ScanReport, ScanStatus, StatusStopsTimer, ScanCompletes, MoveDeferred,
         EventAt, MainAt, EventPC
    <3>2. main'.pc \notin {"noresp", "nrfree"}
      BY <1>0, <3>1 DEF MainTo, MainRec, MainIdle, EventPC
    <3>3. curr_cmd = None \/ UNCHANGED <<timer, tcb>>
      BY <2>5 DEF EventStep, ScanReport, ScanStatus, StatusStopsTimer, ScanCompletes, MoveDeferred,
         timerVars
    <3> QED BY <1>a, <1>p, <1>w, <3>1, <3>2, <3>3
  <2> QED BY <2>1, <2>2, <2>3, <2>4, <2>5 DEF Next, MainStep
<1> QED BY <1>2, <1>3, <1>5 DEF Exits

\* No command and no timer at first.
LEMMA LinkInit ==
  ASSUME Init
  PROVE  Linked /\ Exits
  BY DEF Init, Linked, Exits, MainIdle

\* The answer and the timer, for every value of the constants.
THEOREM EngineAlways == Spec => [](Shape /\ Linked /\ Exits)
<1>1. Init => Shape /\ Linked /\ Exits
  BY ShapeInit, LinkInit
<1>2. Shape /\ Linked /\ Exits /\ [Next]_vars => (Shape /\ Linked /\ Exits)'
  BY ShapeStep, LinkedStep, ExitsStep
<1> QED BY <1>1, <1>2, PTL DEF Spec

\* The answer the firmware owes is to the current command: a cancelled
\* command stays current (CMD_F_CANCELED) until it is answered.
THEOREM ResponsesMatch == Spec => []ResponseMatches
<1>1. Linked => ResponseMatches
  BY DEF Linked, ResponseMatches
<1> QED BY <1>1, EngineAlways, PTL

\* While the main loop is elsewhere the command timer, or its callback,
\* watches the current command.
THEOREM CurrentLeaves == Spec => []CurrHasExit
<1>1. Exits => CurrHasExit
  BY DEF Exits, CurrHasExit, MainAt
<1> QED BY <1>1, EngineAlways, PTL

-----------------------------------------------------------------------------
(* Who holds a request; what a step that completes requests does.          *)

\* Requests whose success is compared, and those a node may carry.
Answerable == {"cmd", "conn"}
Carryable  == {"cmd", "conn", "noresp"}

\* A request is completed at most once before it is forgotten.
Known ==
  \A i \in Ioctl :
    /\ req[i].st = "running" => user.ioctl = i
    /\ req[i].st # "pending" => req[i].done = 0
    /\ req[i].st = "pending" => Kind(i) \notin {"bssrm", "unused"}

\* The request on node n.
CarriedBy(n, i) ==
  /\ \/ Kind(i) = "cancel" /\ node[n].cmd = "stop"
     \/ Kind(i) \in Carryable /\ node[n].cmd = Kind(i)
  /\ \/ req[i].st = "pending" /\ n # user.node
     \/ req[i].st = "running" /\ user.ioctl = i /\ n = user.node
  /\ Kind(i) # "cancel" => req[i].done = 0

\* A request is on one node, or the scan request, or not with the engine.
Held ==
  /\ \A m, n \in Node : node[m].ioctl # None /\ node[m].ioctl = node[n].ioctl => m = n
  /\ \A n \in Node : node[n].ioctl # None => CarriedBy(n, node[n].ioctl)
  /\ pscan_ioctl_req # None =>
       IsScan(pscan_ioctl_req) /\ req[pscan_ioctl_req].st = "pending" /\ req[pscan_ioctl_req].done = 0
  /\ \A i \in Ioctl : req[i].st = "pending" /\ req[i].done = 0 /\ Kind(i) \in Carryable =>
       \E n \in Node : node[n].ioctl = i
  /\ user.node # None /\ Kind(user.ioctl) \in Carryable => node[user.node].ioctl = user.ioctl

Bump(d) == IF d < 2 THEN d + 1 ELSE 2

\* The step completes the requests of D, each taken off its node or out of
\* pscan_ioctl_req, and no command with success that was not answered.
Settles(D) ==
  /\ D \subseteq Ioctl
  /\ \A i \in Ioctl :
       /\ req'[i].kind = req[i].kind /\ req'[i].answered = req[i].answered
       /\ \/ req'[i].st = req[i].st
          \/ req[i].st = "running" /\ req'[i].st = "returned" /\ i = user.ioctl /\ user.node = None
       /\ i \notin D => req'[i].done = req[i].done /\ req'[i].ok = req[i].ok
       /\ i \in D =>
            /\ req[i].st = "pending" /\ req'[i].done = Bump(req[i].done)
            /\ Kind(i) = "cancel" \/ req[i].done = 0
            /\ Kind(i) \in Answerable /\ req'[i].ok => req[i].answered
  /\ user'.node = user.node
  /\ \/ user'.ioctl = user.ioctl
     \/ user.node = None /\ (user.ioctl \in Ioctl => req'[user.ioctl].st # "running")
  /\ \A n \in Node :
       /\ node'[n].ioctl = node[n].ioctl \/ node'[n].ioctl = None
       /\ node'[n].ioctl # None => node'[n].cmd = node[n].cmd
       /\ node[n].ioctl # None /\ Kind(node[n].ioctl) # "cancel" =>
            (node'[n].ioctl = None <=> node[n].ioctl \in D)
  /\ pscan_ioctl_req' = IF pscan_ioctl_req \in D THEN None ELSE pscan_ioctl_req

\* A step that settles requests keeps Known and Held.
LEMMA SettledHeld ==
  ASSUME Shape, Known, Held, NEW D, Settles(D), Types'
  PROVE  Known' /\ Held'
<1> USE NoneApart
<1>0. /\ node \in [Node -> NodeRec] /\ req \in [Ioctl -> Req] /\ req' \in [Ioctl -> Req]
      /\ pscan_ioctl_req \in Ioctl \cup {None}
  BY DEF Shape, Types
<1>r. \A i \in Ioctl : req[i].done \in 0 .. 2
  BY <1>0 DEF Req
<1>n. \A n \in Node : node[n].ioctl \in Ioctl \cup {None}
  BY <1>0 DEF NodeRec
<1>1. Known'
  <2>1. ASSUME NEW i \in Ioctl
        PROVE  /\ req'[i].st = "running" => user'.ioctl = i
               /\ req'[i].st # "pending" => req'[i].done = 0
               /\ req'[i].st = "pending" => Kind(i)' \notin {"bssrm", "unused"}
    BY DEF Settles, Known, Kind
  <2> QED BY <2>1 DEF Known
<1>2. ASSUME NEW n \in Node, node'[n].ioctl # None
      PROVE  CarriedBy(n, node[n].ioctl)' /\ node'[n].ioctl = node[n].ioctl
  <2> DEFINE i == node[n].ioctl
  <2>1. node'[n].ioctl = i /\ node'[n].cmd = node[n].cmd /\ i \in Ioctl
    BY <1>2, <1>n DEF Settles
  <2>2. CarriedBy(n, i)
    BY <2>1 DEF Held
  <2>3. Kind(i)' = Kind(i)
    BY <2>1 DEF Settles, Kind
  <2>4. Kind(i) # "cancel" => req'[i].done = 0
    BY <1>2, <2>1, <2>2 DEF Settles, CarriedBy
  <2>5. \/ req'[i].st = "pending" /\ n # user'.node
        \/ req'[i].st = "running" /\ user'.ioctl = i /\ n = user'.node
    BY <2>1, <2>2 DEF Settles, CarriedBy
  <2> QED BY <2>1, <2>2, <2>3, <2>4, <2>5 DEF CarriedBy
<1>3. pscan_ioctl_req' # None =>
        (IsScan(pscan_ioctl_req) /\ req[pscan_ioctl_req].st = "pending" /\ req[pscan_ioctl_req].done = 0)'
  BY <1>0 DEF Settles, Held, IsScan, Kind
<1>4. ASSUME NEW i \in Ioctl, req'[i].st = "pending", req'[i].done = 0, Kind(i)' \in Carryable
      PROVE  \E n \in Node : node'[n].ioctl = i
  <2>1. Kind(i) \in Carryable /\ req[i].st = "pending"
    BY <1>4 DEF Settles, Kind
  <2>2. i \notin D /\ req[i].done = 0
    BY <1>4, <1>r DEF Settles, Bump
  <2>3. PICK n \in Node : node[n].ioctl = i
    BY <2>1, <2>2 DEF Held
  <2> QED BY <2>1, <2>2, <2>3 DEF Settles, Carryable
<1>5. \A m, n \in Node : node'[m].ioctl # None /\ node'[m].ioctl = node'[n].ioctl => m = n
  BY <1>2 DEF Held
<1>6. (user.node # None /\ Kind(user.ioctl) \in Carryable => node[user.node].ioctl = user.ioctl)'
  <2>1. SUFFICES ASSUME user'.node # None, Kind(user.ioctl)' \in Carryable
                 PROVE  node'[user'.node].ioctl = user'.ioctl
    OBVIOUS
  <2>2. /\ user'.node = user.node /\ user'.ioctl = user.ioctl /\ user.node \in Node
        /\ user.pc = "queue" /\ user.ioctl \in Ioctl
    BY <2>1, UserFacts DEF Settles, Shape, Types, UserRec, Control
  <2>3. Kind(user.ioctl) \in Carryable
    BY <2>1, <2>2 DEF Settles, Kind
  <2>4. req[user.ioctl].st = "running"
    BY <2>2 DEF Shape, UserKnown
  <2>5. node[user.node].ioctl = user.ioctl /\ user.ioctl \notin D /\ user.ioctl # None
    BY <2>2, <2>3, <2>4 DEF Settles, Held
  <2>6. Kind(user.ioctl) # "cancel"
    BY <2>3 DEF Carryable
  <2> QED BY <2>2, <2>5, <2>6 DEF Settles
<1> QED BY <1>1, <1>2, <1>3, <1>4, <1>5, <1>6 DEF Held

(* What the operators do to one request.                                    *)

\* What moal_ioctl_complete does to one request among those completed.
LEMMA CompleteAllAt ==
  ASSUME NEW r \in [Ioctl -> Req], NEW S, NEW ok \in BOOLEAN, NEW i \in Ioctl
  PROVE  /\ i \notin S => CompleteAll(r, S, ok)[i] = r[i]
         /\ i \in S =>
              /\ CompleteAll(r, S, ok)[i].done = Bump(r[i].done)
              /\ CompleteAll(r, S, ok)[i].ok = ok
         /\ CompleteAll(r, S, ok)[i].code = r[i].code
         /\ CompleteAll(r, S, ok)[i].answered = r[i].answered
<1>1. r[i] \in Req
  OBVIOUS
<1>2. CASE i \notin S
  BY <1>2 DEF CompleteAll
<1>3. CASE i \in S
  <2> DEFINE d == Bump(r[i].done)
  <2>1. CompleteAll(r, S, ok)[i] = [r[i] EXCEPT !.done = d, !.ok = ok]
    BY <1>3 DEF CompleteAll, Bump
  <2> HIDE DEF d
  <2>2. /\ [r[i] EXCEPT !.done = d, !.ok = ok].done = d
        /\ [r[i] EXCEPT !.done = d, !.ok = ok].ok = ok
        /\ [r[i] EXCEPT !.done = d, !.ok = ok].code = r[i].code
        /\ [r[i] EXCEPT !.done = d, !.ok = ok].answered = r[i].answered
    BY <1>1 DEF Req
  <2> QED BY <1>3, <2>1, <2>2 DEF d
<1> QED BY <1>2, <1>3

\* What writing a status code does to one request.
LEMMA SetCodeAt ==
  ASSUME NEW r \in [Ioctl -> Req], NEW S, NEW c, NEW i \in Ioctl
  PROVE  /\ i \notin S => SetCode(r, S, c)[i] = r[i]
         /\ i \in S => SetCode(r, S, c)[i].code = c
         /\ SetCode(r, S, c)[i].done = r[i].done
         /\ SetCode(r, S, c)[i].ok = r[i].ok
         /\ SetCode(r, S, c)[i].answered = r[i].answered
<1>1. r[i] \in Req
  OBVIOUS
<1> QED BY <1>1 DEF Req, SetCode

\* What cancelling does to one request.
LEMMA CancelAllAt ==
  ASSUME NEW r \in [Ioctl -> Req], NEW S, NEW i \in Ioctl
  PROVE  /\ i \notin S => CancelAll(r, S)[i] = r[i]
         /\ i \in S => /\ CancelAll(r, S)[i].done = Bump(r[i].done)
                       /\ CancelAll(r, S)[i].ok = FALSE
                       /\ CancelAll(r, S)[i].code = "cancel"
         /\ CancelAll(r, S)[i].answered = r[i].answered
<1> DEFINE s == SetCode(r, S, "cancel")
<1>1. s \in [Ioctl -> Req]
  BY SetCodeOK DEF Codes
<1>2. /\ i \notin S => s[i] = r[i]
      /\ i \in S => s[i].code = "cancel"
      /\ s[i].done = r[i].done /\ s[i].answered = r[i].answered
  BY SetCodeAt
<1> HIDE DEF s
<1> DEFINE no == FALSE
<1>3. no \in BOOLEAN
  OBVIOUS
<1>4. CancelAll(r, S) = CompleteAll(s, S, no)
  BY DEF CancelAll, s
<1>f. no = FALSE
  OBVIOUS
<1> HIDE DEF no
<1>5. /\ i \notin S => CompleteAll(s, S, no)[i] = s[i]
      /\ i \in S => /\ CompleteAll(s, S, no)[i].done = Bump(s[i].done)
                    /\ CompleteAll(s, S, no)[i].ok = no
      /\ CompleteAll(s, S, no)[i].code = s[i].code
      /\ CompleteAll(s, S, no)[i].answered = s[i].answered
  BY <1>1, <1>3, CompleteAllAt
<1> QED BY <1>2, <1>4, <1>5, <1>f

\* What wlan_insert_cmd_to_free_q does to one request.
LEMMA ByCodeAt ==
  ASSUME NEW r \in [Ioctl -> Req], NEW S, NEW i \in Ioctl
  PROVE  /\ i \notin S => CompleteByCode(r, S)[i] = r[i]
         /\ i \in S => /\ CompleteByCode(r, S)[i].done = Bump(r[i].done)
                       /\ CompleteByCode(r, S)[i].ok = (r[i].code = None)
         /\ CompleteByCode(r, S)[i].code = r[i].code
         /\ CompleteByCode(r, S)[i].answered = r[i].answered
<1>1. CASE i \notin S
  BY <1>1 DEF CompleteByCode
<1>2. CASE i \in S
  <2> DEFINE b == r[i].code = None
  <2>1. CompleteByCode(r, S)[i] = CompleteAll(r, {i}, b)[i]
    BY <1>2 DEF CompleteByCode
  <2>2. b \in BOOLEAN
    OBVIOUS
  <2> HIDE DEF b
  <2>3. /\ CompleteAll(r, {i}, b)[i].done = Bump(r[i].done)
        /\ CompleteAll(r, {i}, b)[i].ok = b
        /\ CompleteAll(r, {i}, b)[i].code = r[i].code
        /\ CompleteAll(r, {i}, b)[i].answered = r[i].answered
    BY <2>2, CompleteAllAt
  <2> QED BY <1>2, <2>1, <2>3 DEF b
<1> QED BY <1>1, <1>2

\* What Detach does to one node.
LEMMA DetachAt ==
  ASSUME NEW nd \in [Node -> NodeRec], NEW N, NEW n \in Node
  PROVE  /\ Detach(nd, N)[n].ioctl = IF n \in N THEN None ELSE nd[n].ioctl
         /\ Detach(nd, N)[n].cmd = nd[n].cmd
<1>1. nd[n] \in NodeRec
  OBVIOUS
<1> QED BY <1>1 DEF Detach, NodeRec

\* What MarkCanceled does to one node.
LEMMA MarkCanceledAt ==
  ASSUME NEW nd \in [Node -> NodeRec], NEW C, NEW n \in Node
  PROVE  /\ MarkCanceled(nd, C)[n].ioctl = IF n \in C THEN None ELSE nd[n].ioctl
         /\ MarkCanceled(nd, C)[n].cmd = nd[n].cmd
<1>1. nd[n] \in NodeRec
  OBVIOUS
<1> QED BY <1>1 DEF MarkCanceled, NodeRec

-----------------------------------------------------------------------------
(* Freeing nodes completes what they carry.                                *)

\* A step that frees the nodes N, takes the requests off the nodes M and
\* completes these as cancelled, with the scan request if it is in P, settles
\* all of them.
LEMMA FreeSettles ==
  ASSUME Shape, Held,
         NEW N \in SUBSET Node, NEW M \in SUBSET Node, user.node \notin N \cup M,
         NEW P, P \subseteq Some(pscan_ioctl_req),
         NEW r \in [Ioctl -> Req], NEW nd \in [Node -> NodeRec], Free(N, r, nd),
         \A n \in Node : /\ nd[n].cmd = node[n].cmd
                         /\ nd[n].ioctl = IF n \in M THEN None ELSE node[n].ioctl,
         \A i \in Ioctl :
           /\ r[i].kind = req[i].kind /\ r[i].answered = req[i].answered
           /\ \/ r[i].st = req[i].st
              \/ req[i].st = "running" /\ r[i].st = "returned" /\ i = user.ioctl /\ user.node = None
           /\ i \notin P \cup IoctlsOf(M) => r[i].done = req[i].done /\ r[i].ok = req[i].ok
           /\ i \in P \cup IoctlsOf(M) => r[i].done = Bump(req[i].done) /\ ~r[i].ok,
         \A i \in IoctlsOf(N \ M) :
           Kind(i) \in Answerable /\ r[i].code = None => req[i].answered,
         user'.node = user.node,
         \/ user'.ioctl = user.ioctl
         \/ user.node = None /\ (user.ioctl \in Ioctl => r[user.ioctl].st # "running"),
         pscan_ioctl_req' = IF P = {} THEN pscan_ioctl_req ELSE None
  PROVE  Settles(P \cup IoctlsOf(N \cup M))
<1> USE NoneApart
<1>0. /\ node \in [Node -> NodeRec] /\ req \in [Ioctl -> Req]
      /\ pscan_ioctl_req \in Ioctl \cup {None}
  BY DEF Shape, Types
<1>n. \A n \in Node : node[n].ioctl \in Ioctl \cup {None}
  BY <1>0 DEF NodeRec
<1> DEFINE E == P \cup IoctlsOf(M)
           D == P \cup IoctlsOf(N \cup M)
           F == IoctlsOf(N \ M)
<1>1. D \subseteq Ioctl
  BY <1>0, <1>n DEF IoctlsOf, Some
<1>2. req' = CompleteByCode(r, F)
  <2>1. {nd[n].ioctl : n \in N} \ {None} = IoctlsOf(N \ M)
    BY DEF IoctlsOf
  <2> QED BY <2>1 DEF Free
<1>3. \A n \in Node : node'[n] = IF n \in N THEN Blank ELSE nd[n]
  BY DEF Free
\* Nobody is in both sets: a request is on one node, and the scan request on none.
<1>4. \A i \in F : i \notin E
  <2>1. \A n \in N \ M : node[n].ioctl # None => node[n].ioctl \notin P
    BY <1>n DEF Held, CarriedBy, IsScan, ScanKinds, Carryable, Some
  <2> QED BY <2>1 DEF IoctlsOf, Held
<1>5. D = E \cup F
  BY DEF IoctlsOf
<1>6. \A i \in D : /\ req[i].st = "pending"
                   /\ Kind(i) = "cancel" \/ req[i].done = 0
  <2>1. ASSUME NEW n \in N \cup M, node[n].ioctl # None
        PROVE  /\ req[node[n].ioctl].st = "pending"
               /\ Kind(node[n].ioctl) = "cancel" \/ req[node[n].ioctl].done = 0
    BY <2>1 DEF Held, CarriedBy
  <2>2. \A i \in P : req[i].st = "pending" /\ req[i].done = 0
    BY DEF Held, Some
  <2> QED BY <2>1, <2>2 DEF IoctlsOf
<1>7. ASSUME NEW n \in Node, node[n].ioctl # None
      PROVE  node[n].ioctl \in D <=> n \in N \cup M
  <2>1. node[n].ioctl \in P => Kind(node[n].ioctl) = "cancel" \/ Kind(node[n].ioctl) \in Carryable
    BY <1>7 DEF Held, CarriedBy
  <2>2. node[n].ioctl \notin P
    BY <1>7, <2>1 DEF Held, IsScan, ScanKinds, Carryable, Some
  <2> QED BY <1>7, <2>2 DEF IoctlsOf, Held
<1>8. ASSUME NEW n \in Node
      PROVE  /\ node'[n].ioctl = node[n].ioctl \/ node'[n].ioctl = None
             /\ node'[n].ioctl # None => node'[n].cmd = node[n].cmd
             /\ node[n].ioctl # None => (node'[n].ioctl = None <=> node[n].ioctl \in D)
  <2>1. Blank.ioctl = None
    BY DEF Blank
  <2> HIDE DEF D
  <2>2. CASE n \in N
    <3>1. node'[n] = Blank
      BY <1>3, <2>2
    <3> QED BY <1>7, <2>1, <2>2, <3>1
  <2>3. CASE n \notin N
    <3>1. node'[n] = nd[n]
      BY <1>3, <2>3
    <3>2. nd[n].cmd = node[n].cmd /\ nd[n].ioctl = IF n \in M THEN None ELSE node[n].ioctl
      OBVIOUS
    <3> QED BY <1>7, <2>3, <3>1, <3>2
  <2> QED BY <2>2, <2>3
<1>9. ASSUME NEW i \in Ioctl
      PROVE  /\ req'[i].kind = req[i].kind /\ req'[i].answered = req[i].answered
             /\ req'[i].st = r[i].st
             /\ i \notin D => req'[i].done = req[i].done /\ req'[i].ok = req[i].ok
             /\ i \in D => /\ req'[i].done = Bump(req[i].done)
                           /\ Kind(i) \in Answerable /\ req'[i].ok => req[i].answered
  <2>1. /\ i \notin F => req'[i] = r[i]
        /\ i \in F => req'[i].done = Bump(r[i].done) /\ req'[i].ok = (r[i].code = None)
        /\ req'[i].answered = r[i].answered
    BY <1>2, ByCodeAt
  <2>2. req'[i].kind = r[i].kind /\ req'[i].st = r[i].st
    BY <1>2, CompleteByCodeOK DEF SameCall
  <2> HIDE DEF D, E, F
  <2>3. /\ i \notin E => r[i].done = req[i].done /\ r[i].ok = req[i].ok
        /\ i \in E => r[i].done = Bump(req[i].done) /\ ~r[i].ok
    BY DEF E
  <2>4. i \in F /\ Kind(i) \in Answerable /\ r[i].code = None => req[i].answered
    BY DEF F
  <2>5. CASE i \in F
    BY <1>4, <1>5, <2>1, <2>2, <2>3, <2>4, <2>5
  <2>6. CASE i \notin F
    BY <1>4, <1>5, <2>1, <2>2, <2>3, <2>6
  <2> QED BY <2>5, <2>6
<1>10. pscan_ioctl_req' = IF pscan_ioctl_req \in D THEN None ELSE pscan_ioctl_req
  <2>1. pscan_ioctl_req # None => pscan_ioctl_req \notin IoctlsOf(N \cup M)
    BY DEF Held, CarriedBy, IsScan, ScanKinds, Carryable, IoctlsOf
  <2>2. None \notin IoctlsOf(N \cup M) /\ None \notin P
    BY DEF IoctlsOf, Some
  <2>3. P = {} \/ P = {pscan_ioctl_req}
    BY DEF Some
  <2> QED BY <2>1, <2>2, <2>3
<1> HIDE DEF D, E, F
<1>11. \/ user'.ioctl = user.ioctl
       \/ user.node = None /\ (user.ioctl \in Ioctl => req'[user.ioctl].st # "running")
  BY <1>9
<1>12. Settles(D)
  BY <1>1, <1>6, <1>8, <1>9, <1>10, <1>11 DEF Settles
<1> QED BY <1>12 DEF D

\* Freeing nodes as they are: their requests end as the code left in them says.
LEMMA FreePlain ==
  ASSUME Shape, Held, NEW N \in SUBSET Node, user.node \notin N,
         NEW r \in [Ioctl -> Req], Free(N, r, node), SameCall(req, r),
         \A i \in Ioctl : /\ r[i].answered = req[i].answered
                          /\ r[i].done = req[i].done /\ r[i].ok = req[i].ok,
         \A i \in IoctlsOf(N) : Kind(i) \in Answerable /\ r[i].code = None => req[i].answered,
         user'.node = user.node, user'.ioctl = user.ioctl, pscan_ioctl_req' = pscan_ioctl_req
  PROVE  Settles(IoctlsOf(N))
<1>1. node \in [Node -> NodeRec]
  BY DEF Shape, Types
<1> DEFINE M == {}
           P == {}
<1>2. /\ M \in SUBSET Node /\ P \subseteq Some(pscan_ioctl_req) /\ user.node \notin N \cup M
      /\ \A n \in Node : /\ node[n].cmd = node[n].cmd
                         /\ node[n].ioctl = IF n \in M THEN None ELSE node[n].ioctl
      /\ P \cup IoctlsOf(M) = {} /\ N \ M = N /\ P \cup IoctlsOf(N \cup M) = IoctlsOf(N)
      /\ P = {}
  BY DEF IoctlsOf
<1> HIDE DEF M, P
<1>3. \A i \in Ioctl :
        /\ r[i].kind = req[i].kind /\ r[i].answered = req[i].answered
        /\ r[i].st = req[i].st
        /\ i \notin P \cup IoctlsOf(M) => r[i].done = req[i].done /\ r[i].ok = req[i].ok
        /\ i \in P \cup IoctlsOf(M) => r[i].done = Bump(req[i].done) /\ ~r[i].ok
  BY <1>2 DEF SameCall
<1>4. \A i \in IoctlsOf(N \ M) : Kind(i) \in Answerable /\ r[i].code = None => req[i].answered
  BY <1>2
<1>5. pscan_ioctl_req' = IF P = {} THEN pscan_ioctl_req ELSE None
  BY <1>2
<1>6. Settles(P \cup IoctlsOf(N \cup M))
  BY ZenonT(40), <1>1, <1>2, <1>3, <1>4, <1>5, FreeSettles
<1> QED BY <1>2, <1>6

-----------------------------------------------------------------------------
(* Flags of the nodes, and places again.                                   *)

\* Scan commands and cancelled commands.
Flags ==
  /\ \A n \in Node : /\ node[n].scan => node[n].cmd \in ScanKinds \cup {"stop"}
                     /\ node[n].canceled => node[n].ioctl = None
  /\ \A n \in Range(scan_pending_q) : node[n].scan

\* The nodes in use are not free, and not in two places.
Apart ==
  /\ curr_cmd \notin cmd_free_q /\ user.node \notin cmd_free_q
  /\ user.node # None => user.node # curr_cmd
  /\ \A n \in Range(cmd_pending_q) \cup Range(scan_pending_q) \cup Range(ext_cmd_pending_q) :
       n \in Node /\ n \notin cmd_free_q /\ n # user.node /\ n # curr_cmd

\* Nodes in use are not free, and not in two places.
LEMMA NotFreeAgain == Shape => Apart
<1> SUFFICES ASSUME Shape
             PROVE  Apart
  OBVIOUS
<1>1. PICK w : Places(w)
  BY DEF Shape
<1>2. \A n \in Node : Stands(w, n)
  BY <1>1, PlacesFacts
<1>3. \A n \in Range(cmd_pending_q) \cup Range(scan_pending_q) \cup Range(ext_cmd_pending_q) :
        n \in Node /\ n # user.node /\ n # curr_cmd
  BY <1>2, ShapeFacts DEF Stands
<1>4. user.node # None => user.node # curr_cmd
  BY <1>2 DEF Stands, Shape, Types, UserRec
<1> QED BY <1>3, <1>4, NotFree DEF Apart

\* The scan queue only grows when the user queues a command.
LEMMA ScanQueueStep ==
  ASSUME Shape, [Next]_vars
  PROVE  \/ Range(scan_pending_q') \subseteq Range(scan_pending_q)
         \/ /\ PrepareQueues /\ AsScan(node[user.node].cmd)
            /\ Range(scan_pending_q') = Range(scan_pending_q) \cup {user.node}
<1>1. PICK w : Places(w)
  BY DEF Shape
<1>2. Queue(scan_pending_q)
  BY <1>1 DEF Places
<1>3. \/ scan_pending_q' = scan_pending_q \/ scan_pending_q' = <<>>
      \/ scan_pending_q' = Tail(scan_pending_q) /\ scan_pending_q # <<>>
      \/ PrepareQueues
  BY DEF Next, Request, UserStep, Enter, GetCmdNode, NoCmdNode, PrepareFails, ScanStart,
     CancelScan, CancelBss, StopDecide, CancelFlush, MainStep, DnldStep, ExecNextCmd, DnldCurrent,
     DnldSent, DnldFails, NoRespDone, NoRespFree, DnldArm, DownloadDone, RxCmdResp, RespStep,
     RespTaken, RespCanceled, HandleInvalid, HandlePreAsleep, HandleError, ErrorScanDone, ErrorFree,
     HandleOk, StopCompletes, RespTail, EventStep, ScanReport, ScanStatus, StatusStopsTimer,
     ScanCompletes, MoveDeferred, FwRespond, TimerStep, TimerExpires, TimerReports, HangStep,
     HangCancel, HangFlushScan, HangFlushExt, vars, queueVars, FlushScan, NextScanCmd
<1>4. CASE PrepareQueues
  <2>1. CASE AsScan(node[user.node].cmd)
    <3>1. scan_pending_q' = Append(scan_pending_q, user.node)
      BY <1>4, <2>1 DEF PrepareQueues, Enqueue
    <3>2. user.node \in Node /\ user.node \notin Range(scan_pending_q)
      BY <1>4, NoneApart, NotFreeAgain DEF Apart, PrepareQueues, UserAt, Shape, Types, UserRec, Control
    <3> QED BY <1>2, <1>4, <2>1, <3>1, <3>2, AppendQueue
  <2>2. CASE ~AsScan(node[user.node].cmd)
    <3>1. scan_pending_q' = scan_pending_q
      BY <1>4, <2>2 DEF PrepareQueues, Enqueue, QueueCmd
    <3> QED BY <3>1
  <2> QED BY <2>1, <2>2
<1>5. CASE scan_pending_q' = scan_pending_q \/ scan_pending_q' = <<>>
           \/ (scan_pending_q' = Tail(scan_pending_q) /\ scan_pending_q # <<>>)
  BY <1>2, <1>5, TailQueue, EmptyQueue
<1> QED BY <1>3, <1>4, <1>5

\* CMD_F_SCAN stays on scan commands, and cancelled nodes carry no request.
LEMMA FlagsStep ==
  ASSUME Shape, Flags, [Next]_vars
  PROVE  Flags'
<1> USE NoneApart
<1>0. Types /\ Shape'
  BY ShapeStep DEF Shape
<1>1. PrepareQueues => /\ user.node \in Node
                       /\ node'[user.node].scan = AsScan(node[user.node].cmd)
  <2>1. SUFFICES ASSUME PrepareQueues
                 PROVE  /\ user.node \in Node
                        /\ node'[user.node].scan = AsScan(node[user.node].cmd)
    OBVIOUS
  <2>2. user.node \in Node
    BY <2>1 DEF PrepareQueues, UserAt, Shape, Types, UserRec, Control
  <2>3. node' = [node EXCEPT ![user.node].scan = AsScan(node[user.node].cmd)]
    BY <2>1 DEF PrepareQueues, Enqueue
  <2>4. node \in [Node -> NodeRec] /\ node[user.node] \in NodeRec
    BY <1>0, <2>2 DEF Types
  <2> QED BY <2>2, <2>3, <2>4 DEF NodeRec
<1>2. ASSUME NEW n \in Node
      PROVE  /\ node'[n].scan => node'[n].cmd \in ScanKinds \cup {"stop"}
             /\ node'[n].canceled => node'[n].ioctl = None
  <2>1. CASE n \in cmd_free_q'
    <3>1. node'[n] = Blank
      BY <1>0, <2>1 DEF Shape, FreeBlank
    <3>2. ~Blank.scan /\ ~Blank.canceled
      BY DEF Blank
    <3> QED BY <3>1, <3>2
  <2>2. CASE n \notin cmd_free_q' /\ n \in cmd_free_q
    BY <2>2, NodeTaken
  <2>3. CASE n \notin cmd_free_q' /\ n \notin cmd_free_q
    <3>1. NodeKept(n)
      BY <2>3, NodeStep
    <3> QED BY <1>1, <3>1 DEF NodeKept, Flags, AsScan
  <2> QED BY <2>1, <2>2, <2>3
<1>3. ASSUME NEW n \in Range(scan_pending_q') PROVE node'[n].scan
  <2>1. Apart'
    BY <1>0, NotFreeAgain, PTL
  <2>2. CASE n \in Range(scan_pending_q)
    <3>1. NodeKept(n) /\ n # user.node
      BY <1>3, <2>1, <2>2, NodeStep, NotFreeAgain DEF Apart
    <3> QED BY <2>2, <3>1 DEF NodeKept, Flags
  <2>3. CASE n \notin Range(scan_pending_q)
    BY <1>1, <1>3, <2>3, ScanQueueStep
  <2> QED BY <2>2, <2>3
<1> QED BY <1>2, <1>3 DEF Flags

-----------------------------------------------------------------------------
(* What MAIN handles, and Engine.                                          *)

\* The request of the response that is handled.
Handled ==
  /\ main.pc = "tail" => node[curr_cmd].resp = "ok"
  /\ main.pc = "stopped" => node[curr_cmd].resp = "ok" /\ node[curr_cmd].cmd = "stop"
  /\ main.ioctl # None =>
       /\ main.pc \in AfterResp /\ req[main.ioctl].st = "pending"
       /\ \/ Kind(main.ioctl) = "cancel" /\ node[curr_cmd].cmd = "stop"
          \/ Kind(main.ioctl) \in Carryable /\ node[curr_cmd].cmd = Kind(main.ioctl)
  /\ main.pc \in AfterResp => node[curr_cmd].ioctl \in {None, main.ioctl}

\* A command with a good response was answered, and one with a bad one is marked.
Answers ==
  /\ \A n \in Node : node[n].ioctl # None /\ node[n].resp = "ok" => req[node[n].ioctl].answered
  /\ fw.rsp = "ok" /\ node[curr_cmd].ioctl # None => req[node[curr_cmd].ioctl].answered
  /\ main.pc \in {"errscan", "errfree"} /\ node[curr_cmd].ioctl # None =>
       req[node[curr_cmd].ioctl].code # None

\* The strengthening for completions.
Engine == Shape /\ Linked /\ Exits /\ Flags /\ Known /\ Held /\ Handled /\ Answers

SomeSettled == \E D : Settles(D)

\* A step that completes nothing.
LEMMA NothingSettled ==
  ASSUME Shape, Held,
         \A i \in Ioctl : /\ req'[i].kind = req[i].kind /\ req'[i].answered = req[i].answered
                          /\ req'[i].st = req[i].st
                          /\ req'[i].done = req[i].done /\ req'[i].ok = req[i].ok,
         user'.node = user.node, user'.ioctl = user.ioctl,
         \A n \in Node : node'[n].ioctl = node[n].ioctl /\ node'[n].cmd = node[n].cmd,
         pscan_ioctl_req' = pscan_ioctl_req
  PROVE  SomeSettled
<1> DEFINE D == {}
<1>1. D \subseteq Ioctl /\ \A x : x \notin D
  OBVIOUS
<1> HIDE DEF D
<1>2. Settles(D)
  BY <1>1 DEF Settles
<1> QED BY <1>2 DEF SomeSettled

\* Writing a status code completes nothing.
LEMMA SetCodeSame ==
  ASSUME NEW S, NEW c \in Codes, req \in [Ioctl -> Req]
  PROVE  LET r == SetCode(req, S, c)
         IN /\ r \in [Ioctl -> Req] /\ SameCall(req, r)
            /\ \A i \in Ioctl : /\ r[i].answered = req[i].answered
                                /\ r[i].done = req[i].done /\ r[i].ok = req[i].ok
                                /\ r[i].code = IF i \in S THEN c ELSE req[i].code
<1> DEFINE r == SetCode(req, S, c)
<1>1. r \in [Ioctl -> Req] /\ SameCall(req, r)
  BY SetCodeOK
<1>2. \A i \in Ioctl : /\ i \notin S => r[i] = req[i]
                       /\ i \in S => r[i].code = c
                       /\ r[i].done = req[i].done /\ r[i].ok = req[i].ok
                       /\ r[i].answered = req[i].answered
  BY SetCodeAt
<1> HIDE DEF r
<1>3. \A i \in Ioctl : r[i].code = IF i \in S THEN c ELSE req[i].code
  BY <1>2
<1>4. \A i \in Ioctl : /\ r[i].answered = req[i].answered
                       /\ r[i].done = req[i].done /\ r[i].ok = req[i].ok
                       /\ r[i].code = IF i \in S THEN c ELSE req[i].code
  BY <1>2, <1>3
<1> QED BY <1>1, <1>4 DEF r

\* The steps that complete nothing.
LEMMA SettleQuiet ==
  ASSUME Engine,
         \/ ExecNextCmd \/ DnldCurrent \/ DnldSent \/ NoRespDone \/ DnldArm \/ DownloadDone
         \/ RxCmdResp \/ RespTaken \/ HandlePreAsleep \/ HandleOk \/ ScanReport \/ ScanStatus
         \/ StatusStopsTimer \/ MoveDeferred \/ TimerStep \/ StopDecide \/ UNCHANGED vars
  PROVE  SomeSettled
<1>0. /\ Shape /\ Held /\ node \in [Node -> NodeRec] /\ req \in [Ioctl -> Req]
      /\ user \in UserRec /\ \A n \in Node : node[n] \in NodeRec
  BY DEF Engine, Shape, Types
<1>1. CASE UNCHANGED <<req, user, node, pscan_ioctl_req>>
  BY <1>0, <1>1, NothingSettled
<1>2. CASE RxCmdResp \/ HandlePreAsleep
  <2>1. UNCHANGED <<req, user, pscan_ioctl_req>>
        /\ (node' = node \/ \E c : node' = [node EXCEPT ![curr_cmd].resp = c])
    BY <1>2 DEF RxCmdResp, HandlePreAsleep, scanVars
  <2>2. \A n \in Node : node'[n].ioctl = node[n].ioctl /\ node'[n].cmd = node[n].cmd
    BY <1>0, <2>1 DEF NodeRec
  <2> QED BY <1>0, <2>1, <2>2, NothingSettled
<1>3. CASE StopDecide
  <2>1. UNCHANGED <<req, node, pscan_ioctl_req>> /\ \E p : UserTo(p)
    BY <1>3 DEF StopDecide, scanVars
  <2>2. user'.ioctl = user.ioctl /\ user'.node = user.node
    BY <1>0, <2>1 DEF UserTo, UserRec
  <2> QED BY <1>0, <2>1, <2>2, NothingSettled
<1>4. CASE TimerReports
  <2>1. UNCHANGED <<user, node, pscan_ioctl_req>>
        /\ (req' = req \/ \E S : req' = SetCode(req, S, "timeout"))
    BY <1>4 DEF TimerReports, scanVars
  <2>2. \A i \in Ioctl : /\ req'[i].kind = req[i].kind /\ req'[i].answered = req[i].answered
                         /\ req'[i].st = req[i].st
                         /\ req'[i].done = req[i].done /\ req'[i].ok = req[i].ok
    <3>1. CASE req' = req
      BY <3>1
    <3>2. CASE \E S : req' = SetCode(req, S, "timeout")
      <4>1. PICK S : req' = SetCode(req, S, "timeout")
        BY <3>2
      <4>2. "timeout" \in Codes
        BY DEF Codes
      <4> QED BY <1>0, <4>1, <4>2, SetCodeSame DEF SameCall
    <3> QED BY <2>1, <3>1, <3>2
  <2> QED BY <1>0, <2>1, <2>2, NothingSettled
<1>5. \/ UNCHANGED <<req, user, node, pscan_ioctl_req>>
      \/ RxCmdResp \/ HandlePreAsleep \/ StopDecide \/ TimerReports
  BY DEF ExecNextCmd, DnldCurrent, DnldSent, NoRespDone, DnldArm, DownloadDone, RespTaken, HandleOk,
     ScanReport, ScanStatus, StatusStopsTimer, MoveDeferred, TimerStep, TimerExpires, vars, scanVars
<1> QED BY <1>1, <1>2, <1>3, <1>4, <1>5

\* Freeing the current command.
LEMMA SettleCurr ==
  ASSUME Engine, curr_cmd # None, NEW r \in [Ioctl -> Req], Free({curr_cmd}, r, node),
         SameCall(req, r),
         \A i \in Ioctl : /\ r[i].answered = req[i].answered
                          /\ r[i].done = req[i].done /\ r[i].ok = req[i].ok,
         node[curr_cmd].ioctl # None /\ Kind(node[curr_cmd].ioctl) \in Answerable
           /\ r[node[curr_cmd].ioctl].code = None => req[node[curr_cmd].ioctl].answered,
         UNCHANGED <<user, pscan_ioctl_req>>
  PROVE  SomeSettled
<1>0. Shape /\ Held
  BY DEF Engine
<1>1. {curr_cmd} \in SUBSET Node /\ user.node \notin {curr_cmd}
  BY <1>0, NotFreeAgain DEF Apart, Shape, Types
<1>2. \A i \in IoctlsOf({curr_cmd}) : i = node[curr_cmd].ioctl /\ i # None
  BY DEF IoctlsOf
<1>3. Settles(IoctlsOf({curr_cmd}))
  BY <1>0, <1>1, <1>2, FreePlain
<1> QED BY <1>3 DEF SomeSettled

\* Every step of the handling of a response settles its request.
LEMMA SettleResponse ==
  ASSUME Engine,
         \/ DnldFails \/ NoRespFree \/ RespCanceled \/ HandleInvalid \/ ErrorFree \/ RespTail
  PROVE  SomeSettled
<1> USE NoneApart
<1>0. /\ Shape /\ Held /\ Handled /\ Answers /\ Flags /\ Exits /\ Control
      /\ node \in [Node -> NodeRec] /\ req \in [Ioctl -> Req]
      /\ user \in UserRec /\ main \in MainRec
  BY DEF Engine, Shape, Types
<1>1. main.pc \in BeforeResp \cup AfterResp /\ curr_cmd # None /\ curr_cmd \in Node
  <2>1. main.pc \in BeforeResp \cup AfterResp
    BY DEF DnldFails, NoRespFree, RespCanceled, HandleInvalid, Handling, ErrorFree, RespTail, MainAt,
       BeforeResp, AfterResp
  <2> QED BY <1>0, <2>1 DEF Control, Shape, Types
<1>2. node[curr_cmd].ioctl \in Ioctl \cup {None}
  BY <1>0, <1>1 DEF NodeRec
<1>c. ASSUME node[curr_cmd].ioctl # None PROVE CarriedBy(curr_cmd, node[curr_cmd].ioctl)
  BY <1>0, <1>1, <1>c DEF Held
<1>s. \A c \in Codes : \A S :
        LET r == SetCode(req, S, c)
        IN /\ r \in [Ioctl -> Req] /\ SameCall(req, r)
           /\ \A i \in Ioctl : /\ r[i].answered = req[i].answered
                               /\ r[i].done = req[i].done /\ r[i].ok = req[i].ok
                               /\ r[i].code = IF i \in S THEN c ELSE req[i].code
  BY <1>0, SetCodeSame
<1>k. "fail" \in Codes /\ "cancel" \in Codes /\ None \in Codes
  BY DEF Codes
<1>n. "fail" # None /\ "cancel" # None
  BY CmdAssumption
<1>1a. CASE DnldFails
  <2>1. DnldCode \in Codes /\ DnldCode # None
    BY <1>k, <1>n DEF DnldCode
  <2>2. /\ Free({curr_cmd}, SetCode(req, IoctlsOf({curr_cmd}), DnldCode), node)
        /\ UNCHANGED <<user, pscan_ioctl_req>>
    BY <1>1a DEF DnldFails, scanVars
  <2>3. node[curr_cmd].ioctl # None => node[curr_cmd].ioctl \in IoctlsOf({curr_cmd})
    BY DEF IoctlsOf
  <2> DEFINE r == SetCode(req, IoctlsOf({curr_cmd}), DnldCode)
  <2>8. /\ r \in [Ioctl -> Req] /\ SameCall(req, r)
        /\ \A i \in Ioctl : /\ r[i].answered = req[i].answered
                            /\ r[i].done = req[i].done /\ r[i].ok = req[i].ok
                            /\ r[i].code = IF i \in IoctlsOf({curr_cmd}) THEN DnldCode ELSE req[i].code
    BY <2>1, <1>s
  <2>9. Free({curr_cmd}, r, node)
    BY <2>2
  <2> HIDE DEF r
  <2> QED BY <1>1, <1>2, <2>1, <2>2, <2>3, <2>8, <2>9, SettleCurr
<1>2a. CASE NoRespFree
  <2>1. Free({curr_cmd}, req, node) /\ UNCHANGED <<user, pscan_ioctl_req>>
    BY <1>2a DEF NoRespFree, scanVars
  <2>2. node[curr_cmd].cmd = "noresp"
    BY <1>0, <1>2a DEF NoRespFree, MainAt, Exits
  <2>3. node[curr_cmd].ioctl # None => Kind(node[curr_cmd].ioctl) \notin Answerable
    BY <1>c, <2>2 DEF CarriedBy, Answerable
  <2> QED BY <1>0, <1>1, <2>1, <2>3, SettleCurr, SameCallRefl
<1>3a. CASE RespCanceled
  <2>1. CASE node[curr_cmd].canceled
    <3>1. /\ Free({curr_cmd}, SetCode(req, Some(main.ioctl), "cancel"), node)
          /\ UNCHANGED <<user, pscan_ioctl_req>>
      BY <1>3a, <2>1 DEF RespCanceled, scanVars
    <3>2. node[curr_cmd].ioctl = None
      BY <1>0, <1>1, <2>1 DEF Flags
    <3> DEFINE r == SetCode(req, Some(main.ioctl), "cancel")
    <3>8. /\ r \in [Ioctl -> Req] /\ SameCall(req, r)
          /\ \A i \in Ioctl : /\ r[i].answered = req[i].answered
                              /\ r[i].done = req[i].done /\ r[i].ok = req[i].ok
                              /\ r[i].code = IF i \in Some(main.ioctl) THEN "cancel" ELSE req[i].code
      BY <1>k, <1>s
    <3>9. Free({curr_cmd}, r, node)
      BY <3>1
    <3> HIDE DEF r
    <3> QED BY <1>1, <1>2, <3>1, <3>2, <3>8, <3>9, SettleCurr
  <2>2. CASE ~node[curr_cmd].canceled
    <3>1. UNCHANGED <<req, user, node, pscan_ioctl_req>>
      BY <1>3a, <2>2 DEF RespCanceled, scanVars
    <3> QED BY <1>0, <3>1, NothingSettled
  <2> QED BY <2>1, <2>2
<1>4a. CASE HandleInvalid
  <2>1. /\ Free({curr_cmd}, SetCode(req, Some(main.ioctl), "fail"), node)
        /\ UNCHANGED <<user, pscan_ioctl_req>> /\ main.pc = "handle"
    BY <1>4a DEF HandleInvalid, Handling, MainAt, scanVars
  <2>2. node[curr_cmd].ioctl # None => node[curr_cmd].ioctl \in Some(main.ioctl)
    BY <1>0, <2>1 DEF Handled, AfterResp, Some
  <2> DEFINE r == SetCode(req, Some(main.ioctl), "fail")
  <2>8. /\ r \in [Ioctl -> Req] /\ SameCall(req, r)
        /\ \A i \in Ioctl : /\ r[i].answered = req[i].answered
                            /\ r[i].done = req[i].done /\ r[i].ok = req[i].ok
                            /\ r[i].code = IF i \in Some(main.ioctl) THEN "fail" ELSE req[i].code
    BY <1>k, <1>s
  <2>9. Free({curr_cmd}, r, node)
    BY <2>1
  <2> HIDE DEF r
  <2> QED BY <1>1, <1>2, <1>n, <2>1, <2>2, <2>8, <2>9, SettleCurr
<1>5a. CASE ErrorFree
  <2>1. Free({curr_cmd}, req, node) /\ UNCHANGED <<user, pscan_ioctl_req>> /\ main.pc = "errfree"
    BY <1>5a DEF ErrorFree, MainAt, scanVars
  <2>2. node[curr_cmd].ioctl # None => req[node[curr_cmd].ioctl].code # None
    BY <1>0, <2>1 DEF Answers
  <2> QED BY <1>0, <1>1, <2>1, <2>2, SettleCurr, SameCallRefl
<1>6a. CASE RespTail
  <2>1. /\ Free({curr_cmd}, SetCode(req, IoctlsOf({curr_cmd}), None), node)
        /\ UNCHANGED <<user, pscan_ioctl_req>> /\ main.pc = "tail"
    BY <1>6a DEF RespTail, MainAt, scanVars
  <2>2. node[curr_cmd].ioctl # None => req[node[curr_cmd].ioctl].answered
    BY <1>0, <1>1, <2>1 DEF Answers, Handled
  <2> DEFINE r == SetCode(req, IoctlsOf({curr_cmd}), None)
  <2>8. /\ r \in [Ioctl -> Req] /\ SameCall(req, r)
        /\ \A i \in Ioctl : /\ r[i].answered = req[i].answered
                            /\ r[i].done = req[i].done /\ r[i].ok = req[i].ok
                            /\ r[i].code = IF i \in IoctlsOf({curr_cmd}) THEN None ELSE req[i].code
    BY <1>k, <1>s
  <2>9. Free({curr_cmd}, r, node)
    BY <2>1
  <2> HIDE DEF r
  <2> QED BY <1>1, <1>2, <2>1, <2>2, <2>8, <2>9, SettleCurr
<1> QED BY <1>1a, <1>2a, <1>3a, <1>4a, <1>5a, <1>6a

\* The scan commands that are flushed carry at most requests to cancel.
LEMMA ScanCarries ==
  ASSUME Engine, NEW N \in SUBSET Node, \A n \in N : node[n].scan
  PROVE  \A i \in IoctlsOf(N) : Kind(i) = "cancel"
  BY DEF Engine, Flags, Held, CarriedBy, Carryable, ScanKinds, IoctlsOf

\* Freeing the queued scan commands.
LEMMA SettleFlush ==
  ASSUME Engine, NEW r \in [Ioctl -> Req], FlushScan(r),
         \A i \in Ioctl :
           /\ r[i].kind = req[i].kind /\ r[i].answered = req[i].answered
           /\ r[i].done = req[i].done /\ r[i].ok = req[i].ok
           /\ \/ r[i].st = req[i].st
              \/ req[i].st = "running" /\ r[i].st = "returned" /\ i = user.ioctl /\ user.node = None,
         user'.node = user.node,
         \/ user'.ioctl = user.ioctl
         \/ user.node = None /\ (user.ioctl \in Ioctl => r[user.ioctl].st # "running"),
         pscan_ioctl_req' = pscan_ioctl_req
  PROVE  SomeSettled
<1>0. Shape /\ Held /\ Flags /\ node \in [Node -> NodeRec]
  BY DEF Engine, Shape, Types
<1> DEFINE N == Range(scan_pending_q)
           M == {}
           P == {}
<1>1. N \in SUBSET Node /\ user.node \notin N /\ \A n \in N : node[n].scan
  BY <1>0, NotFreeAgain DEF Apart, Flags
<1>2. Free(N, r, node)
  BY DEF FlushScan
<1>3. \A i \in IoctlsOf(N) : Kind(i) \notin Answerable
  BY <1>1, ScanCarries DEF Answerable
<1>4. /\ M \in SUBSET Node /\ P \subseteq Some(pscan_ioctl_req) /\ user.node \notin N \cup M
      /\ \A n \in Node : /\ node[n].cmd = node[n].cmd
                         /\ node[n].ioctl = IF n \in M THEN None ELSE node[n].ioctl
      /\ P \cup IoctlsOf(M) = {} /\ N \ M = N /\ P = {}
  BY <1>1 DEF IoctlsOf
<1> HIDE DEF M, P, N
<1>5. \A i \in Ioctl :
        /\ r[i].kind = req[i].kind /\ r[i].answered = req[i].answered
        /\ \/ r[i].st = req[i].st
           \/ req[i].st = "running" /\ r[i].st = "returned" /\ i = user.ioctl /\ user.node = None
        /\ i \notin P \cup IoctlsOf(M) => r[i].done = req[i].done /\ r[i].ok = req[i].ok
        /\ i \in P \cup IoctlsOf(M) => r[i].done = Bump(req[i].done) /\ ~r[i].ok
  BY <1>4
<1>6. \A i \in IoctlsOf(N \ M) : Kind(i) \in Answerable /\ r[i].code = None => req[i].answered
  BY <1>3, <1>4
<1>7. pscan_ioctl_req' = IF P = {} THEN pscan_ioctl_req ELSE None
  BY <1>4
<1>8. N \in SUBSET Node /\ M \in SUBSET Node /\ user.node \notin N \cup M
  BY <1>4, <1>1 DEF N
<1>n. /\ P \subseteq Some(pscan_ioctl_req)
      /\ \A n \in Node : /\ node[n].cmd = node[n].cmd
                         /\ node[n].ioctl = IF n \in M THEN None ELSE node[n].ioctl
  BY <1>4
<1>u. /\ user'.node = user.node
      /\ \/ user'.ioctl = user.ioctl
         \/ user.node = None /\ (user.ioctl \in Ioctl => r[user.ioctl].st # "running")
  OBVIOUS
<1>9. Settles(P \cup IoctlsOf(N \cup M))
  BY <1>0, <1>2, <1>5, <1>6, <1>7, <1>8, <1>n, <1>u, FreeSettles, ZenonT(60)
<1> QED BY <1>9 DEF SomeSettled

-----------------------------------------------------------------------------
(* Steps that settle requests: flushes, scans and cancelling.              *)

\* The steps that flush the scan queue.
LEMMA SettleFlushes ==
  ASSUME Engine, HandleError \/ HangFlushScan \/ CancelFlush
  PROVE  SomeSettled
<1> USE NoneApart
<1>0. /\ Shape /\ Held /\ Control /\ UserKnown /\ Types
      /\ req \in [Ioctl -> Req] /\ user \in UserRec
  BY DEF Engine, Shape, Types
<1>1. CASE HandleError
  <2> DEFINE r == SetCode(req, Some(main.ioctl), "fail")
  <2>1. "fail" \in Codes
    BY DEF Codes
  <2>2. /\ r \in [Ioctl -> Req] /\ SameCall(req, r)
        /\ \A i \in Ioctl : /\ r[i].answered = req[i].answered
                            /\ r[i].done = req[i].done /\ r[i].ok = req[i].ok
    BY <1>0, <2>1, SetCodeSame
  <2>3. \/ FlushScan(r)
        \/ req' = r /\ node' = node
    BY <1>1 DEF HandleError
  <2>4. UNCHANGED <<user, pscan_ioctl_req>>
    BY <1>1 DEF HandleError
  <2> HIDE DEF r
  <2>5. CASE FlushScan(r)
    BY <2>2, <2>4, <2>5, SettleFlush DEF SameCall
  <2>6. CASE req' = r /\ node' = node
    BY <1>0, <2>2, <2>4, <2>6, NothingSettled DEF SameCall
  <2> QED BY <2>3, <2>5, <2>6
<1>2. CASE HangFlushScan
  BY <1>0, <1>2, SettleFlush DEF HangFlushScan
<1>3. CASE CancelFlush
  <2>1. /\ user.pc = "flush" /\ user.ioctl \in Ioctl /\ user.node = None
    BY <1>0, <1>3, UserFacts DEF CancelFlush, UserAt, Control
  <2> DEFINE r == IF req[user.ioctl].st = "pending" THEN req
                  ELSE Status(req, user.ioctl, "returned")
  <2>2. FlushScan(r) /\ user' = UserIdle /\ pscan_ioctl_req' = pscan_ioctl_req
    BY <1>3 DEF CancelFlush
  <2>3. user'.node = user.node
    BY <2>1, <2>2 DEF UserIdle
  <2>4. req[user.ioctl].st # "pending" => req[user.ioctl].st = "running"
    BY <1>0, <2>1 DEF UserKnown
  <2>5. /\ r \in [Ioctl -> Req] /\ SameWork(req, r)
        /\ r[user.ioctl].st # "running"
        /\ \A j \in Ioctl \ {user.ioctl} : r[j] = req[j]
        /\ req[user.ioctl].st = "pending" => r[user.ioctl].st = "pending"
        /\ req[user.ioctl].st = "running" => r[user.ioctl].st = "returned"
    <3>1. CASE req[user.ioctl].st = "pending"
      <4>1. r = req
        BY <3>1
      <4> HIDE DEF r
      <4> QED BY <1>0, <3>1, <4>1 DEF SameWork
    <3>2. CASE req[user.ioctl].st # "pending"
      <4>1. r = Status(req, user.ioctl, "returned")
        BY <3>2
      <4> HIDE DEF r
      <4> QED BY <1>0, <2>1, <3>2, <4>1, StatusOK
    <3> QED BY <3>1, <3>2
  <2> HIDE DEF r
  <2>6. \A i \in Ioctl :
           /\ r[i].kind = req[i].kind /\ r[i].answered = req[i].answered
           /\ r[i].done = req[i].done /\ r[i].ok = req[i].ok
           /\ \/ r[i].st = req[i].st
              \/ req[i].st = "running" /\ r[i].st = "returned" /\ i = user.ioctl /\ user.node = None
    BY <2>1, <2>4, <2>5 DEF SameWork
  <2> QED BY <2>1, <2>2, <2>3, <2>5, <2>6, SettleFlush
<1> QED BY <1>1, <1>2, <1>3

\* A completed scan.
LEMMA SettleScanDone ==
  ASSUME Engine, ErrorScanDone \/ ScanCompletes
  PROVE  SomeSettled
<1> USE NoneApart
<1>0. /\ Shape /\ Held /\ node \in [Node -> NodeRec] /\ req \in [Ioctl -> Req]
      /\ pscan_ioctl_req \in Ioctl \cup {None}
  BY DEF Engine, Shape, Types
<1> DEFINE S == Some(pscan_ioctl_req)
           r == SetCode(req, S, None)
           yes == TRUE
<1>1. /\ req' = CompleteAll(r, S, yes) /\ pscan_ioctl_req' = None
      /\ UNCHANGED <<user, node>>
  BY DEF ErrorScanDone, ScanCompletes, ScanDone
<1>2. /\ r \in [Ioctl -> Req] /\ SameCall(req, r)
      /\ \A i \in Ioctl : /\ r[i].answered = req[i].answered
                          /\ r[i].done = req[i].done /\ r[i].ok = req[i].ok
  <2>1. None \in Codes
    BY DEF Codes
  <2> QED BY <1>0, <2>1, SetCodeSame
<1>3. yes \in BOOLEAN
  OBVIOUS
<1>4. S = {} \/ S = {pscan_ioctl_req}
  BY DEF Some
<1>5. S \subseteq Ioctl
  BY <1>0 DEF Some
<1>6. \A i \in S : IsScan(i) /\ req[i].st = "pending" /\ req[i].done = 0
  BY <1>0 DEF Held, Some
<1>7. pscan_ioctl_req \in S <=> pscan_ioctl_req # None
  BY DEF Some
<1> HIDE DEF S, r, yes
<1>8. \A i \in Ioctl :
        /\ req'[i].kind = req[i].kind /\ req'[i].answered = req[i].answered
        /\ req'[i].st = req[i].st
        /\ i \notin S => req'[i].done = req[i].done /\ req'[i].ok = req[i].ok
        /\ i \in S => req'[i].done = Bump(req[i].done)
  BY <1>1, <1>2, <1>3, CompleteAllOK, CompleteAllAt DEF SameCall
<1>9. \A n \in Node : node[n].ioctl # None => node[n].ioctl \notin S
  BY <1>0, <1>6 DEF Held, CarriedBy, IsScan, ScanKinds, Carryable
<1>10. \A i \in S : Kind(i) \notin Answerable
  BY <1>6 DEF IsScan, ScanKinds, Answerable
<1>11. Settles(S)
  BY <1>1, <1>5, <1>6, <1>7, <1>8, <1>9, <1>10 DEF Settles
<1> QED BY <1>11 DEF SomeSettled

\* The answer to a command that stops a scan completes the request to cancel.
LEMMA SettleStop ==
  ASSUME Engine, StopCompletes
  PROVE  SomeSettled
<1> USE NoneApart
<1>0. /\ Shape /\ Held /\ Handled /\ node \in [Node -> NodeRec] /\ req \in [Ioctl -> Req]
      /\ main.ioctl \in Ioctl \cup {None}
  BY DEF Engine, Shape, Types, MainRec
<1> DEFINE S == Some(main.ioctl)
           r == SetCode(req, S, None)
           yes == TRUE
<1>1. /\ req' = CompleteAll(r, S, yes) /\ main.pc = "stopped"
      /\ UNCHANGED <<user, node, pscan_ioctl_req>>
  BY DEF StopCompletes, MainAt, scanVars
<1>2. /\ r \in [Ioctl -> Req] /\ SameCall(req, r)
      /\ \A i \in Ioctl : /\ r[i].answered = req[i].answered
                          /\ r[i].done = req[i].done /\ r[i].ok = req[i].ok
  <2>1. None \in Codes
    BY DEF Codes
  <2> QED BY <1>0, <2>1, SetCodeSame
<1>3. yes \in BOOLEAN
  OBVIOUS
<1>5. S \subseteq Ioctl
  BY <1>0 DEF Some
<1>6. \A i \in S : Kind(i) = "cancel" /\ req[i].st = "pending"
  BY <1>0, <1>1 DEF Handled, Carryable, Some
<1>7. pscan_ioctl_req \notin S
  BY <1>0, <1>5, <1>6 DEF Held, IsScan, ScanKinds
<1> HIDE DEF S, r, yes
<1>8. \A i \in Ioctl :
        /\ req'[i].kind = req[i].kind /\ req'[i].answered = req[i].answered
        /\ req'[i].st = req[i].st
        /\ i \notin S => req'[i].done = req[i].done /\ req'[i].ok = req[i].ok
        /\ i \in S => req'[i].done = Bump(req[i].done)
  BY <1>1, <1>2, <1>3, CompleteAllOK, CompleteAllAt DEF SameCall
<1>9. \A n \in Node : node[n].ioctl # None /\ Kind(node[n].ioctl) # "cancel" => node[n].ioctl \notin S
  BY <1>6
<1>10. Settles(S)
  BY <1>1, <1>5, <1>6, <1>7, <1>8, <1>9 DEF Settles, Answerable
<1> QED BY <1>10 DEF SomeSettled

\* What cancelling does to the requests, in the terms of FreeSettles.
LEMMA CancelMarks ==
  ASSUME NEW S, req \in [Ioctl -> Req]
  PROVE  /\ CancelAll(req, S) \in [Ioctl -> Req] /\ SameCall(req, CancelAll(req, S))
         /\ \A i \in Ioctl :
              /\ CancelAll(req, S)[i].answered = req[i].answered
              /\ i \notin S => CancelAll(req, S)[i].done = req[i].done /\ CancelAll(req, S)[i].ok = req[i].ok
              /\ i \in S => CancelAll(req, S)[i].done = Bump(req[i].done) /\ ~CancelAll(req, S)[i].ok
<1>1. CancelAll(req, S) \in [Ioctl -> Req] /\ SameCall(req, CancelAll(req, S))
  BY CancelAllOK
<1>2. \A i \in Ioctl : /\ i \notin S => CancelAll(req, S)[i] = req[i]
                       /\ i \in S => /\ CancelAll(req, S)[i].done = Bump(req[i].done)
                                     /\ CancelAll(req, S)[i].ok = FALSE
                       /\ CancelAll(req, S)[i].answered = req[i].answered
  BY CancelAllAt
<1> QED BY <1>1, <1>2

\* A request that cancels.
LEMMA SettleCancelScan ==
  ASSUME Engine, CancelScan
  PROVE  SomeSettled
<1> USE NoneApart
<1>0. /\ Shape /\ Held /\ Flags /\ node \in [Node -> NodeRec] /\ req \in [Ioctl -> Req]
      /\ user \in UserRec /\ curr_cmd \in Node \cup {None} /\ Apart /\ Control
  BY NotFreeAgain DEF Engine, Shape, Types
<1> DEFINE M == {n \in Some(curr_cmd) : \E i \in Some(node[n].ioctl) : IsScanReq(i)}
           N == {n \in Range(cmd_pending_q) : node[n].scan}
           P == Some(pscan_ioctl_req)
           r == CancelAll(req, P \cup IoctlsOf(M))
           nd == MarkCanceled(node, M)
<1>1. Free(N, r, nd) /\ pscan_ioctl_req' = None /\ (\E p : UserTo(p)) /\ user.pc = "cancel"
  BY DEF CancelScan, UserAt
<1>2. user'.node = user.node /\ user'.ioctl = user.ioctl
  BY <1>0, <1>1 DEF UserTo, UserRec
<1>3. N \in SUBSET Node /\ M \in SUBSET Node /\ P \subseteq Some(pscan_ioctl_req)
  BY <1>0 DEF Apart, Some
<1>4. user.node \notin N \cup M
  BY <1>0, <1>1, <1>3 DEF Control
<1>5. nd \in [Node -> NodeRec]
  BY <1>0, MarkCanceledOK
<1>6. \A n \in Node : /\ nd[n].cmd = node[n].cmd
                      /\ nd[n].ioctl = IF n \in M THEN None ELSE node[n].ioctl
  BY <1>0, MarkCanceledAt
<1>7. r \in [Ioctl -> Req] /\ SameCall(req, r)
  BY <1>0, CancelMarks
<1>8. \A i \in Ioctl :
        /\ r[i].answered = req[i].answered
        /\ i \notin P \cup IoctlsOf(M) => r[i].done = req[i].done /\ r[i].ok = req[i].ok
        /\ i \in P \cup IoctlsOf(M) => r[i].done = Bump(req[i].done) /\ ~r[i].ok
  BY <1>0, CancelMarks
<1>9. \A i \in IoctlsOf(N \ M) : Kind(i) = "cancel"
  <2>1. N \ M \in SUBSET Node /\ \A n \in N \ M : node[n].scan
    BY <1>3
  <2> QED BY <2>1, ScanCarries
<1>10. pscan_ioctl_req' = IF P = {} THEN pscan_ioctl_req ELSE None
  BY <1>1 DEF Some
<1> HIDE DEF M, N, P, r, nd
<1>11. \A i \in Ioctl :
         /\ r[i].kind = req[i].kind /\ r[i].answered = req[i].answered
         /\ \/ r[i].st = req[i].st
            \/ req[i].st = "running" /\ r[i].st = "returned" /\ i = user.ioctl /\ user.node = None
         /\ i \notin P \cup IoctlsOf(M) => r[i].done = req[i].done /\ r[i].ok = req[i].ok
         /\ i \in P \cup IoctlsOf(M) => r[i].done = Bump(req[i].done) /\ ~r[i].ok
  BY <1>7, <1>8 DEF SameCall
<1>12. \A i \in IoctlsOf(N \ M) : Kind(i) \in Answerable /\ r[i].code = None => req[i].answered
  BY <1>9 DEF Answerable
<1>13. \/ user'.ioctl = user.ioctl
       \/ user.node = None /\ (user.ioctl \in Ioctl => r[user.ioctl].st # "running")
  BY <1>2
<1>14. Settles(P \cup IoctlsOf(N \cup M))
  BY <1>0, <1>1, <1>2, <1>3, <1>4, <1>5, <1>6, <1>7, <1>10, <1>11, <1>12, <1>13, FreeSettles, ZenonT(60)
<1> QED BY <1>14 DEF SomeSettled

-----------------------------------------------------------------------------
(* Steps that settle requests: removing an interface and the hang work.    *)

\* An interface that is removed.
LEMMA SettleCancelBss ==
  ASSUME Engine, CancelBss
  PROVE  SomeSettled
<1> USE NoneApart
<1>0. /\ Shape /\ Held /\ Flags /\ node \in [Node -> NodeRec] /\ req \in [Ioctl -> Req]
      /\ user \in UserRec /\ curr_cmd \in Node \cup {None} /\ Apart /\ Control /\ UserKnown
      /\ Types
  BY NotFreeAgain DEF Engine, Shape, Types
<1> DEFINE Mine(i) == Bss(i) = Bss(user.ioctl)
           P == {i \in Some(pscan_ioctl_req) : Mine(i)}
           C == {n \in Some(curr_cmd) : \E i \in Some(node[n].ioctl) : Mine(i)}
           N == {n \in Range(cmd_pending_q) : \E i \in Some(node[n].ioctl) : Mine(i)}
           R == IoctlsOf(C \cup N)
           flash_scan == P # {} \/ \E i \in R : IsScanReq(i)
           s == CancelAll(req, P \cup R)
           r == IF flash_scan THEN s ELSE Status(s, user.ioctl, "returned")
           nd == Detach(MarkCanceled(node, C), N)
           M == C \cup N
<1>1. /\ Free(N, r, nd) /\ user.pc = "bssrm"
      /\ pscan_ioctl_req' = IF P # {} THEN None ELSE pscan_ioctl_req
      /\ IF flash_scan THEN UserTo(IF P # {} THEN "stop" ELSE "flush") ELSE user' = UserIdle
  BY DEF CancelBss, UserAt
<1>2. user.ioctl \in Ioctl /\ user.node = None /\ req[user.ioctl].st = "running"
  BY <1>0, <1>1, UserFacts DEF Control, UserKnown
<1>3. N \in SUBSET Node /\ M \in SUBSET Node /\ C \in SUBSET Node /\ P \subseteq Some(pscan_ioctl_req)
  BY <1>0 DEF Apart, Some
<1>4. user.node \notin N \cup M
  BY <1>2, <1>3
<1>5. /\ nd \in [Node -> NodeRec]
      /\ \A n \in Node : /\ nd[n].cmd = node[n].cmd
                         /\ nd[n].ioctl = IF n \in M THEN None ELSE node[n].ioctl
  <2> DEFINE md == MarkCanceled(node, C)
  <2>1. md \in [Node -> NodeRec]
    BY <1>0, MarkCanceledOK
  <2>2. \A n \in Node : /\ md[n].ioctl = IF n \in C THEN None ELSE node[n].ioctl
                        /\ md[n].cmd = node[n].cmd
    BY <1>0, MarkCanceledAt
  <2> HIDE DEF md, C, N
  <2>3. Detach(md, N) \in [Node -> NodeRec]
    BY <2>1, DetachOK
  <2>4. \A n \in Node : /\ Detach(md, N)[n].ioctl = IF n \in N THEN None ELSE md[n].ioctl
                        /\ Detach(md, N)[n].cmd = md[n].cmd
    BY <2>1, DetachAt
  <2>5. nd = Detach(md, N)
    BY DEF md
  <2>6. \A n \in Node : /\ Detach(md, N)[n].cmd = node[n].cmd
                        /\ Detach(md, N)[n].ioctl = IF n \in M THEN None ELSE node[n].ioctl
    BY <2>2, <2>4
  <2> QED BY <2>3, <2>5, <2>6
<1>6. /\ s \in [Ioctl -> Req] /\ SameCall(req, s)
      /\ \A i \in Ioctl :
           /\ s[i].answered = req[i].answered
           /\ i \notin P \cup IoctlsOf(M) => s[i].done = req[i].done /\ s[i].ok = req[i].ok
           /\ i \in P \cup IoctlsOf(M) => s[i].done = Bump(req[i].done) /\ ~s[i].ok
  BY <1>0, CancelMarks
<1>7. r = s \/ (r = Status(s, user.ioctl, "returned") /\ user' = UserIdle)
  BY <1>1
<1>8. \/ UserTo("stop") \/ UserTo("flush")
      \/ user' = UserIdle /\ r = Status(s, user.ioctl, "returned")
  BY <1>1
<1>9. pscan_ioctl_req' = IF P = {} THEN pscan_ioctl_req ELSE None
  BY <1>1
<1>10. N \ M = {}
  OBVIOUS
<1> HIDE DEF Mine, P, C, N, R, flash_scan, s, r, nd, M
<1>11. r \in [Ioctl -> Req] /\ \A i \in Ioctl :
         /\ r[i].kind = s[i].kind /\ r[i].answered = s[i].answered
         /\ r[i].done = s[i].done /\ r[i].ok = s[i].ok
         /\ r[i].st = s[i].st \/ (i = user.ioctl /\ r[i].st = "returned")
  <2>1. CASE r = s
    BY <1>6, <2>1
  <2>2. CASE r = Status(s, user.ioctl, "returned")
    BY <1>2, <1>6, <2>2, StatusOK DEF SameWork
  <2> QED BY <1>7, <2>1, <2>2
<1>12. user'.node = user.node
  BY <1>0, <1>2, <1>8 DEF UserTo, UserRec, UserIdle
<1>13. \/ user'.ioctl = user.ioctl
       \/ user.node = None /\ (user.ioctl \in Ioctl => r[user.ioctl].st # "running")
  <2>1. CASE UserTo("stop") \/ UserTo("flush")
    BY <1>0, <2>1 DEF UserTo, UserRec
  <2>2. CASE r = Status(s, user.ioctl, "returned")
    BY <1>2, <1>6, <2>2, StatusOK
  <2> QED BY <1>8, <2>1, <2>2
<1>14. \A i \in Ioctl :
         /\ r[i].kind = req[i].kind /\ r[i].answered = req[i].answered
         /\ \/ r[i].st = req[i].st
            \/ req[i].st = "running" /\ r[i].st = "returned" /\ i = user.ioctl /\ user.node = None
         /\ i \notin P \cup IoctlsOf(M) => r[i].done = req[i].done /\ r[i].ok = req[i].ok
         /\ i \in P \cup IoctlsOf(M) => r[i].done = Bump(req[i].done) /\ ~r[i].ok
  BY <1>2, <1>6, <1>11 DEF SameCall
<1>15. \A i \in IoctlsOf(N \ M) : Kind(i) \in Answerable /\ r[i].code = None => req[i].answered
  BY <1>10 DEF IoctlsOf
<1>16. r \in [Ioctl -> Req] /\ nd \in [Node -> NodeRec]
       /\ \A n \in Node : /\ nd[n].cmd = node[n].cmd
                          /\ nd[n].ioctl = IF n \in M THEN None ELSE node[n].ioctl
  BY <1>5, <1>11
<1>17. Settles(P \cup IoctlsOf(N \cup M))
  BY <1>0, <1>1, <1>3, <1>4, <1>9, <1>12, <1>13, <1>14, <1>15, <1>16, FreeSettles, ZenonT(60)
<1> QED BY <1>17 DEF SomeSettled

\* The hang work.
LEMMA SettleHang ==
  ASSUME Engine, HangCancel \/ HangFlushExt
  PROVE  SomeSettled
<1> USE NoneApart
<1>0. /\ Shape /\ Held /\ node \in [Node -> NodeRec] /\ req \in [Ioctl -> Req]
      /\ user \in UserRec /\ curr_cmd \in Node \cup {None} /\ Apart
  BY NotFreeAgain DEF Engine, Shape, Types
<1>1. ASSUME NEW N \in SUBSET Node, NEW M \in SUBSET Node, NEW P, P \subseteq Some(pscan_ioctl_req),
             N \subseteq M, user.node \notin M,
             Free(N, CancelAll(req, P \cup IoctlsOf(M)), Detach(node, M)),
             pscan_ioctl_req' = IF P = {} THEN pscan_ioctl_req ELSE None,
             user' = user
      PROVE  SomeSettled
  <2> DEFINE r == CancelAll(req, P \cup IoctlsOf(M))
             nd == Detach(node, M)
  <2>1. r \in [Ioctl -> Req] /\ SameCall(req, r) /\ Free(N, r, nd)
    BY <1>0, <1>1, CancelMarks
  <2>2. \A i \in Ioctl :
          /\ r[i].answered = req[i].answered
          /\ i \notin P \cup IoctlsOf(M) => r[i].done = req[i].done /\ r[i].ok = req[i].ok
          /\ i \in P \cup IoctlsOf(M) => r[i].done = Bump(req[i].done) /\ ~r[i].ok
    BY <1>0, CancelMarks
  <2>3. nd \in [Node -> NodeRec]
        /\ \A n \in Node : /\ nd[n].cmd = node[n].cmd
                           /\ nd[n].ioctl = IF n \in M THEN None ELSE node[n].ioctl
    BY <1>0, DetachOK, DetachAt
  <2> HIDE DEF r, nd
  <2>4. \A i \in Ioctl :
         /\ r[i].kind = req[i].kind /\ r[i].answered = req[i].answered
         /\ \/ r[i].st = req[i].st
            \/ req[i].st = "running" /\ r[i].st = "returned" /\ i = user.ioctl /\ user.node = None
         /\ i \notin P \cup IoctlsOf(M) => r[i].done = req[i].done /\ r[i].ok = req[i].ok
         /\ i \in P \cup IoctlsOf(M) => r[i].done = Bump(req[i].done) /\ ~r[i].ok
    BY <2>1, <2>2 DEF SameCall
  <2>5. \A i \in IoctlsOf(N \ M) : Kind(i) \in Answerable /\ r[i].code = None => req[i].answered
    BY <1>1 DEF IoctlsOf
  <2>6. user.node \notin N \cup M
    BY <1>1
  <2>7. /\ user'.node = user.node
        /\ \/ user'.ioctl = user.ioctl
           \/ user.node = None /\ (user.ioctl \in Ioctl => r[user.ioctl].st # "running")
    BY <1>1
  <2>8. Settles(P \cup IoctlsOf(N \cup M))
    BY <1>0, <1>1, <2>1, <2>3, <2>4, <2>5, <2>6, <2>7, FreeSettles, ZenonT(60)
  <2> QED BY <2>8 DEF SomeSettled
<1>2. CASE HangCancel
  <2> DEFINE N == Range(cmd_pending_q)
             M == N \cup Some(curr_cmd)
             P == Some(pscan_ioctl_req)
  <2>1. /\ Free(N, CancelAll(req, P \cup IoctlsOf(M)), Detach(node, M))
        /\ pscan_ioctl_req' = None /\ user' = user
    BY <1>2 DEF HangCancel, flag
  <2>2. N \in SUBSET Node /\ M \in SUBSET Node
    BY <1>0 DEF Apart, Some
  <2>3. user.node \notin M
    BY <1>0, <2>2 DEF Apart, Some
  <2>4. pscan_ioctl_req' = IF P = {} THEN pscan_ioctl_req ELSE None
    BY <2>1 DEF Some
  <2>5. N \subseteq M /\ P \subseteq Some(pscan_ioctl_req)
    OBVIOUS
  <2> HIDE DEF N, M, P
  <2> QED BY <1>1, <2>1, <2>2, <2>3, <2>4, <2>5
<1>3. CASE HangFlushExt
  <2> DEFINE N == Range(ext_cmd_pending_q)
             P == {}
  <2>1. /\ Free(N, CancelAll(req, IoctlsOf(N)), Detach(node, N))
        /\ pscan_ioctl_req' = pscan_ioctl_req /\ user' = user
    BY <1>3 DEF HangFlushExt, Deferred, scanVars
  <2>2. N \in SUBSET Node /\ user.node \notin N
    BY <1>0 DEF Apart
  <2>3. P \cup IoctlsOf(N) = IoctlsOf(N) /\ P = {} /\ P \subseteq Some(pscan_ioctl_req)
    OBVIOUS
  <2> HIDE DEF N, P
  <2>4. Free(N, CancelAll(req, P \cup IoctlsOf(N)), Detach(node, N))
    BY <2>1, <2>3
  <2>5. pscan_ioctl_req' = IF P = {} THEN pscan_ioctl_req ELSE None
    BY <2>1, <2>3
  <2> QED BY <1>1, <2>1, <2>2, <2>3, <2>4, <2>5
<1> QED BY <1>2, <1>3

\* The steps that may issue or return a request, or give it to a node.
UserMove ==
  \/ \E i \in Ioctl : Request(i) \/ Enter(i)
  \/ GetCmdNode \/ NoCmdNode \/ PrepareFails \/ PrepareQueues \/ ScanStart \/ FwRespond

\* Every other step completes some requests, perhaps none.
LEMMA SettleStep ==
  ASSUME Engine, [Next]_vars, ~UserMove
  PROVE  SomeSettled
<1>1. \/ ExecNextCmd \/ DnldCurrent \/ DnldSent \/ NoRespDone \/ DnldArm \/ DownloadDone
      \/ RxCmdResp \/ RespTaken \/ HandlePreAsleep \/ HandleOk \/ ScanReport \/ ScanStatus
      \/ StatusStopsTimer \/ MoveDeferred \/ TimerStep \/ StopDecide \/ UNCHANGED vars
      \/ DnldFails \/ NoRespFree \/ RespCanceled \/ HandleInvalid \/ ErrorFree \/ RespTail
      \/ HandleError \/ HangFlushScan \/ CancelFlush \/ ErrorScanDone \/ ScanCompletes
      \/ StopCompletes \/ CancelScan \/ CancelBss \/ HangCancel \/ HangFlushExt
  BY Zenon DEF Next, UserMove, UserStep, MainStep, DnldStep, RespStep, EventStep, HangStep
<1> QED BY <1>1, SettleQuiet, SettleResponse, SettleFlushes, SettleScanDone, SettleStop,
           SettleCancelScan, SettleCancelBss, SettleHang

-----------------------------------------------------------------------------
(* Steps that move requests.                                               *)

\* What a move leaves of the requests.
SameReq(i) ==
  /\ req'[i].kind = req[i].kind /\ req'[i].answered = req[i].answered
  /\ req'[i].done = req[i].done /\ req'[i].ok = req[i].ok

SameNode(n) == node'[n].ioctl = node[n].ioctl /\ node'[n].cmd = node[n].cmd

\* A move of requests that no node carries and that are not scans.
LEMMA MoveHeld ==
  ASSUME Shape, Known, Held, Types',
         \A i \in Ioctl : SameReq(i), \A n \in Node : SameNode(n),
         UNCHANGED pscan_ioctl_req,
         \A i \in Ioctl : req[i].st \in {"pending"} => req'[i].st = req[i].st,
         \A n \in Node : LET i == node[n].ioctl
                         IN i # None => \/ req'[i].st = "pending" /\ n # user'.node
                                        \/ /\ req'[i].st = "running"
                                           /\ user'.ioctl = i /\ n = user'.node,
         \A i \in Ioctl : req'[i].st = "running" => user'.ioctl = i,
         \A i \in Ioctl : req'[i].st = "pending" /\ req[i].st # "pending" =>
           /\ Kind(i) \notin {"bssrm", "unused"}
           /\ Kind(i) \in Carryable => user.node # None /\ i = user.ioctl,
         user'.node # None => user'.node = user.node /\ user'.ioctl = user.ioctl
  PROVE  Known' /\ Held'
<1> USE NoneApart
<1>0. /\ node \in [Node -> NodeRec] /\ req \in [Ioctl -> Req] /\ req' \in [Ioctl -> Req]
      /\ pscan_ioctl_req \in Ioctl \cup {None} /\ user \in UserRec
  BY DEF Shape, Types
<1>n. \A n \in Node : node[n].ioctl \in Ioctl \cup {None}
  BY <1>0 DEF NodeRec
<1>k. \A i \in Ioctl : Kind(i)' = Kind(i)
  BY DEF Kind, SameReq
<1>1. Known'
  BY <1>k DEF Known, SameReq, Kind
<1>2. ASSUME NEW n \in Node, node'[n].ioctl # None
      PROVE  CarriedBy(n, node[n].ioctl)' /\ node'[n].ioctl = node[n].ioctl
  <2>1. node'[n].ioctl = node[n].ioctl /\ node'[n].cmd = node[n].cmd /\ node[n].ioctl \in Ioctl
    BY <1>2, <1>n DEF SameNode
  <2>2. CarriedBy(n, node[n].ioctl)
    BY <1>2, <2>1 DEF Held
  <2>3. \/ req'[node[n].ioctl].st = "pending" /\ n # user'.node
        \/ /\ req'[node[n].ioctl].st = "running"
           /\ user'.ioctl = node[n].ioctl /\ n = user'.node
    BY <1>2, <2>1
  <2> QED BY <1>k, <2>1, <2>2, <2>3 DEF CarriedBy, SameReq
<1>3. pscan_ioctl_req' # None =>
        (IsScan(pscan_ioctl_req) /\ req[pscan_ioctl_req].st = "pending" /\ req[pscan_ioctl_req].done = 0)'
  BY <1>0 DEF Held, IsScan, Kind, SameReq
<1>4. ASSUME NEW i \in Ioctl, req'[i].st = "pending", req'[i].done = 0, Kind(i)' \in Carryable
      PROVE  \E n \in Node : node'[n].ioctl = i
  <2>1. CASE req[i].st = "pending"
    BY <1>4, <1>k, <2>1 DEF Held, SameReq, SameNode
  <2>2. CASE req[i].st # "pending"
    BY <1>0, <1>4, <1>k, <2>2 DEF Held, SameNode, UserRec
  <2> QED BY <2>1, <2>2
<1>5. \A m, n \in Node : node'[m].ioctl # None /\ node'[m].ioctl = node'[n].ioctl => m = n
  BY <1>2 DEF Held
<1>6. (user.node # None /\ Kind(user.ioctl) \in Carryable => node[user.node].ioctl = user.ioctl)'
  <2>1. SUFFICES ASSUME user'.node # None, Kind(user.ioctl)' \in Carryable
                 PROVE  node'[user'.node].ioctl = user'.ioctl
    OBVIOUS
  <2>2. /\ user'.node = user.node /\ user'.ioctl = user.ioctl /\ user.node \in Node
        /\ user.pc = "queue" /\ user.ioctl \in Ioctl
    BY <2>1, UserFacts DEF Shape, Types, UserRec, Control
  <2>3. Kind(user.ioctl) \in Carryable
    BY <1>k, <2>1, <2>2 DEF Kind
  <2> QED BY <2>2, <2>3 DEF Held, SameNode
<1> QED BY <1>1, <1>2, <1>3, <1>4, <1>5, <1>6 DEF Held

\* The node in the hands of the user carries the user's request, if it may.
LEMMA UserCarries ==
  ASSUME Shape, Held, NEW n \in Node, node[n].ioctl # None
  PROVE  LET i == node[n].ioctl
         IN /\ i \in Ioctl
            /\ \/ req[i].st = "pending" /\ n # user.node
               \/ req[i].st = "running" /\ user.ioctl = i /\ n = user.node
  BY DEF Held, CarriedBy, Shape, Types, NodeRec

\* Issuing, entering and failing at once move requests nobody holds.
LEMMA KnownHeldStatus ==
  ASSUME Shape, Known, Held, Types', UNCHANGED <<node, pscan_ioctl_req>>,
         \/ \E i \in Ioctl : Request(i) \/ Enter(i)
         \/ NoCmdNode
  PROVE  Known' /\ Held'
<1> USE NoneApart
<1>0. /\ Types /\ Control /\ UserKnown
      /\ node \in [Node -> NodeRec] /\ req \in [Ioctl -> Req] /\ user \in UserRec
  BY DEF Shape, Types
<1>n. \A n \in Node : SameNode(n)
  BY DEF SameNode
<1>1. ASSUME NEW i \in Ioctl, Request(i) PROVE Known' /\ Held'
  <2>1. req[i].st = "new" /\ req' = Status(req, i, "admitted") /\ user' = user
    BY <1>1 DEF Request
  <2>2. /\ req'[i].st = "admitted" /\ \A j \in Ioctl \ {i} : req'[j] = req[j]
        /\ \A j \in Ioctl : SameReq(j)
    BY <1>0, <2>1, StatusOK DEF SameWork, SameReq
  <2>3. \A n \in Node : LET j == node[n].ioctl
                        IN j # None => \/ req'[j].st = "pending" /\ n # user'.node
                                       \/ /\ req'[j].st = "running"
                                          /\ user'.ioctl = j /\ n = user'.node
    BY <2>1, <2>2, UserCarries
  <2>4. \A j \in Ioctl : req'[j].st = "running" => user'.ioctl = j
    BY <2>1, <2>2 DEF Known
  <2>5. \A j \in Ioctl : /\ req[j].st \in {"pending"} => req'[j].st = req[j].st
                         /\ ~(req'[j].st = "pending" /\ req[j].st # "pending")
    BY <2>1, <2>2
  <2> QED BY <1>n, <2>1, <2>2, <2>3, <2>4, <2>5, MoveHeld
<1>2. ASSUME NEW i \in Ioctl, Enter(i) PROVE Known' /\ Held'
  <2>1. /\ user.pc = "idle" /\ user.ioctl = None /\ user.node = None /\ req[i].st = "admitted"
        /\ \/ req' = Status(req, i, "returned") /\ user' = user
           \/ req' = Status(req, i, "running") /\ user'.ioctl = i /\ user'.node = None
    BY <1>0, <1>2 DEF Enter, UserAt, Control
  <2>2. /\ \A j \in Ioctl \ {i} : req'[j] = req[j]
        /\ \A j \in Ioctl : SameReq(j)
        /\ \/ req'[i].st = "returned" /\ user' = user
           \/ req'[i].st = "running" /\ user'.ioctl = i /\ user'.node = None
    BY <1>0, <2>1, StatusOK DEF SameWork, SameReq
  <2>3. \A n \in Node : LET j == node[n].ioctl
                        IN j # None => \/ req'[j].st = "pending" /\ n # user'.node
                                       \/ /\ req'[j].st = "running"
                                          /\ user'.ioctl = j /\ n = user'.node
    BY <2>1, <2>2, UserCarries
  <2>4. \A j \in Ioctl : req'[j].st = "running" => user'.ioctl = j
    BY <2>1, <2>2 DEF Known
  <2>5. \A j \in Ioctl : /\ req[j].st \in {"pending"} => req'[j].st = req[j].st
                         /\ ~(req'[j].st = "pending" /\ req[j].st # "pending")
    BY <2>1, <2>2
  <2>6. user'.node # None => user'.node = user.node /\ user'.ioctl = user.ioctl
    BY <2>2
  <2> QED BY <1>n, <2>1, <2>2, <2>3, <2>4, <2>5, <2>6, MoveHeld
<1>3. CASE NoCmdNode
  <2>1. /\ user.pc = "get" /\ user.ioctl \in Ioctl /\ user.node = None
        /\ req[user.ioctl].st = "running"
        /\ \/ UserTo("flush") /\ req' = req
           \/ user' = UserIdle /\ req' = Status(req, user.ioctl, "returned")
    BY <1>0, <1>3, UserFacts DEF NoCmdNode, UserAt, UserReturn, Control, UserKnown
  <2>2. /\ \A j \in Ioctl \ {user.ioctl} : req'[j] = req[j]
        /\ \A j \in Ioctl : SameReq(j)
        /\ user'.node = None
        /\ \/ req'[user.ioctl].st = "returned" /\ user'.ioctl = None
           \/ req' = req /\ user'.ioctl = user.ioctl
    <3>1. CASE UserTo("flush") /\ req' = req
      BY <1>0, <2>1, <3>1 DEF SameReq, UserTo, UserRec
    <3>2. CASE user' = UserIdle /\ req' = Status(req, user.ioctl, "returned")
      <4>1. user'.node = None /\ user'.ioctl = None
        BY <3>2 DEF UserIdle
      <4> QED BY <1>0, <2>1, <3>2, <4>1, StatusOK DEF SameWork, SameReq
    <3> QED BY <2>1, <3>1, <3>2
  <2>3. \A n \in Node : LET j == node[n].ioctl
                        IN j # None => \/ req'[j].st = "pending" /\ n # user'.node
                                       \/ /\ req'[j].st = "running"
                                          /\ user'.ioctl = j /\ n = user'.node
    BY <2>1, <2>2, UserCarries
  <2>4. \A j \in Ioctl : req'[j].st = "running" => user'.ioctl = j
    BY <2>1, <2>2 DEF Known
  <2>5. \A j \in Ioctl : /\ req[j].st \in {"pending"} => req'[j].st = req[j].st
                         /\ ~(req'[j].st = "pending" /\ req[j].st # "pending")
    BY <2>1, <2>2
  <2> QED BY <1>n, <2>1, <2>2, <2>3, <2>4, <2>5, MoveHeld
<1> QED BY <1>1, <1>2, <1>3

\* The user takes a node.
LEMMA KnownHeldGet ==
  ASSUME Shape, Known, Held, Types', Shape', [Next]_vars, GetCmdNode
  PROVE  Known' /\ Held'
<1> USE NoneApart
<1>0. /\ Types /\ Control /\ UserKnown
      /\ node \in [Node -> NodeRec] /\ req \in [Ioctl -> Req] /\ user \in UserRec
  BY DEF Shape, Types
<1>1. /\ user.pc = "get" /\ user.ioctl \in Ioctl /\ user.node = None
      /\ req[user.ioctl].st = "running" /\ req[user.ioctl].done = 0
      /\ Kind(user.ioctl) \in Kinds /\ Kind(user.ioctl) # "unused"
      /\ UNCHANGED <<req, pscan_ioctl_req>>
  BY <1>0, UserFacts DEF GetCmdNode, UserAt, Control, UserKnown, Known, scanVars
<1>2. PICK h \in cmd_free_q :
        /\ cmd_free_q' = cmd_free_q \ {h}
        /\ \A m \in Node \ {h} : node'[m] = node[m]
        /\ user'.node = h
  <2>1. PICK h \in cmd_free_q :
          /\ cmd_free_q' = cmd_free_q \ {h}
          /\ node' = [node EXCEPT ![h] = [Blank EXCEPT !.cmd = CmdOf(user.ioctl),
                                                      !.ioctl = Carried(user.ioctl)]]
          /\ user' = [user EXCEPT !.pc = "queue", !.node = h]
    BY DEF GetCmdNode
  <2> QED BY <1>0, <2>1 DEF UserRec
<1>3. /\ h \in Node /\ node'[h].cmd = CmdOf(user.ioctl) /\ node'[h].ioctl = Carried(user.ioctl)
      /\ user'.ioctl = user.ioctl
  BY <1>2, NodeTaken, ShapeFacts
<1>k. \A i \in Ioctl : Kind(i)' = Kind(i)
  BY <1>1 DEF Kind
<1>4. Known'
  BY <1>1, <1>3, <1>k DEF Known
\* Nobody carries the request yet.
<1>5. \A m \in Node : node[m].ioctl # None => /\ node[m].ioctl # user.ioctl
                                              /\ req[node[m].ioctl].st = "pending"
  BY <1>1, UserCarries
<1>6. node'[h].ioctl # None =>
        /\ node'[h].ioctl = user.ioctl
        /\ \/ Kind(user.ioctl) = "cancel" /\ node'[h].cmd = "stop"
           \/ Kind(user.ioctl) \in Carryable /\ node'[h].cmd = Kind(user.ioctl)
  BY <1>1, <1>3 DEF Carried, CmdOf, IsScan, ScanKinds, Kinds, Carryable
<1>7. ASSUME NEW n \in Node, node'[n].ioctl # None
      PROVE  CarriedBy(n, node[n].ioctl)'
  <2>1. CASE n = h
    BY <1>1, <1>2, <1>3, <1>6, <1>7, <1>k, <2>1 DEF CarriedBy
  <2>2. CASE n # h
    <3>1. node'[n] = node[n] /\ node[n].ioctl # None /\ node[n].ioctl \in Ioctl
      BY <1>0, <1>2, <1>7, <2>2 DEF NodeRec
    <3>2. CarriedBy(n, node[n].ioctl) /\ req'[node[n].ioctl].st = "pending"
      BY <1>1, <1>5, <3>1 DEF Held
    <3> QED BY <1>1, <1>2, <1>k, <2>2, <3>1, <3>2 DEF CarriedBy
  <2> QED BY <2>1, <2>2
<1>8. \A m, n \in Node : node'[m].ioctl # None /\ node'[m].ioctl = node'[n].ioctl => m = n
  <2>1. ASSUME NEW m \in Node, NEW n \in Node, node'[m].ioctl # None, node'[m].ioctl = node'[n].ioctl
        PROVE  m = n
    <3>1. CASE m = h /\ n # h
      BY <1>2, <1>5, <1>6, <2>1, <3>1
    <3>2. CASE m # h /\ n = h
      BY <1>2, <1>5, <1>6, <2>1, <3>2
    <3>3. CASE m # h /\ n # h
      BY <1>2, <2>1, <3>3 DEF Held
    <3> QED BY <3>1, <3>2, <3>3
  <2> QED BY <2>1
<1>9. pscan_ioctl_req' # None =>
        (IsScan(pscan_ioctl_req) /\ req[pscan_ioctl_req].st = "pending" /\ req[pscan_ioctl_req].done = 0)'
  BY <1>1 DEF Held, IsScan, Kind
<1>10. ASSUME NEW i \in Ioctl, req'[i].st = "pending", req'[i].done = 0, Kind(i)' \in Carryable
       PROVE  \E n \in Node : node'[n].ioctl = i
  <2>1. PICK n \in Node : node[n].ioctl = i
    BY <1>1, <1>10, <1>k DEF Held
  <2>2. node[h] = Blank
    BY DEF Shape, FreeBlank
  <2>3. Blank.ioctl = None
    BY DEF Blank
  <2>4. n # h
    BY <2>1, <2>2, <2>3
  <2> QED BY <1>2, <2>1, <2>4
<1>11. (Kind(user.ioctl) \in Carryable => node[user.node].ioctl = user.ioctl)'
  <2>1. SUFFICES ASSUME Kind(user.ioctl)' \in Carryable
                 PROVE  node'[user'.node].ioctl = user'.ioctl
    OBVIOUS
  <2>2. Kind(user.ioctl) \in Carryable
    BY <1>1, <1>3, <1>k, <2>1 DEF Kind
  <2> QED BY <1>2, <1>3, <2>2 DEF Carried, Carryable, IsScan, ScanKinds
<1> QED BY <1>4, <1>7, <1>8, <1>9, <1>10, <1>11 DEF Held

-----------------------------------------------------------------------------
(* Known and Held are preserved.                                           *)

\* A move that leaves the request of the user unprepared.
LEMMA FailsReq ==
  ASSUME Shape, PrepareFails
  PROVE  /\ user.ioctl \in Ioctl /\ req[user.ioctl].st = "running"
         /\ req' = Status(req, user.ioctl, "returned")
<1> USE NoneApart
<1>0. /\ Types /\ Control /\ UserKnown
      /\ node \in [Node -> NodeRec] /\ req \in [Ioctl -> Req] /\ user \in UserRec
  BY DEF Shape, Types
<1>1. /\ user.pc = "queue" /\ user.ioctl \in Ioctl /\ user.node \in Node
      /\ req[user.ioctl].st = "running"
  BY <1>0, UserFacts DEF PrepareFails, UserAt, Control, UserKnown, UserRec
<1> DEFINE r == Status(req, user.ioctl, "returned")
           nd == Detach(node, {user.node})
           none == {}
<1>2. Free({user.node}, r, nd)
  BY DEF PrepareFails, Unbuilt
<1>3. r \in [Ioctl -> Req]
  BY <1>0, <1>1, StatusOK
<1>4. nd[user.node].ioctl = None
  BY <1>0, <1>1, DetachAt
<1>5. {nd[n].ioctl : n \in {user.node}} \ {None} = none
  BY <1>4
<1> HIDE DEF r, nd
<1>6. req' = CompleteByCode(r, none)
  BY <1>2, <1>5 DEF Free
<1>7. \A i \in Ioctl : CompleteByCode(r, none)[i] = r[i]
  BY <1>3 DEF CompleteByCode
<1>8. CompleteByCode(r, none) = [i \in Ioctl |-> CompleteByCode(r, none)[i]]
  BY DEF CompleteByCode
<1> HIDE DEF none
<1>9. r = [i \in Ioctl |-> r[i]]
  BY <1>3
<1> QED BY <1>1, <1>6, <1>7, <1>8, <1>9 DEF r

\* A command that cannot be built gives its request back.
LEMMA KnownHeldFails ==
  ASSUME Shape, Known, Held, Types', PrepareFails
  PROVE  Known' /\ Held'
<1> USE NoneApart
<1>0. /\ Types /\ Control /\ UserKnown
      /\ node \in [Node -> NodeRec] /\ req \in [Ioctl -> Req] /\ user \in UserRec
  BY DEF Shape, Types
<1>1. /\ user.pc = "queue" /\ user.ioctl \in Ioctl /\ user.node \in Node
      /\ req[user.ioctl].st = "running" /\ user' = UserIdle
      /\ UNCHANGED pscan_ioctl_req
  BY <1>0, UserFacts DEF PrepareFails, UserAt, Control, UserKnown, scanVars, UserRec
<1> DEFINE r == Status(req, user.ioctl, "returned")
           nd == Detach(node, {user.node})
<1>2. Free({user.node}, r, nd)
  BY DEF PrepareFails, Unbuilt
<1>3. /\ r \in [Ioctl -> Req] /\ r[user.ioctl].st = "returned"
      /\ \A j \in Ioctl \ {user.ioctl} : r[j] = req[j]
      /\ SameWork(req, r)
  BY <1>0, <1>1, StatusOK
<1>4. \A n \in Node : nd[n].ioctl = (IF n = user.node THEN None ELSE node[n].ioctl)
                      /\ nd[n].cmd = node[n].cmd
  BY <1>0, DetachAt
<1>5. req' = r
  BY FailsReq
<1>6. \A n \in Node : n = user.node => node'[n].ioctl = None
  <2>1. node'[user.node] = Blank
    BY <1>1, <1>2 DEF Free
  <2> QED BY <2>1 DEF Blank
<1>7. \A n \in Node : n # user.node => node'[n].ioctl = node[n].ioctl /\ node'[n].cmd = node[n].cmd
  <2>1. \A n \in Node : n # user.node => node'[n] = nd[n]
    BY <1>2 DEF Free
  <2> HIDE DEF nd
  <2> QED BY <1>4, <2>1
<1> HIDE DEF r, nd
<1>8. user'.ioctl = None /\ user'.node = None
  BY <1>1 DEF UserIdle
<1>k. \A i \in Ioctl : Kind(i)' = Kind(i) /\ SameReq(i)
  BY <1>3, <1>5 DEF Kind, SameWork, SameReq
<1>9. Known'
  BY <1>1, <1>3, <1>5, <1>8, <1>k DEF Known, SameReq
<1>10. ASSUME NEW n \in Node, node'[n].ioctl # None
       PROVE  CarriedBy(n, node[n].ioctl)' /\ node'[n].ioctl = node[n].ioctl
  <2>1. n # user.node /\ node'[n].ioctl = node[n].ioctl /\ node'[n].cmd = node[n].cmd
    BY <1>6, <1>7, <1>10
  <2>2. CarriedBy(n, node[n].ioctl) /\ node[n].ioctl \in Ioctl
    BY <1>0, <1>10, <2>1 DEF Held, NodeRec
  <2>3. req'[node[n].ioctl] = req[node[n].ioctl] /\ req[node[n].ioctl].st = "pending"
    BY <1>1, <1>3, <1>5, <2>1, <2>2 DEF CarriedBy
  <2> QED BY <1>8, <1>k, <2>1, <2>2, <2>3 DEF CarriedBy
<1>11. pscan_ioctl_req' # None =>
         (IsScan(pscan_ioctl_req) /\ req[pscan_ioctl_req].st = "pending" /\ req[pscan_ioctl_req].done = 0)'
  <2>1. pscan_ioctl_req # None => pscan_ioctl_req \in Ioctl /\ pscan_ioctl_req # user.ioctl
    BY <1>0, <1>1 DEF Types, Held
  <2> QED BY <1>1, <1>3, <1>5, <1>k, <2>1 DEF Held, IsScan, Kind
<1>12. ASSUME NEW i \in Ioctl, req'[i].st = "pending", req'[i].done = 0, Kind(i)' \in Carryable
       PROVE  \E n \in Node : node'[n].ioctl = i
  <2>1. req[i].st = "pending" /\ req[i].done = 0 /\ Kind(i) \in Carryable
    BY <1>3, <1>5, <1>12, <1>k DEF SameReq
  <2>2. PICK n \in Node : node[n].ioctl = i
    BY <2>1 DEF Held
  <2>3. n # user.node
    BY <2>1, <2>2, UserCarries
  <2> QED BY <1>7, <2>2, <2>3
<1>13. \A m, n \in Node : node'[m].ioctl # None /\ node'[m].ioctl = node'[n].ioctl => m = n
  BY <1>10 DEF Held
<1> QED BY <1>8, <1>9, <1>10, <1>11, <1>12, <1>13 DEF Held

\* A command that is queued carries its request from now on.
LEMMA KnownHeldQueues ==
  ASSUME Shape, Known, Held, Types', PrepareQueues
  PROVE  Known' /\ Held'
<1> USE NoneApart
<1>0. /\ Types /\ Control /\ UserKnown
      /\ node \in [Node -> NodeRec] /\ req \in [Ioctl -> Req] /\ user \in UserRec
  BY DEF Shape, Types
<1>1. /\ user.pc = "queue" /\ user.ioctl \in Ioctl /\ user.node \in Node
      /\ req[user.ioctl].st = "running" /\ Kind(user.ioctl) \in Kinds
      /\ Kind(user.ioctl) # "unused" /\ UNCHANGED pscan_ioctl_req
  BY <1>0, UserFacts DEF PrepareQueues, UserAt, Control, UserKnown, scanVars, UserRec
<1>2. \A n \in Node : SameNode(n)
  <2>1. PICK b : node' = [node EXCEPT ![user.node].scan = b]
    BY DEF PrepareQueues, Enqueue
  <2> QED BY <1>0, <2>1 DEF NodeRec, SameNode
<1>3. \/ /\ Kind(user.ioctl) \in ScanKinds \cup {"bssrm"} /\ req' = req
         /\ user'.node = None /\ user'.ioctl = user.ioctl
      \/ /\ Kind(user.ioctl) = "cancel" /\ req' = Status(req, user.ioctl, "pending")
         /\ user'.node = None /\ user'.ioctl = user.ioctl
      \/ /\ Kind(user.ioctl) \notin ScanKinds \cup {"cancel", "bssrm"}
         /\ req' = Status(req, user.ioctl, "pending")
         /\ user'.node = None /\ user'.ioctl = None
  <2>1. \/ /\ IsScan(user.ioctl) /\ req' = req
           /\ \E t, p : user' = [user EXCEPT !.pc = p, !.node = None, !.todo = t]
        \/ /\ Kind(user.ioctl) \in {"cancel", "bssrm"}
           /\ user' = [user EXCEPT !.pc = "flush", !.node = None]
           /\ req' = IF Kind(user.ioctl) = "cancel" THEN Status(req, user.ioctl, "pending") ELSE req
        \/ /\ Kind(user.ioctl) \notin ScanKinds \cup {"cancel", "bssrm"}
           /\ user' = UserIdle /\ req' = Status(req, user.ioctl, "pending")
    BY DEF PrepareQueues, UserReturn
  <2>2. CASE IsScan(user.ioctl)
    BY <1>0, <2>1, <2>2 DEF IsScan, UserRec, ScanKinds
  <2>3. CASE Kind(user.ioctl) \in {"cancel", "bssrm"}
    BY <1>0, <2>1, <2>3 DEF IsScan, UserRec, ScanKinds
  <2>4. CASE Kind(user.ioctl) \notin ScanKinds \cup {"cancel", "bssrm"}
    <3>1. user' = UserIdle /\ req' = Status(req, user.ioctl, "pending")
      BY <2>1, <2>4 DEF IsScan
    <3>2. user'.node = None /\ user'.ioctl = None
      BY <3>1 DEF UserIdle
    <3> QED BY <2>4, <3>1, <3>2
  <2> QED BY <2>2, <2>3, <2>4 DEF IsScan
<1>4. /\ \A j \in Ioctl \ {user.ioctl} : req'[j] = req[j]
      /\ \A j \in Ioctl : SameReq(j)
      /\ \/ Kind(user.ioctl) \in ScanKinds \cup {"bssrm"} /\ req' = req /\ user'.ioctl = user.ioctl
         \/ Kind(user.ioctl) \in Carryable \cup {"cancel"} /\ req'[user.ioctl].st = "pending"
      /\ user'.node = None
  <2>1. CASE req' = req
    BY <1>3, <2>1, <1>1, <1>0, StatusOK DEF SameReq
  <2>2. CASE req' = Status(req, user.ioctl, "pending")
    BY <1>0, <1>1, <1>3, <2>2, StatusOK DEF SameReq, SameWork, Kinds, ScanKinds, Carryable
  <2> QED BY <1>3, <2>1, <2>2
<1>5. \A n \in Node : LET j == node[n].ioctl
                      IN j # None => \/ req'[j].st = "pending" /\ n # user'.node
                                     \/ /\ req'[j].st = "running"
                                        /\ user'.ioctl = j /\ n = user'.node
  <2>1. ASSUME NEW n \in Node, node[n].ioctl # None
        PROVE  req'[node[n].ioctl].st = "pending"
    <3>1. CASE n = user.node
      <4>1. node[n].ioctl = user.ioctl
        BY <2>1, <3>1, UserCarries
      <4>2. Kind(user.ioctl) \in Carryable \cup {"cancel"}
        BY <2>1, <4>1 DEF Held, CarriedBy
      <4> QED BY <1>4, <4>1, <4>2 DEF Carryable, ScanKinds
    <3>2. CASE n # user.node
      <4>1. req[node[n].ioctl].st = "pending" /\ node[n].ioctl \in Ioctl
        BY <2>1, <3>2, UserCarries
      <4> QED BY <1>1, <1>4, <4>1
    <3> QED BY <3>1, <3>2
  <2> QED BY <1>4, <2>1
<1>6. \A j \in Ioctl : req'[j].st = "running" => user'.ioctl = j
  BY <1>4 DEF Known
<1>7. \A i \in Ioctl : req'[i].st = "pending" /\ req[i].st # "pending" =>
        /\ Kind(i) \notin {"bssrm", "unused"}
        /\ Kind(i) \in Carryable => user.node # None /\ i = user.ioctl
  BY <1>1, <1>4 DEF Carryable
<1>8. \A i \in Ioctl : req[i].st \in {"pending"} => req'[i].st = req[i].st
  BY <1>1, <1>4
<1> QED BY <1>1, <1>2, <1>4, <1>5, <1>6, <1>7, <1>8, MoveHeld

\* The user remembers the scan request.
LEMMA KnownHeldScan ==
  ASSUME Shape, Known, Held, Types', ScanStart
  PROVE  Known' /\ Held'
<1> USE NoneApart
<1>0. /\ Types /\ Control /\ UserKnown
      /\ node \in [Node -> NodeRec] /\ req \in [Ioctl -> Req] /\ user \in UserRec
  BY DEF Shape, Types
<1>1. /\ user.pc = "start" /\ user.ioctl \in Ioctl /\ user.node = None
      /\ req[user.ioctl].st = "running" /\ IsScan(user.ioctl)
      /\ req[user.ioctl].done = 0
      /\ node' = node /\ pscan_ioctl_req' \in {pscan_ioctl_req, user.ioctl}
      /\ user' = UserIdle /\ req' = Status(req, user.ioctl, "pending")
  BY <1>0, UserFacts DEF ScanStart, UserReturn, UserAt, Control, UserKnown, Known, scanVars
<1>2. user'.node = None /\ user'.ioctl = None
  BY <1>1 DEF UserIdle
<1>3. /\ req'[user.ioctl].st = "pending" /\ \A j \in Ioctl \ {user.ioctl} : req'[j] = req[j]
      /\ \A j \in Ioctl : SameReq(j) /\ Kind(j)' = Kind(j)
  BY <1>0, <1>1, StatusOK DEF SameWork, SameReq, Kind
<1>4. Known'
  BY <1>1, <1>2, <1>3 DEF Known, SameReq, IsScan, ScanKinds
<1>5. ASSUME NEW n \in Node, node'[n].ioctl # None
      PROVE  CarriedBy(n, node[n].ioctl)'
  <2>1. CarriedBy(n, node[n].ioctl) /\ node[n].ioctl \in Ioctl /\ node[n].ioctl # user.ioctl
        /\ req[node[n].ioctl].st = "pending"
    <3>1. CarriedBy(n, node[n].ioctl) /\ node[n].ioctl \in Ioctl
      BY <1>0, <1>1, <1>5 DEF Held, NodeRec
    <3> QED BY <1>1, <3>1 DEF CarriedBy
  <2> QED BY <1>1, <1>2, <1>3, <2>1 DEF CarriedBy, SameReq
<1>6. pscan_ioctl_req' # None =>
         (IsScan(pscan_ioctl_req) /\ req[pscan_ioctl_req].st = "pending" /\ req[pscan_ioctl_req].done = 0)'
  <2>1. CASE pscan_ioctl_req' = user.ioctl
    BY <1>1, <1>3, <2>1 DEF IsScan, SameReq
  <2>2. CASE pscan_ioctl_req' = pscan_ioctl_req
    <3>1. pscan_ioctl_req # None => pscan_ioctl_req \in Ioctl /\ pscan_ioctl_req # user.ioctl
      BY <1>0, <1>1 DEF Types, Held
    <3> QED BY <1>3, <2>2, <3>1 DEF Held, IsScan, SameReq
  <2> QED BY <1>1, <2>1, <2>2
<1>7. ASSUME NEW i \in Ioctl, req'[i].st = "pending", req'[i].done = 0, Kind(i)' \in Carryable
       PROVE  \E n \in Node : node'[n].ioctl = i
  <2>1. i # user.ioctl
    BY <1>1, <1>3, <1>7 DEF IsScan, ScanKinds, Carryable
  <2> QED BY <1>1, <1>3, <1>7, <2>1 DEF Held, SameReq
<1>8. \A m, n \in Node : node'[m].ioctl # None /\ node'[m].ioctl = node'[n].ioctl => m = n
  BY <1>1 DEF Held
<1> QED BY <1>2, <1>4, <1>5, <1>6, <1>7, <1>8 DEF Held

\* The firmware answers.
LEMMA AnswerAt ==
  ASSUME Shape, FwRespond
  PROVE  /\ UNCHANGED <<node, user, main, curr_cmd, pscan_ioctl_req>>
         /\ \A i \in Ioctl :
              /\ req'[i].kind = req[i].kind /\ req'[i].st = req[i].st
              /\ req'[i].done = req[i].done /\ req'[i].ok = req[i].ok
              /\ req'[i].code = req[i].code
              /\ \/ req'[i].answered = req[i].answered
                 \/ /\ req'[i].answered /\ fw.cmd # None
                    /\ curr_cmd # None /\ i = node[curr_cmd].ioctl
         /\ fw'.rsp = "ok" /\ curr_cmd # None /\ node[curr_cmd].ioctl \in Ioctl =>
              req'[node[curr_cmd].ioctl].answered
<1>0. req \in [Ioctl -> Req] /\ fw \in FwRec /\ \A i \in Ioctl : req[i] \in Req
  BY DEF Shape, Types
<1>1. PICK r \in fw.results :
        /\ fw'.rsp = r
        /\ req' = IF r = "ok" /\ curr_cmd # None
                  THEN [i \in Ioctl |-> IF i = node[curr_cmd].ioctl
                                        THEN [req[i] EXCEPT !.answered = TRUE] ELSE req[i]]
                  ELSE req
  BY <1>0 DEF FwRespond, FwRec
<1>2. UNCHANGED <<node, user, main, curr_cmd, pscan_ioctl_req>> /\ fw.cmd # None
  BY DEF FwRespond, scanVars
<1>3. CASE r = "ok" /\ curr_cmd # None
  <2>1. \A i \in Ioctl : req'[i] = IF i = node[curr_cmd].ioctl
                                   THEN [req[i] EXCEPT !.answered = TRUE] ELSE req[i]
    BY <1>1, <1>3
  <2>2. \A i \in Ioctl : /\ [req[i] EXCEPT !.answered = TRUE].kind = req[i].kind
                         /\ [req[i] EXCEPT !.answered = TRUE].st = req[i].st
                         /\ [req[i] EXCEPT !.answered = TRUE].done = req[i].done
                         /\ [req[i] EXCEPT !.answered = TRUE].ok = req[i].ok
                         /\ [req[i] EXCEPT !.answered = TRUE].code = req[i].code
                         /\ [req[i] EXCEPT !.answered = TRUE].answered
    BY <1>0 DEF Req
  <2>3. ASSUME NEW i \in Ioctl
        PROVE  /\ req'[i].kind = req[i].kind /\ req'[i].st = req[i].st
               /\ req'[i].done = req[i].done /\ req'[i].ok = req[i].ok
               /\ req'[i].code = req[i].code
               /\ i # node[curr_cmd].ioctl => req'[i].answered = req[i].answered
               /\ i = node[curr_cmd].ioctl => req'[i].answered
    <3>1. CASE i = node[curr_cmd].ioctl
      BY <2>1, <2>2, <3>1
    <3>2. CASE i # node[curr_cmd].ioctl
      BY <2>1, <3>2
    <3> QED BY <3>1, <3>2
  <2> QED BY <1>2, <1>3, <2>3
<1>4. CASE ~(r = "ok" /\ curr_cmd # None)
  <2>1. req' = req
    BY <1>1, <1>4
  <2>2. ~(fw'.rsp = "ok" /\ curr_cmd # None)
    BY <1>1, <1>4
  <2> QED BY <1>2, <2>1, <2>2
<1> QED BY <1>3, <1>4

\* An answer of the firmware moves no request.
LEMMA KnownHeldAnswer ==
  ASSUME Shape, Known, Held, Types', FwRespond
  PROVE  Known' /\ Held'
<1> USE NoneApart
<1>0. /\ node \in [Node -> NodeRec] /\ pscan_ioctl_req \in Ioctl \cup {None} /\ user \in UserRec
      /\ \A n \in Node : node[n].ioctl \in Ioctl \cup {None}
  BY DEF Shape, Types, NodeRec
<1>1. /\ UNCHANGED <<node, user, pscan_ioctl_req>>
      /\ \A i \in Ioctl : /\ req'[i].st = req[i].st /\ req'[i].done = req[i].done
                          /\ Kind(i)' = Kind(i)
  BY AnswerAt DEF Kind
<1>2. Known'
  BY <1>1 DEF Known
<1>3. \A n \in Node : node'[n].ioctl # None => CarriedBy(n, node[n].ioctl)'
  BY <1>0, <1>1 DEF Held, CarriedBy
<1>4. pscan_ioctl_req' # None =>
         (IsScan(pscan_ioctl_req) /\ req[pscan_ioctl_req].st = "pending" /\ req[pscan_ioctl_req].done = 0)'
  BY <1>0, <1>1 DEF Held, IsScan
<1>5. \A i \in Ioctl : req'[i].st = "pending" /\ req'[i].done = 0 /\ Kind(i)' \in Carryable =>
         \E n \in Node : node'[n].ioctl = i
  BY <1>1 DEF Held
<1>6. \A m, n \in Node : node'[m].ioctl # None /\ node'[m].ioctl = node'[n].ioctl => m = n
  BY <1>1 DEF Held
<1>7. (user.node # None /\ Kind(user.ioctl) \in Carryable => node[user.node].ioctl = user.ioctl)'
  <2>1. user.node # None => user.ioctl \in Ioctl
    BY UserFacts DEF Shape, Control
  <2> QED BY <1>1, <2>1 DEF Held
<1> QED BY <1>2, <1>3, <1>4, <1>5, <1>6, <1>7 DEF Held

\* A step keeps what is known of the requests.
LEMMA KnownHeldStep ==
  ASSUME Engine, [Next]_vars
  PROVE  Known' /\ Held'
<1>0. Shape /\ Known /\ Held /\ Shape' /\ Types'
  BY ShapeStep DEF Engine, Shape
<1>1. CASE UserMove
  <2>1. CASE (\E i \in Ioctl : Request(i) \/ Enter(i)) \/ NoCmdNode
    <3>1. UNCHANGED <<node, pscan_ioctl_req>>
      BY <2>1 DEF Request, Enter, NoCmdNode, scanVars
    <3> QED BY <1>0, <2>1, <3>1, KnownHeldStatus
  <2> QED BY <1>0, <1>1, <2>1, KnownHeldGet, KnownHeldFails, KnownHeldQueues, KnownHeldScan,
             KnownHeldAnswer DEF UserMove
<1>2. CASE ~UserMove
  BY <1>0, <1>2, SettleStep, SettledHeld DEF SomeSettled
<1> QED BY <1>1, <1>2

-----------------------------------------------------------------------------
(* Handled is preserved.                                                   *)

\* The moves of mlan_ioctl for one request.
Moved(i) ==
  \/ req'[i].st = req[i].st
  \/ req[i].st = "new" /\ req'[i].st = "admitted"
  \/ req[i].st = "admitted" /\ req'[i].st \in {"running", "returned"}
  \/ req[i].st = "running" /\ req'[i].st \in {"pending", "returned"}

\* A new state of the request of USER, and nothing else.
LEMMA StatusMove ==
  ASSUME req \in [Ioctl -> Req], NEW i \in Ioctl,
         NEW s \in {"new", "admitted", "running", "pending", "returned"},
         \/ req[i].st = "new" /\ s = "admitted"
         \/ req[i].st = "admitted" /\ s \in {"running", "returned"}
         \/ req[i].st = "running" /\ s \in {"pending", "returned"},
         req' = Status(req, i, s)
  PROVE  \A j \in Ioctl : SameReq(j) /\ Moved(j) /\ req'[j].code = req[j].code
<1>1. /\ req'[i].st = s /\ \A j \in Ioctl \ {i} : req'[j] = req[j]
      /\ SameWork(req, req')
  BY StatusOK
<1>2. \A j \in Ioctl : SameReq(j) /\ req'[j].code = req[j].code
  BY <1>1 DEF SameWork, SameReq
<1>3. \A j \in Ioctl : Moved(j)
  BY <1>1 DEF Moved
<1> QED BY <1>2, <1>3

\* A move of the user changes no more than the state of one request.
LEMMA MoveAt ==
  ASSUME Shape, UserMove, ~FwRespond
  PROVE  \A j \in Ioctl : SameReq(j) /\ Moved(j) /\ req'[j].code = req[j].code
<1>0. /\ Types /\ Control /\ UserKnown /\ req \in [Ioctl -> Req]
  BY DEF Shape, Types
<1>e. ASSUME req' = req PROVE \A j \in Ioctl : SameReq(j) /\ Moved(j) /\ req'[j].code = req[j].code
  BY <1>e DEF SameReq, Moved
<1>1. ASSUME NEW i \in Ioctl, Request(i) \/ Enter(i)
      PROVE  \A j \in Ioctl : SameReq(j) /\ Moved(j) /\ req'[j].code = req[j].code
  <2>1. \/ req[i].st = "new" /\ req' = Status(req, i, "admitted")
        \/ req[i].st = "admitted" /\ req' = Status(req, i, "running")
        \/ req[i].st = "admitted" /\ req' = Status(req, i, "returned")
    BY <1>1 DEF Request, Enter
  <2> QED BY <1>0, <2>1, StatusMove
<1>2. CASE GetCmdNode
  BY <1>2, <1>e DEF GetCmdNode
<1>3. CASE NoCmdNode \/ PrepareQueues \/ ScanStart
  <2>1. user.ioctl \in Ioctl /\ req[user.ioctl].st = "running"
    BY <1>0, <1>3, UserFacts DEF NoCmdNode, PrepareQueues, ScanStart, UserAt, UserKnown
  <2>2. \/ req' = req \/ req' = Status(req, user.ioctl, "returned")
        \/ req' = Status(req, user.ioctl, "pending")
    BY <1>3, Zenon DEF NoCmdNode, PrepareQueues, ScanStart, UserReturn
  <2> QED BY <1>0, <1>e, <2>1, <2>2, StatusMove
<1>4. CASE PrepareFails
  BY <1>0, <1>4, FailsReq, StatusMove
<1> QED BY <1>1, <1>2, <1>3, <1>4 DEF UserMove

\* What any step leaves of a request.
LEMMA RequestStep ==
  ASSUME Engine, [Next]_vars, NEW i \in Ioctl
  PROVE  /\ req'[i].kind = req[i].kind
         /\ req[i].answered => req'[i].answered
         /\ req[i].st = "pending" => req'[i].st = "pending"
<1>0. Shape
  BY DEF Engine
<1>1. CASE FwRespond
  BY <1>0, <1>1, AnswerAt
<1>2. CASE UserMove /\ ~FwRespond
  BY <1>0, <1>2, MoveAt DEF SameReq, Moved
<1>3. CASE ~UserMove
  BY <1>3, SettleStep DEF SomeSettled, Settles
<1> QED BY <1>1, <1>2, <1>3

\* What a step does to the program counter of the main loop, where a response
\* is handled.
LEMMA MainMove ==
  ASSUME Engine, [Next]_vars
  PROVE  \/ main'.pc \notin AfterResp /\ main'.ioctl = None
         \/ /\ RespTaken /\ main'.pc = "resp" /\ main'.ioctl = node[curr_cmd].ioctl
            /\ curr_cmd # None /\ UNCHANGED <<curr_cmd, node, req>>
         \/ /\ main.pc \in AfterResp /\ main'.pc \in AfterResp /\ main'.ioctl = main.ioctl
            /\ curr_cmd # None /\ curr_cmd' = curr_cmd /\ ~RxCmdResp /\ ~HandlePreAsleep
            /\ main'.pc = "tail" => main.pc = "tail" \/ node[curr_cmd].resp = "ok"
            /\ main'.pc = "stopped" => main.pc = "stopped"
                 \/ (node[curr_cmd].resp = "ok" /\ node[curr_cmd].cmd = "stop")
<1> USE NoneApart
<1>0. /\ Shape /\ Handled /\ main \in MainRec /\ Control
  BY DEF Engine, Shape, Types
<1>a. main.pc \notin AfterResp => main.ioctl = None
  BY <1>0 DEF Handled
<1>b. main.pc \in AfterResp => curr_cmd # None
  BY <1>0 DEF Control
<1> DEFINE Goal ==
         \/ main'.pc \notin AfterResp /\ main'.ioctl = None
         \/ /\ RespTaken /\ main'.pc = "resp" /\ main'.ioctl = node[curr_cmd].ioctl
            /\ curr_cmd # None /\ UNCHANGED <<curr_cmd, node, req>>
         \/ /\ main.pc \in AfterResp /\ main'.pc \in AfterResp /\ main'.ioctl = main.ioctl
            /\ curr_cmd # None /\ curr_cmd' = curr_cmd /\ ~RxCmdResp /\ ~HandlePreAsleep
            /\ main'.pc = "tail" => main.pc = "tail" \/ node[curr_cmd].resp = "ok"
            /\ main'.pc = "stopped" => main.pc = "stopped"
                 \/ (node[curr_cmd].resp = "ok" /\ node[curr_cmd].cmd = "stop")
<1>i. MainIdle.pc = "idle" /\ MainIdle.ioctl = None
  BY DEF MainIdle
<1>m. ASSUME NEW p, MainTo(p) PROVE main'.pc = p /\ main'.ioctl = main.ioctl
  BY <1>0, <1>m DEF MainTo, MainRec
<1>n. ASSUME main.pc \in AfterResp PROVE ~RxCmdResp
  BY <1>n DEF RxCmdResp, MainAt, AfterResp
<1>s. ASSUME UNCHANGED <<main, curr_cmd>> PROVE Goal
  <2>1. ~HandlePreAsleep
    BY <1>s, <1>i DEF HandlePreAsleep, Handling, MainAt
  <2> QED BY <1>a, <1>b, <1>n, <1>s, <2>1
<1>1. CASE UserStep \/ TimerStep \/ HangStep \/ FwRespond \/ DownloadDone \/ RxCmdResp
           \/ (\E i \in Ioctl : Request(i)) \/ UNCHANGED vars
  <2>1. UNCHANGED <<main, curr_cmd>>
    BY <1>1 DEF UserStep, Enter, GetCmdNode, NoCmdNode, PrepareFails, PrepareQueues, ScanStart,
       CancelScan, CancelBss, StopDecide, CancelFlush, TimerStep, TimerExpires, TimerReports,
       HangStep, HangCancel, flag, HangFlushScan, HangFlushExt, Request, vars, FwRespond,
       DownloadDone, RxCmdResp
  <2> QED BY <1>s, <2>1
<1>2. CASE DnldStep
  <2>1. /\ main.pc \notin AfterResp
        /\ \/ main' = MainIdle
           \/ \E p \in {"arm", "noresp", "nrfree", "idle"} : MainTo(p)
           \/ main'.pc \in {"dnld", "send"} /\ main'.ioctl = None
    BY <1>2 DEF DnldStep, ExecNextCmd, DnldCurrent, DnldSent, DnldFails, NoRespDone, NoRespFree,
       DnldArm, MainAt, AfterResp, MainIdle
  <2> QED BY <1>a, <1>i, <1>m, <2>1 DEF AfterResp
<1>3. CASE EventStep
  <2>1. /\ main.pc \notin AfterResp
        /\ main' = main \/ main' = MainIdle \/ \E p \in {"idle"} \cup EventPC : MainTo(p)
    BY <1>3 DEF EventStep, ScanReport, ScanStatus, StatusStopsTimer, ScanCompletes, MoveDeferred,
       EventAt, MainAt, EventPC, AfterResp
  <2> QED BY <1>a, <1>i, <1>m, <2>1 DEF AfterResp, EventPC
<1>4. CASE RespTaken
  <2>1. cmd_resp_received /\ curr_cmd # None /\ UNCHANGED <<curr_cmd, node, req>>
    BY <1>0, <1>4 DEF RespTaken, Control
  <2>2. main' = main \/ (main'.pc = "resp" /\ main'.ioctl = node[curr_cmd].ioctl)
    BY <1>4 DEF RespTaken, MainIdle
  <2> QED BY <1>4, <1>s, <2>1, <2>2
<1>5. CASE RespCanceled \/ HandleInvalid \/ HandlePreAsleep \/ ErrorFree \/ RespTail
  <2>1. main' = MainIdle \/ (main.pc = "resp" /\ MainTo("handle") /\ curr_cmd' = curr_cmd /\ RespCanceled)
    BY <1>5 DEF RespCanceled, HandleInvalid, HandlePreAsleep, ErrorFree, RespTail, MainAt
  <2>2. main.pc = "resp" => ~HandlePreAsleep
    BY DEF HandlePreAsleep, Handling, MainAt
  <2> QED BY <1>b, <1>i, <1>m, <1>n, <2>1, <2>2 DEF AfterResp
<1>6. CASE HandleError \/ ErrorScanDone
  <2>1. /\ main.pc \in AfterResp /\ curr_cmd' = curr_cmd
        /\ MainTo("errscan") \/ MainTo("errfree")
    BY <1>6 DEF HandleError, ErrorScanDone, Handling, MainAt, AfterResp
  <2>2. ~HandlePreAsleep
    BY <1>i, <1>m, <2>1 DEF HandlePreAsleep
  <2> QED BY <1>b, <1>m, <1>n, <2>1, <2>2 DEF AfterResp
<1>7. CASE HandleOk
  <2>1. /\ main.pc \in AfterResp /\ curr_cmd' = curr_cmd /\ node[curr_cmd].resp = "ok"
        /\ MainTo("tail") \/ (MainTo("stopped") /\ node[curr_cmd].cmd = "stop")
    BY <1>7 DEF HandleOk, Handling, MainAt, AfterResp
  <2>2. ~HandlePreAsleep
    BY <1>i, <1>m, <2>1 DEF HandlePreAsleep
  <2> QED BY <1>b, <1>m, <1>n, <2>1, <2>2 DEF AfterResp
<1>8. CASE StopCompletes
  <2>1. main.pc = "stopped" /\ curr_cmd' = curr_cmd /\ MainTo("tail")
    BY <1>8 DEF StopCompletes, MainAt
  <2>2. ~HandlePreAsleep
    BY <1>i, <1>m, <2>1 DEF HandlePreAsleep
  <2>3. node[curr_cmd].resp = "ok"
    BY <1>0, <2>1 DEF Handled
  <2> QED BY <1>b, <1>m, <1>n, <2>1, <2>2, <2>3 DEF AfterResp
<1> QED BY <1>1, <1>2, <1>3, <1>4, <1>5, <1>6, <1>7, <1>8 DEF Next, MainStep, RespStep

\* What MAIN read of the current command stays true while it handles it.
LEMMA HandledStep ==
  ASSUME Engine, [Next]_vars
  PROVE  Handled'
<1> USE NoneApart
<1>0. /\ Shape /\ Handled /\ Held /\ Apart /\ curr_cmd \in Node \cup {None}
      /\ \A n \in Node : node[n].ioctl \in Ioctl \cup {None}
      /\ main.ioctl \in Ioctl \cup {None} /\ user.node \in Node \cup {None}
  BY NotFreeAgain DEF Engine, Shape, Types, MainRec, NodeRec, UserRec
<1>1. CASE main'.pc \notin AfterResp /\ main'.ioctl = None
  BY <1>1 DEF Handled, AfterResp
<1>2. CASE /\ RespTaken /\ main'.pc = "resp" /\ main'.ioctl = node[curr_cmd].ioctl
           /\ curr_cmd # None /\ UNCHANGED <<curr_cmd, node, req>>
  <2>1. node[curr_cmd].ioctl # None => CarriedBy(curr_cmd, node[curr_cmd].ioctl)
    BY <1>0, <1>2 DEF Held
  <2>2. curr_cmd # user.node
    BY <1>0, <1>2 DEF Apart
  <2>3. main'.pc \in AfterResp /\ main'.pc \notin {"tail", "stopped"}
    BY <1>2 DEF AfterResp
  <2>4. \A i \in Ioctl : Kind(i)' = Kind(i)
    BY <1>2 DEF Kind
  <2> QED BY <1>0, <1>2, <2>1, <2>2, <2>3, <2>4 DEF Handled, CarriedBy
<1>3. CASE /\ main.pc \in AfterResp /\ main'.pc \in AfterResp /\ main'.ioctl = main.ioctl
           /\ curr_cmd # None /\ curr_cmd' = curr_cmd /\ ~RxCmdResp /\ ~HandlePreAsleep
           /\ main'.pc = "tail" => main.pc = "tail" \/ node[curr_cmd].resp = "ok"
           /\ main'.pc = "stopped" => main.pc = "stopped"
                \/ (node[curr_cmd].resp = "ok" /\ node[curr_cmd].cmd = "stop")
  <2>1. /\ node'[curr_cmd].cmd = node[curr_cmd].cmd /\ node'[curr_cmd].resp = node[curr_cmd].resp
        /\ node'[curr_cmd].ioctl = node[curr_cmd].ioctl \/ node'[curr_cmd].ioctl = None
    BY <1>0, <1>3, CurrKept DEF NodeKept
  <2>2. main.ioctl # None => Kind(main.ioctl)' = Kind(main.ioctl)
          /\ (req[main.ioctl].st = "pending" => req'[main.ioctl].st = "pending")
    BY <1>0, <1>3, RequestStep DEF Kind
  <2> QED BY <1>0, <1>3, <2>1, <2>2 DEF Handled
<1> QED BY <1>1, <1>2, <1>3, MainMove

-----------------------------------------------------------------------------
(* Answers is preserved.                                                   *)

\* While a failed response is handled, no code is taken back.
CodeStays == \A i \in Ioctl : req'[i].code = req[i].code \/ req'[i].code # None

\* Outside the handling of a response no status code is cleared.
LEMMA CodeKept ==
  ASSUME Engine, UserStep \/ TimerStep \/ HangStep \/ FwRespond
                 \/ (\E i \in Ioctl : Request(i)) \/ UNCHANGED vars
  PROVE  CodeStays
<1> USE NoneApart
<1>0. /\ Shape /\ Types /\ Control /\ UserKnown /\ req \in [Ioctl -> Req]
  BY DEF Engine, Shape, Types
<1>q. req \in [Ioctl -> Req]
  BY <1>0
<1>n. "cancel" # None /\ "timeout" # None
  BY CmdAssumption
<1>e. ASSUME req' = req PROVE CodeStays
  BY <1>e DEF CodeStays
<1>f. ASSUME NEW r \in [Ioctl -> Req], NEW S, req' = CompleteByCode(r, S),
             \A i \in Ioctl : r[i].code = req[i].code \/ r[i].code # None
      PROVE  CodeStays
  BY <1>f, ByCodeAt DEF CodeStays
<1>c. ASSUME NEW S
      PROVE  /\ CancelAll(req, S) \in [Ioctl -> Req]
             /\ \A i \in Ioctl : CancelAll(req, S)[i].code = req[i].code
                                 \/ CancelAll(req, S)[i].code # None
  <2>1. CancelAll(req, S) \in [Ioctl -> Req]
    BY <1>0, CancelAllOK
  <2>2. \A i \in Ioctl : /\ i \notin S => CancelAll(req, S)[i] = req[i]
                         /\ i \in S => /\ CancelAll(req, S)[i].done = Bump(req[i].done)
                                       /\ CancelAll(req, S)[i].ok = FALSE
                                       /\ CancelAll(req, S)[i].code = "cancel"
                         /\ CancelAll(req, S)[i].answered = req[i].answered
    BY <1>q, CancelAllAt
  <2> QED BY <1>n, <2>1, <2>2
<1>1. CASE UserMove /\ ~FwRespond
  BY <1>0, <1>1, MoveAt DEF CodeStays
<1>2. CASE FwRespond
  BY <1>0, <1>2, AnswerAt DEF CodeStays
<1>3. CASE StopDecide \/ UNCHANGED vars \/ TimerExpires
  BY <1>3, <1>e DEF StopDecide, vars, TimerExpires
<1>4. CASE TimerReports
  <2>1. req' = req \/ \E S : req' = SetCode(req, S, "timeout")
    BY <1>4 DEF TimerReports
  <2>2. ASSUME NEW S, req' = SetCode(req, S, "timeout") PROVE CodeStays
    BY <1>0, <1>n, <2>2, SetCodeAt DEF CodeStays
  <2> QED BY <1>e, <2>1, <2>2
<1>5. CASE CancelScan \/ HangCancel \/ HangFlushExt
  <2>1. \E S, T : req' = CompleteByCode(CancelAll(req, S), T)
    BY <1>5 DEF CancelScan, HangCancel, flag, HangFlushExt, Free
  <2> QED BY <1>c, <1>f, <2>1
<1>6. CASE CancelBss
  <2>1. user.ioctl \in Ioctl
    BY <1>0, <1>6, UserFacts DEF CancelBss, UserAt
  <2>2. PICK S, T : \/ req' = CompleteByCode(CancelAll(req, S), T)
                    \/ req' = CompleteByCode(Status(CancelAll(req, S), user.ioctl, "returned"), T)
    <3> DEFINE Mine(i) == Bss(i) = Bss(user.ioctl)
               P == {i \in Some(pscan_ioctl_req) : Mine(i)}
               C == {n \in Some(curr_cmd) : \E i \in Some(node[n].ioctl) : Mine(i)}
               N == {n \in Range(cmd_pending_q) : \E i \in Some(node[n].ioctl) : Mine(i)}
               R == IoctlsOf(C \cup N)
               flash_scan == P # {} \/ \E i \in R : IsScanReq(i)
               r == CancelAll(req, P \cup R)
               nd == Detach(MarkCanceled(node, C), N)
    <3>1. Free(N, IF flash_scan THEN r ELSE Status(r, user.ioctl, "returned"), nd)
      BY <1>6 DEF CancelBss
    <3>2. Free(N, r, nd) \/ Free(N, Status(r, user.ioctl, "returned"), nd)
      BY <3>1
    <3> QED BY <3>2 DEF Free
  <2>3. CASE req' = CompleteByCode(CancelAll(req, S), T)
    BY <1>c, <1>f, <2>3
  <2>4. CASE req' = CompleteByCode(Status(CancelAll(req, S), user.ioctl, "returned"), T)
    <3> DEFINE c == CancelAll(req, S)
               s == Status(c, user.ioctl, "returned")
    <3>1. c \in [Ioctl -> Req] /\ \A i \in Ioctl : c[i].code = req[i].code \/ c[i].code # None
      BY <1>c
    <3> HIDE DEF c
    <3>2. s \in [Ioctl -> Req] /\ \A i \in Ioctl : s[i].code = c[i].code
      BY <2>1, <3>1, StatusOK DEF SameWork
    <3>3. req' = CompleteByCode(s, T)
      BY <2>4 DEF c
    <3> HIDE DEF s
    <3> QED BY <1>f, <3>1, <3>2, <3>3
  <2> QED BY <2>2, <2>3, <2>4
<1>7. CASE CancelFlush
  <2>1. user.ioctl \in Ioctl
    BY <1>0, <1>7, UserFacts DEF CancelFlush, UserAt
  <2>2. PICK T : \/ req' = CompleteByCode(req, T)
                 \/ req' = CompleteByCode(Status(req, user.ioctl, "returned"), T)
    BY <1>7 DEF CancelFlush, FlushScan, Free
  <2>3. /\ Status(req, user.ioctl, "returned") \in [Ioctl -> Req]
        /\ \A i \in Ioctl : Status(req, user.ioctl, "returned")[i].code = req[i].code
    BY <1>0, <2>1, StatusOK DEF SameWork
  <2> QED BY <1>0, <1>f, <2>2, <2>3
<1>8. CASE HangFlushScan
  BY <1>0, <1>f, <1>8 DEF HangFlushScan, FlushScan, Free
<1>9. \/ (UserMove /\ ~FwRespond) \/ FwRespond \/ StopDecide \/ UNCHANGED vars \/ TimerExpires
      \/ TimerReports \/ CancelScan \/ HangCancel \/ HangFlushExt \/ CancelBss \/ CancelFlush
      \/ HangFlushScan
  BY Zenon DEF UserStep, UserMove, TimerStep, HangStep
<1> QED BY <1>1, <1>2, <1>3, <1>4, <1>5, <1>6, <1>7, <1>8, <1>9

\* The current command changes only where the main loop puts or takes it.
LEMMA CurrMoves ==
  ASSUME Shape, [Next]_vars, curr_cmd' # curr_cmd
  PROVE  main.pc \in {"dnld", "send", "nrfree"} \cup AfterResp
  BY DEF Next, Request, UserStep, Enter, GetCmdNode, NoCmdNode, PrepareFails, PrepareQueues, ScanStart,
     CancelScan, CancelBss, StopDecide, CancelFlush, MainStep, DnldStep, ExecNextCmd, DnldCurrent,
     DnldSent, DnldFails, NoRespDone, NoRespFree, DnldArm, DownloadDone, RxCmdResp, RespStep,
     RespTaken, RespCanceled, HandleInvalid, HandlePreAsleep, HandleError, ErrorScanDone, ErrorFree,
     HandleOk, StopCompletes, RespTail, EventStep, ScanReport, ScanStatus, StatusStopsTimer,
     ScanCompletes, MoveDeferred, FwRespond, TimerStep, TimerExpires, TimerReports, HangStep,
     HangCancel, flag, HangFlushScan, HangFlushExt, vars, Handling, MainAt, AfterResp

\* A good response was an answer of the firmware, a bad one left its mark.
LEMMA AnswersStep ==
  ASSUME Engine, [Next]_vars
  PROVE  Answers'
<1> USE NoneApart
<1>0. /\ Shape /\ Shape' /\ Linked /\ Handled /\ Held /\ Answers /\ Types /\ Control
      /\ main \in MainRec /\ fw \in FwRec /\ req \in [Ioctl -> Req]
      /\ node \in [Node -> NodeRec] /\ curr_cmd \in Node \cup {None}
      /\ \A n \in Node : node[n].ioctl \in Ioctl \cup {None}
      /\ main.ioctl \in Ioctl \cup {None}
  BY ShapeStep DEF Engine, Shape, Types, MainRec, NodeRec
<1>o. "ok" # None
  BY CmdAssumption DEF AllResults
<1>1. ASSUME NEW n \in Node, node'[n].ioctl # None, node'[n].resp = "ok"
      PROVE  req'[node'[n].ioctl].answered
  <2>1. CASE n \in cmd_free_q'
    <3>1. node'[n] = Blank
      BY <1>0, <2>1 DEF Shape, FreeBlank
    <3> QED BY <1>1, <3>1 DEF Blank
  <2>2. CASE n \notin cmd_free_q' /\ n \in cmd_free_q
    BY <1>0, <1>1, <1>o, <2>2, NodeTaken
  <2>3. CASE n \notin cmd_free_q' /\ n \notin cmd_free_q
    <3>1. NodeKept(n)
      BY <1>0, <2>3, NodeStep
    <3>2. node'[n].ioctl = node[n].ioctl /\ node[n].ioctl \in Ioctl
      BY <1>0, <1>1, <3>1 DEF NodeKept
    <3>3. req[node[n].ioctl].answered
      <4>1. CASE node'[n].resp = node[n].resp
        BY <1>0, <1>1, <3>2, <4>1 DEF Answers
      <4>2. CASE n = curr_cmd /\ RxCmdResp
        <5>1. curr_cmd # None /\ node' = [node EXCEPT ![curr_cmd].resp = fw.rsp]
          BY <4>2 DEF RxCmdResp
        <5>2. node'[n].resp = fw.rsp
          BY <1>0, <4>2, <5>1 DEF NodeRec
        <5> QED BY <1>0, <1>1, <3>2, <4>2, <5>2 DEF Answers
      <4>3. CASE n = curr_cmd /\ HandlePreAsleep
        <5>1. node' = [node EXCEPT ![curr_cmd].resp = None]
          BY <4>3 DEF HandlePreAsleep
        <5>2. node'[n].resp = None
          BY <1>0, <4>3, <5>1 DEF NodeRec
        <5> QED BY <1>1, <1>o, <5>2
      <4> QED BY <3>1, <4>1, <4>2, <4>3 DEF NodeKept
    <3> QED BY <3>2, <3>3, RequestStep
  <2> QED BY <2>1, <2>2, <2>3
<1>2. ASSUME fw'.rsp = "ok", node'[curr_cmd'].ioctl # None
      PROVE  req'[node'[curr_cmd'].ioctl].answered
  <2>1. CASE FwRespond
    <3>1. curr_cmd # None /\ curr_cmd \in Node
      BY <1>0, <2>1 DEF FwRespond, Linked
    <3>2. UNCHANGED <<node, curr_cmd>> /\ node[curr_cmd].ioctl \in Ioctl
      BY <1>0, <1>2, <2>1, <3>1, AnswerAt
    <3> QED BY <1>0, <1>2, <2>1, <3>1, <3>2, AnswerAt
  <2>2. CASE RxCmdResp
    <3>1. fw'.rsp = None
      BY <1>0, <2>2 DEF RxCmdResp, FwRec
    <3> QED BY <1>2, <1>o, <3>1
  <2>3. CASE ~FwRespond /\ ~RxCmdResp
    <3>1. fw'.rsp = fw.rsp
      BY <1>0, <2>3 DEF Next, Request, UserStep, Enter, GetCmdNode, NoCmdNode, PrepareFails, PrepareQueues, ScanStart,
     CancelScan, CancelBss, StopDecide, CancelFlush, MainStep, DnldStep, ExecNextCmd, DnldCurrent,
     DnldSent, DnldFails, NoRespDone, NoRespFree, DnldArm, DownloadDone, RespStep,
     RespTaken, RespCanceled, HandleInvalid, HandlePreAsleep, HandleError, ErrorScanDone, ErrorFree,
     HandleOk, StopCompletes, RespTail, EventStep, ScanReport, ScanStatus, StatusStopsTimer,
     ScanCompletes, MoveDeferred, TimerStep, TimerExpires, TimerReports, HangStep,
     HangCancel, flag, HangFlushScan, HangFlushExt, vars, linkVars, FwRec
    <3>2. fw.cmd # None /\ curr_cmd # None /\ main.pc \in {"arm", "idle"} \cup EventPC
      BY <1>0, <1>2, <1>o, <3>1 DEF Linked
    <3>3. curr_cmd' = curr_cmd
      BY <1>0, <3>2, CurrMoves DEF AfterResp, EventPC
    <3>4. node'[curr_cmd].ioctl = node[curr_cmd].ioctl /\ node[curr_cmd].ioctl \in Ioctl
      BY <1>0, <1>2, <3>2, <3>3, CurrKept DEF NodeKept
    <3>5. req[node[curr_cmd].ioctl].answered
      BY <1>0, <1>2, <3>1, <3>4 DEF Answers
    <3> QED BY <3>3, <3>4, <3>5, RequestStep
  <2> QED BY <2>1, <2>2, <2>3
<1>3. ASSUME main'.pc \in {"errscan", "errfree"}, node'[curr_cmd'].ioctl # None
      PROVE  req'[node'[curr_cmd'].ioctl].code # None
  <2>1. /\ main.pc \in AfterResp /\ main'.ioctl = main.ioctl
        /\ curr_cmd # None /\ curr_cmd' = curr_cmd
    BY <1>3, MainMove DEF AfterResp
  <2>2. node'[curr_cmd].ioctl = node[curr_cmd].ioctl /\ node[curr_cmd].ioctl \in Ioctl
    BY <1>0, <1>3, <2>1, CurrKept DEF NodeKept
  <2>3. node[curr_cmd].ioctl = main.ioctl
    BY <1>0, <2>1, <2>2 DEF Handled
  <2>4. CASE HandleError
    <3> DEFINE r == SetCode(req, Some(main.ioctl), "fail")
    <3>1. "fail" \in Codes /\ "fail" # None
      BY CmdAssumption DEF Codes
    <3>2. r \in [Ioctl -> Req] /\ r[main.ioctl].code = "fail"
      BY <1>0, <2>2, <2>3, <3>1, SetCodeSame DEF Some
    <3>3. req' = r \/ \E T : req' = CompleteByCode(r, T)
      BY <2>4 DEF HandleError, FlushScan, Free
    <3> HIDE DEF r
    <3>4. req'[main.ioctl].code = "fail"
      BY <2>2, <2>3, <3>2, <3>3, ByCodeAt
    <3> QED BY <2>1, <2>2, <2>3, <3>1, <3>4
  <2>5. CASE ErrorScanDone
    <3> DEFINE S == Some(pscan_ioctl_req)
               r == SetCode(req, S, None)
               yes == TRUE
    <3>1. req' = CompleteAll(r, S, yes) /\ main.pc = "errscan"
      BY <2>5 DEF ErrorScanDone, MainAt, ScanDone
    <3>2. None \in Codes /\ yes \in BOOLEAN
      BY DEF Codes
    <3>3. node[curr_cmd].ioctl \notin S
      BY <1>0, <2>1, <2>2 DEF Held, CarriedBy, IsScan, ScanKinds, Carryable, Some
    <3> HIDE DEF yes, S
    <3>4. r \in [Ioctl -> Req] /\ r[node[curr_cmd].ioctl].code = req[node[curr_cmd].ioctl].code
      BY <1>0, <2>2, <3>2, <3>3, SetCodeSame
    <3> HIDE DEF r
    <3>5. req'[node[curr_cmd].ioctl].code = req[node[curr_cmd].ioctl].code
      BY <2>2, <3>1, <3>2, <3>4, CompleteAllAt
    <3> QED BY <1>0, <2>1, <2>2, <3>1, <3>5 DEF Answers
  <2>6. CASE ~HandleError /\ ~ErrorScanDone
    <3>1. main' = main
      <4>1. \/ main' = main \/ main'.pc \notin {"errscan", "errfree"}
        <5>1. \/ main' = main \/ main' = MainIdle
              \/ \E p \in MainPC \ {"errscan", "errfree"} : MainTo(p)
              \/ main'.pc \in {"dnld", "send", "resp"}
          BY <2>6, CurrMoves DEF Next, Request, UserStep, Enter, GetCmdNode, NoCmdNode, PrepareFails,
             PrepareQueues, ScanStart, CancelScan, CancelBss, StopDecide, CancelFlush, MainStep, DnldStep,
             ExecNextCmd, DnldCurrent, DnldSent, DnldFails, NoRespDone, NoRespFree, DnldArm, DownloadDone,
             RxCmdResp, RespStep, RespTaken, RespCanceled, HandleInvalid, HandlePreAsleep, ErrorFree,
             HandleOk, StopCompletes, RespTail, EventStep, ScanReport, ScanStatus, StatusStopsTimer,
             ScanCompletes, MoveDeferred, FwRespond, TimerStep, TimerExpires, TimerReports, HangStep,
             HangCancel, HangFlushScan, HangFlushExt, vars, MainPC, BeforeResp, AfterResp, EventPC, MainIdle
        <5>2. ASSUME NEW p, MainTo(p) PROVE main'.pc = p
          BY <1>0, <5>2 DEF MainRec, MainTo
        <5>3. MainIdle.pc = "idle"
          BY DEF MainIdle
        <5> QED BY <5>1, <5>2, <5>3
      <4> QED BY <1>3, <4>1
    <3>2. main.pc \in {"errscan", "errfree"}
      BY <1>3, <3>1
    <3>3. ~MainStep
      <4>1. MainIdle.pc = "idle"
        BY DEF MainIdle
      <4> QED BY <2>6, <3>1, <3>2, <4>1 DEF MainStep, DnldStep, ExecNextCmd, DnldCurrent, DnldSent, DnldFails,
             NoRespDone, NoRespFree, DnldArm, DownloadDone, RxCmdResp, RespStep, RespTaken, RespCanceled,
             HandleInvalid, HandlePreAsleep, Handling, ErrorFree, HandleOk, StopCompletes, RespTail,
             EventStep, ScanReport, ScanStatus, StatusStopsTimer, ScanCompletes, MoveDeferred, EventAt, MainAt
    <3>4. CodeStays
      BY <3>3, CodeKept DEF Next
    <3> QED BY <1>0, <2>1, <2>2, <3>2, <3>4 DEF Answers, CodeStays
  <2> QED BY <2>4, <2>5, <2>6
<1> QED BY <1>1, <1>2, <1>3 DEF Answers

-----------------------------------------------------------------------------
(* Engine is an invariant.                                                 *)

\* Engine holds at first.
LEMMA EngineInit ==
  ASSUME Init
  PROVE  Engine
<1> USE NoneApart
<1>1. Shape /\ Linked /\ Exits
  BY ShapeInit, LinkInit
<1>2. \A i \in Ioctl : req[i].st = "new" /\ req[i].done = 0
  BY DEF Init
<1>3. \A n \in Node : node[n] = Blank
  BY DEF Init
<1>4. \A n \in Node : node[n].ioctl = None /\ ~node[n].scan /\ ~node[n].canceled
  BY <1>3 DEF Blank
<1>5. /\ main.pc = "idle" /\ main.ioctl = None /\ user.node = None
      /\ pscan_ioctl_req = None /\ fw.rsp = None
  BY DEF Init, MainIdle, UserIdle
<1>6. Flags
  BY <1>4, EmptyQueue DEF Flags, Init
<1>7. Known
  BY <1>2 DEF Known
<1>8. Held
  BY <1>2, <1>4, <1>5 DEF Held
<1>9. Handled
  BY <1>5 DEF Handled, AfterResp
<1>10. Answers
  <2>1. "ok" # None
    BY CmdAssumption DEF AllResults
  <2> QED BY <1>4, <1>5, <2>1 DEF Answers
<1> QED BY <1>1, <1>6, <1>7, <1>8, <1>9, <1>10 DEF Engine

\* Every step keeps Engine.
LEMMA EngineStep ==
  ASSUME Engine, [Next]_vars
  PROVE  Engine'
<1>1. Shape /\ Linked /\ Exits /\ Flags
  BY DEF Engine
<1> QED BY <1>1, ShapeStep, LinkedStep, ExitsStep, FlagsStep, KnownHeldStep, HandledStep, AnswersStep
        DEF Engine

\* The invariant for completions, for every value of the constants.
THEOREM EngineKept == Spec => []Engine
  BY EngineInit, EngineStep, PTL DEF Spec

--------------------------------------------------------------------------------
(* The lives of requests.                                                  *)

Life(st, answered, done, ok) == [st |-> st, answered |-> answered, done |-> done, ok |-> ok]
IsCmd(i) == Kind(i) \in {"cmd", "conn"}
LifeSt(i) == IF req[i].st \in {"admitted", "running"} THEN "issued" ELSE req[i].st
LifeDone(i) == IF Kind(i) = "cancel" /\ req[i].done > 1 THEN 1 ELSE req[i].done

\* The life of a request, in its parts.
LEMMA LifeIs ==
  ASSUME NEW i \in Ioctl
  PROVE  LifeOf(i) = Life(LifeSt(i), IsCmd(i) /\ req[i].answered, LifeDone(i), IsCmd(i) /\ req[i].ok)
  BY DEF LifeOf, Life, LifeSt, LifeDone, IsCmd

\* RequestService allows a request to be issued.
LEMMA LifeIssue ==
  ASSUME NEW b, NEW c, NEW d
  PROVE  Abstract!Moves(Life("new", b, c, d), Life("issued", b, c, d))
  BY DEF Abstract!Moves, Abstract!Issue, Life

\* RequestService allows a request to be returned.
LEMMA LifeReturn ==
  ASSUME NEW b, NEW d
  PROVE  Abstract!Moves(Life("issued", b, 0, d), Life("returned", b, 0, d))
  BY DEF Abstract!Moves, Abstract!Return, Life

\* RequestService allows a request to be accepted.
LEMMA LifeAccept ==
  ASSUME NEW b, NEW c, NEW d
  PROVE  Abstract!Moves(Life("issued", b, c, d), Life("pending", b, c, d))
  BY DEF Abstract!Moves, Abstract!Accept, Life

Lives(S, A, D, O) == [st : S, answered : A, done : D, ok : O]

\* A life is the only member of its set.
LEMMA LifeLives ==
  ASSUME NEW s, NEW b, NEW c, NEW d
  PROVE  /\ Life(s, b, c, d) \in Lives({s}, {b}, {c}, {d})
         /\ \A r \in Lives({s}, {b}, {c}, {d}) : r = Life(s, b, c, d)
  BY DEF Life, Lives

Answered(r, x)  == [r EXCEPT !.answered = x]
Completed(r, x, y) == [r EXCEPT !.done = x, !.ok = y]

\* An answer changes one field of a life.
LEMMA LivesAnswered ==
  ASSUME NEW s, NEW b, NEW c, NEW d, NEW x, NEW r, r \in Lives({s}, {b}, {c}, {d})
  PROVE  Answered(r, x) \in Lives({s}, {x}, {c}, {d})
  BY DEF Lives, Answered

\* A completion changes two fields of a life.
LEMMA LivesCompleted ==
  ASSUME NEW s, NEW b, NEW c, NEW d, NEW x, NEW y, NEW r, r \in Lives({s}, {b}, {c}, {d})
  PROVE  Completed(r, x, y) \in Lives({s}, {b}, {x}, {y})
  BY DEF Lives, Completed

\* The fields of a life.
LEMMA LivesFields ==
  ASSUME NEW s, NEW b, NEW c, NEW d, NEW r, r \in Lives({s}, {b}, {c}, {d})
  PROVE  r.st = s /\ r.answered = b /\ r.done = c
  BY DEF Lives

\* A life with an answer or a completion.
LEMMA LifeExcept ==
  ASSUME NEW s, NEW b, NEW c, NEW d, NEW x, NEW y, NEW r, r = Life(s, b, c, d)
  PROVE  /\ Answered(r, x) = Life(s, x, c, d)
         /\ Completed(r, x, y) = Life(s, b, x, y)
         /\ r.st = s /\ r.done = c /\ r.answered = b
<1>1. r \in Lives({s}, {b}, {c}, {d})
  BY LifeLives
<1>2. /\ Answered(r, x) \in Lives({s}, {x}, {c}, {d})
      /\ Completed(r, x, y) \in Lives({s}, {b}, {x}, {y})
      /\ r.st = s /\ r.answered = b /\ r.done = c
  <2>1. Answered(r, x) \in Lives({s}, {x}, {c}, {d})
    BY <1>1, LivesAnswered, Zenon
  <2>2. Completed(r, x, y) \in Lives({s}, {b}, {x}, {y})
    BY <1>1, LivesCompleted, Zenon
  <2>3. r.st = s /\ r.answered = b /\ r.done = c
    BY <1>1 DEF Lives
  <2> QED BY <2>1, <2>2, <2>3
<1>3. \A q \in Lives({s}, {x}, {c}, {d}) : q = Life(s, x, c, d)
  BY LifeLives
<1>4. \A q \in Lives({s}, {b}, {x}, {y}) : q = Life(s, b, x, y)
  BY LifeLives
<1> QED BY <1>2, <1>3, <1>4, Zenon

\* RequestService allows an issued or a pending request to be answered.
LEMMA LifeAnswer ==
  ASSUME NEW s \in {"issued", "pending"}, NEW b, NEW c, NEW d
  PROVE  Abstract!Moves(Life(s, b, c, d), Life(s, TRUE, c, d))
<1> DEFINE yes == TRUE
<1> DEFINE r == Life(s, b, c, d)
<1>0. r = Life(s, b, c, d)
  OBVIOUS
<1>y. yes = TRUE
  OBVIOUS
<1> HIDE DEF yes, r
<1>1. Answered(r, yes) = Life(s, yes, c, d) /\ r.st = s
  BY <1>0, LifeExcept
<1>2. Answered(r, TRUE) = Life(s, TRUE, c, d)
  BY <1>1, <1>y
<1>3. Abstract!Answer(r, Life(s, TRUE, c, d))
  <2>1. r.st \in {"issued", "pending"}
    BY <1>1
  <2>2. Life(s, TRUE, c, d) = [r EXCEPT !.answered = TRUE]
    BY <1>2 DEF Answered
  <2> QED BY <2>1, <2>2 DEF Abstract!Answer
<1> QED BY <1>0, <1>3, Zenon DEF Abstract!Moves

\* RequestService allows a pending request to be completed once, a command
\* with success only when it was answered.
LEMMA LifeComplete ==
  ASSUME NEW b, NEW d, NEW e \in BOOLEAN, e => b
  PROVE  Abstract!Moves(Life("pending", b, 0, d), Life("pending", b, 1, e))
<1> DEFINE r == Life("pending", b, 0, d)
<1>0. r = Life("pending", b, 0, d)
  OBVIOUS
<1> HIDE DEF r
<1>1. /\ Completed(r, 1, e) = Life("pending", b, 1, e)
      /\ r.st = "pending" /\ r.done = 0 /\ r.answered = b
  BY <1>0, LifeExcept
<1>2. Life("pending", b, 1, e) = [r EXCEPT !.done = 1, !.ok = e]
  BY <1>1 DEF Completed
<1>3. Abstract!Complete(r, Life("pending", b, 1, e))
  <2>1. r.st \in {"issued", "pending"} /\ (e => r.answered)
    BY <1>1
  <2>2. \E ok \in BOOLEAN : (ok => r.answered)
                            /\ Life("pending", b, 1, e) = [r EXCEPT !.done = 1, !.ok = ok]
    BY <1>2, <2>1, Zenon
  <2> QED BY <1>1, <2>1, <2>2, Zenon DEF Abstract!Complete
<1> QED BY <1>0, <1>3, Zenon DEF Abstract!Moves

\* RequestService allows a stutter.
LEMMA LifeSame ==
  ASSUME NEW s
  PROVE  Abstract!Moves(s, s)
  BY DEF Abstract!Moves

-----------------------------------------------------------------------------
(* What the steps do to a life.                                            *)

LifeAnswered(i) == IsCmd(i) /\ req[i].answered
LifeOk(i)       == IsCmd(i) /\ req[i].ok

\* The parts of the life of a request before and after a step.
LEMMA LifeParts ==
  ASSUME NEW i \in Ioctl
  PROVE  /\ LifeOf(i) = Life(LifeSt(i), LifeAnswered(i), LifeDone(i), LifeOk(i))
         /\ LifeOf(i)' = Life(LifeSt(i)', LifeAnswered(i)', LifeDone(i)', LifeOk(i)')
         /\ LifeAnswered(i) \in BOOLEAN /\ LifeOk(i) \in BOOLEAN
         /\ LifeAnswered(i)' \in BOOLEAN /\ LifeOk(i)' \in BOOLEAN
<1>1. LifeOf(i) = Life(LifeSt(i), LifeAnswered(i), LifeDone(i), LifeOk(i))
  BY DEF LifeOf, Life, LifeSt, LifeAnswered, LifeDone, LifeOk, IsCmd
<1>2. LifeOf(i)' = Life(LifeSt(i)', LifeAnswered(i)', LifeDone(i)', LifeOk(i)')
  BY DEF LifeOf, Life, LifeSt, LifeAnswered, LifeDone, LifeOk, IsCmd, Kind
<1>3. /\ LifeAnswered(i) \in BOOLEAN /\ LifeOk(i) \in BOOLEAN
      /\ LifeAnswered(i)' \in BOOLEAN /\ LifeOk(i)' \in BOOLEAN
  BY DEF LifeAnswered, LifeOk
<1> QED BY <1>1, <1>2, <1>3

\* A request that is left alone stutters.
LEMMA LifeUnmoved ==
  ASSUME NEW i \in Ioctl, req'[i].kind = req[i].kind, req'[i].st = req[i].st,
         req'[i].answered = req[i].answered, req'[i].done = req[i].done,
         req'[i].ok = req[i].ok
  PROVE  Abstract!Moves(LifeOf(i), LifeOf(i)')
<1>1. LifeOf(i)' = LifeOf(i)
  BY DEF LifeOf, Kind
<1> QED BY <1>1, LifeSame

\* A step that settles requests completes each at most once.
LEMMA LifeSettles ==
  ASSUME Engine, Types', NEW D, Settles(D), NEW i \in Ioctl
  PROVE  Abstract!Moves(LifeOf(i), LifeOf(i)')
<1>1. /\ req'[i].kind = req[i].kind /\ req'[i].answered = req[i].answered
      /\ \/ req'[i].st = req[i].st
         \/ req[i].st = "running" /\ req'[i].st = "returned" /\ i = user.ioctl /\ user.node = None
      /\ i \notin D => req'[i].done = req[i].done /\ req'[i].ok = req[i].ok
      /\ i \in D =>
           /\ req[i].st = "pending" /\ req'[i].done = Bump(req[i].done)
           /\ Kind(i) = "cancel" \/ req[i].done = 0
           /\ Kind(i) \in Answerable /\ req'[i].ok => req[i].answered
  BY DEF Settles
<1>2. Known /\ req[i].done \in 0 .. 2
  BY DEF Engine, Shape, Types, Req
<1>3. CASE i \notin D /\ req'[i].st = req[i].st
  BY <1>1, <1>3, LifeUnmoved
<1>4. CASE i \notin D /\ req[i].st = "running" /\ req'[i].st = "returned"
  <2>1. req[i].done = 0 /\ req'[i].done = 0
    BY <1>1, <1>2, <1>4 DEF Known
  <2>2. /\ LifeSt(i) = "issued" /\ LifeSt(i)' = "returned"
        /\ LifeDone(i) = 0 /\ LifeDone(i)' = 0
    BY <1>4, <2>1 DEF LifeSt, LifeDone
  <2>3. LifeAnswered(i)' = LifeAnswered(i) /\ LifeOk(i)' = LifeOk(i)
    BY <1>1, <1>4 DEF LifeAnswered, LifeOk, IsCmd, Kind
  <2>4. /\ LifeOf(i) = Life("issued", LifeAnswered(i), 0, LifeOk(i))
        /\ LifeOf(i)' = Life("returned", LifeAnswered(i), 0, LifeOk(i))
    BY <2>2, <2>3, LifeParts
  <2> QED BY <2>4, LifeReturn
<1>5. CASE i \in D /\ req[i].done = 0
  <2>1. req[i].st = "pending" /\ req'[i].st = "pending" /\ req'[i].done = 1
    BY <1>1, <1>5 DEF Bump
  <2>2. /\ LifeSt(i) = "pending" /\ LifeSt(i)' = "pending"
        /\ LifeDone(i) = 0 /\ LifeDone(i)' = 1
    BY <1>5, <2>1 DEF LifeSt, LifeDone
  <2>3. LifeAnswered(i)' = LifeAnswered(i)
    BY <1>1 DEF LifeAnswered, IsCmd, Kind
  <2>4. LifeOk(i)' => LifeAnswered(i)
    BY <1>1, <1>5 DEF LifeAnswered, LifeOk, IsCmd, Kind, Answerable
  <2>5. /\ LifeOf(i) = Life("pending", LifeAnswered(i), 0, LifeOk(i))
        /\ LifeOf(i)' = Life("pending", LifeAnswered(i), 1, LifeOk(i)')
    BY <2>2, <2>3, LifeParts
  <2> DEFINE e == LifeOk(i)'
  <2>6. e \in BOOLEAN /\ (e => LifeAnswered(i))
    BY <2>4, LifeParts
  <2>7. LifeOf(i)' = Life("pending", LifeAnswered(i), 1, e)
    BY <2>5
  <2> HIDE DEF e
  <2>8. Abstract!Moves(Life("pending", LifeAnswered(i), 0, LifeOk(i)),
                       Life("pending", LifeAnswered(i), 1, e))
    BY <2>6, LifeComplete
  <2> QED BY <2>5, <2>7, <2>8
<1>6. CASE i \in D /\ req[i].done # 0
  <2>1. Kind(i) = "cancel" /\ req'[i].st = req[i].st /\ req[i].done \in {1, 2} /\ req'[i].done = 2
    BY <1>1, <1>2, <1>6 DEF Bump
  <2>2. /\ LifeSt(i)' = LifeSt(i) /\ LifeDone(i) = 1 /\ LifeDone(i)' = 1
        /\ LifeAnswered(i)' = LifeAnswered(i) /\ LifeOk(i)' = LifeOk(i)
    BY <1>1, <2>1 DEF LifeSt, LifeDone, LifeAnswered, LifeOk, IsCmd, Kind
  <2>3. LifeOf(i)' = LifeOf(i)
    BY <2>2, LifeParts
  <2> QED BY <2>3, LifeSame
<1> QED BY <1>1, <1>3, <1>4, <1>5, <1>6

\* A step of USER issues, accepts or returns its request.
LEMMA LifeMoved ==
  ASSUME Engine, NEW i \in Ioctl, SameReq(i), Moved(i)
  PROVE  Abstract!Moves(LifeOf(i), LifeOf(i)')
<1>1. /\ req'[i].kind = req[i].kind /\ req'[i].answered = req[i].answered
      /\ req'[i].done = req[i].done /\ req'[i].ok = req[i].ok
  BY DEF SameReq
<1>2. /\ LifeDone(i)' = LifeDone(i) /\ LifeAnswered(i)' = LifeAnswered(i)
      /\ LifeOk(i)' = LifeOk(i)
  BY <1>1 DEF LifeDone, LifeAnswered, LifeOk, IsCmd, Kind
<1>3. CASE LifeSt(i)' = LifeSt(i)
  <2>1. LifeOf(i)' = LifeOf(i)
    BY <1>2, <1>3, LifeParts
  <2> QED BY <2>1, LifeSame
<1>4. CASE LifeSt(i) = "new" /\ LifeSt(i)' = "issued"
  <2>1. /\ LifeOf(i) = Life("new", LifeAnswered(i), LifeDone(i), LifeOk(i))
        /\ LifeOf(i)' = Life("issued", LifeAnswered(i), LifeDone(i), LifeOk(i))
    BY <1>2, <1>4, LifeParts
  <2> QED BY <2>1, LifeIssue
<1>5. CASE LifeSt(i) = "issued" /\ LifeSt(i)' = "pending"
  <2>1. /\ LifeOf(i) = Life("issued", LifeAnswered(i), LifeDone(i), LifeOk(i))
        /\ LifeOf(i)' = Life("pending", LifeAnswered(i), LifeDone(i), LifeOk(i))
    BY <1>2, <1>5, LifeParts
  <2> QED BY <2>1, LifeAccept
<1>6. CASE LifeSt(i) = "issued" /\ LifeSt(i)' = "returned" /\ req[i].done = 0
  <2>1. LifeDone(i) = 0
    BY <1>6 DEF LifeDone
  <2>2. /\ LifeOf(i) = Life("issued", LifeAnswered(i), 0, LifeOk(i))
        /\ LifeOf(i)' = Life("returned", LifeAnswered(i), 0, LifeOk(i))
    BY <1>2, <1>6, <2>1, LifeParts
  <2> QED BY <2>2, LifeReturn
<1>7. \/ LifeSt(i)' = LifeSt(i)
      \/ LifeSt(i) = "new" /\ LifeSt(i)' = "issued"
      \/ LifeSt(i) = "issued" /\ LifeSt(i)' = "pending"
      \/ LifeSt(i) = "issued" /\ LifeSt(i)' = "returned" /\ req[i].done = 0
  BY DEF Moved, LifeSt, Known, Engine
<1> QED BY <1>3, <1>4, <1>5, <1>6, <1>7

\* An answer of the firmware is one of the service.
LEMMA LifeAnswers ==
  ASSUME Engine, FwRespond, NEW i \in Ioctl
  PROVE  Abstract!Moves(LifeOf(i), LifeOf(i)')
<1> USE NoneApart
<1>0. Shape /\ Held /\ curr_cmd \in Node \cup {None}
  BY DEF Engine, Shape, Types
<1>1. /\ req'[i].kind = req[i].kind /\ req'[i].st = req[i].st
      /\ req'[i].done = req[i].done /\ req'[i].ok = req[i].ok
      /\ \/ req'[i].answered = req[i].answered
         \/ req'[i].answered /\ curr_cmd # None /\ i = node[curr_cmd].ioctl
  BY <1>0, AnswerAt
<1>2. CASE req'[i].answered = req[i].answered
  BY <1>1, <1>2, LifeUnmoved
<1>3. CASE ~IsCmd(i)
  <2>1. LifeOf(i)' = LifeOf(i)
    BY <1>1, <1>3 DEF LifeOf, Kind, IsCmd
  <2> QED BY <2>1, LifeSame
<1>4. CASE IsCmd(i) /\ req'[i].answered /\ curr_cmd # None /\ i = node[curr_cmd].ioctl
  <2>1. CarriedBy(curr_cmd, i)
    BY <1>0, <1>4 DEF Held
  <2>2. LifeSt(i) \in {"issued", "pending"}
    BY <2>1 DEF CarriedBy, LifeSt
  <2>3. /\ LifeSt(i)' = LifeSt(i) /\ LifeDone(i)' = LifeDone(i) /\ LifeOk(i)' = LifeOk(i)
        /\ LifeAnswered(i)' = TRUE
    BY <1>1, <1>4 DEF LifeSt, LifeDone, LifeOk, LifeAnswered, IsCmd, Kind
  <2>4. LifeOf(i)' = Life(LifeSt(i), TRUE, LifeDone(i), LifeOk(i))
    BY <2>3, LifeParts
  <2> QED BY <2>2, <2>4, LifeParts, LifeAnswer
<1> QED BY <1>1, <1>2, <1>3, <1>4

-----------------------------------------------------------------------------
(* Refinement of RequestService.                                           *)

\* Every step of the engine moves every life as the service may.
LEMMA LifeStep ==
  ASSUME Engine, [Next]_vars, NEW i \in Ioctl
  PROVE  Abstract!Moves(LifeOf(i), LifeOf(i)')
<1>1. Types' /\ Shape
  BY ShapeStep DEF Engine, Shape
<1>2. CASE FwRespond
  BY <1>2, LifeAnswers
<1>3. CASE UserMove /\ ~FwRespond
  BY <1>1, <1>3, MoveAt, LifeMoved
<1>4. CASE ~UserMove
  <2>1. PICK D : Settles(D)
    BY <1>4, SettleStep DEF SomeSettled
  <2> QED BY <1>1, <2>1, LifeSettles
<1> QED BY <1>2, <1>3, <1>4

\* The first state is one of the service.
LEMMA ServiceStarts ==
  ASSUME Init
  PROVE  Abstract!ServiceInit
<1>1. ASSUME NEW i \in Ioctl
      PROVE  LifeOf(i) = Abstract!New
  <2>1. /\ req[i].st = "new" /\ req[i].done = 0 /\ req[i].answered = FALSE /\ req[i].ok = FALSE
    BY DEF Init
  <2>2. /\ LifeSt(i) = "new" /\ LifeDone(i) = 0
        /\ LifeAnswered(i) = FALSE /\ LifeOk(i) = FALSE
    BY <2>1 DEF LifeSt, LifeDone, LifeAnswered, LifeOk
  <2>3. LifeOf(i) = Life(LifeSt(i), LifeAnswered(i), LifeDone(i), LifeOk(i))
    BY LifeParts
  <2> QED BY <2>2, <2>3 DEF Abstract!New, Life
<1> QED BY <1>1 DEF Abstract!ServiceInit

\* Every step of the engine is a step of the service or a stutter.
LEMMA ServiceStep ==
  ASSUME Engine, [Next]_vars
  PROVE  Abstract!ServiceNext
  BY LifeStep DEF Abstract!ServiceNext

\* Refinement: the engine implements RequestService. Whatever is cancelled,
\* fails or times out in between, every request is answered once, and a command
\* succeeds only if the firmware answered it.
THEOREM RequestsServed == Spec => ServesRequests
<1>1. Init => Abstract!ServiceInit
  BY ServiceStarts
<1>2. Engine /\ [Next]_vars => [Abstract!ServiceNext]_([i \in Ioctl |-> LifeOf(i)])
  BY ServiceStep
<1> QED BY <1>1, <1>2, EngineKept, PTL DEF Spec, ServesRequests, Abstract!Service

-----------------------------------------------------------------------------
(* Before the first scan starts.                                           *)

\* No scan has begun, or only the one the user is busy with.
Fresh    == \A i \in Ioctl : Begun(i) => user.ioctl = i

\* The command the user prepares.
UserCmd ==
  user.node # None =>
    /\ node[user.node].cmd = "stop" => Kind(user.ioctl) \in {"cancel", "bssrm"}
    /\ IsScan(user.ioctl) => node[user.node].cmd \in ScanKinds

\* Before the first scan starts nothing of a scan is about but what it prepares.
Still ==
  /\ ~scan_processing /\ pscan_ioctl_req = None /\ fw.scan = "idle"
  /\ \A n \in Node \ cmd_free_q :
       node[n].cmd \in ScanKinds \cup {"stop"} => n \in Range(scan_pending_q) \/ n = user.node
  /\ user.pc \in {"get", "queue", "stop"} => Kind(user.ioctl) \notin {"cancel", "bssrm"}
  /\ user.pc = "start" => scan_pending_q # <<>> \/ driver_status

Quiet == Fresh => Still

\* The request of the only scan so far is not lost while the driver is alive.
LoneHeld ==
  \A i \in Ioctl :
    IsScan(i) /\ Alone(i) /\ req[i].st = "pending" /\ req[i].done = 0 =>
      pscan_ioctl_req = i \/ driver_status

\* A request keeps its kind and moves forward.
LEMMA AllMoved ==
  ASSUME Engine, [Next]_vars, NEW i \in Ioctl
  PROVE  Moved(i) /\ req'[i].kind = req[i].kind
<1>0. Shape
  BY DEF Engine
<1>1. CASE FwRespond
  BY <1>0, <1>1, AnswerAt DEF Moved
<1>2. CASE UserMove /\ ~FwRespond
  BY <1>0, <1>2, MoveAt DEF SameReq
<1>3. CASE ~UserMove
  BY <1>3, SettleStep DEF SomeSettled, Settles, Moved
<1> QED BY <1>1, <1>2, <1>3

\* A scan that has begun stays so.
LEMMA BegunStays ==
  ASSUME Engine, [Next]_vars, NEW i \in Ioctl, Begun(i)
  PROVE  Begun(i)'
<1>1. Moved(i) /\ req'[i].kind = req[i].kind
  BY AllMoved
<1> QED BY <1>1 DEF Begun, Moved, IsScan, Kind

\* If no other scan has begun after a step, none had before.
LEMMA FreshBefore ==
  ASSUME Engine, Engine', [Next]_vars, Fresh'
  PROVE  Fresh
<1> USE NoneApart
<1> SUFFICES ASSUME NEW i \in Ioctl, Begun(i)
             PROVE  user.ioctl = i
  BY DEF Fresh
<1>1. Begun(i)' /\ Moved(i) /\ req'[i].kind = req[i].kind
  BY BegunStays, AllMoved
<1>2. user'.ioctl = i
  BY <1>1 DEF Fresh
<1>3. req'[i].st = "running"
  <2>1. Control' /\ UserKnown'
    BY DEF Engine, Shape
  <2>2. Kind(i)' # "cancel"
    BY <1>1 DEF Begun, IsScan, ScanKinds
  <2> QED BY <1>2, <2>1, <2>2 DEF Control, UserKnown
<1>4. req[i].st = "running"
  BY <1>1, <1>3 DEF Moved, Begun
<1> QED BY <1>4 DEF Engine, Known

\* A scan that starts has begun, and its user is gone.
LEMMA FreshNoStart ==
  ASSUME Engine, [Next]_vars, Fresh'
  PROVE  ~ScanStart
<1> USE NoneApart
<1> SUFFICES ASSUME ScanStart
             PROVE  FALSE
  OBVIOUS
<1>1. /\ user.ioctl \in Ioctl /\ IsScan(user.ioctl) /\ req[user.ioctl].st = "running"
  <2>1. user.pc = "start" /\ Types /\ Control /\ UserKnown
    BY DEF ScanStart, UserAt, Engine, Shape
  <2>2. user.ioctl \in Ioctl /\ IsScan(user.ioctl)
    BY <2>1, UserFacts DEF UserKnown
  <2>3. Kind(user.ioctl) # "cancel"
    BY <2>2 DEF IsScan, ScanKinds
  <2> QED BY <2>1, <2>2, <2>3 DEF UserKnown
<1>2. PICK i \in Ioctl : i = user.ioctl /\ Begun(i)
  BY <1>1 DEF Begun
<1>3. user' = UserIdle
  BY DEF ScanStart, UserReturn
<1>4. user'.ioctl = None
  BY <1>3 DEF UserIdle
<1>5. Begun(i)'
  BY <1>2, BegunStays
<1> QED BY <1>4, <1>5 DEF Fresh

\* What the steps do to the scan variables.
LEMMA ScanVarsStep ==
  ASSUME [Next]_vars, ~ScanStart
  PROVE  /\ scan_processing' = scan_processing \/ scan_processing' = FALSE
         /\ pscan_ioctl_req' = pscan_ioctl_req \/ pscan_ioctl_req' = None
         /\ driver_status' = driver_status \/ driver_status' = TRUE
         /\ fw' = fw \/ DnldSent \/ FwRespond \/ RxCmdResp \/ ScanReport \/ ScanStatus
<1>1. CASE UserStep \/ (\E i \in Ioctl : Request(i)) \/ UNCHANGED vars
  BY <1>1 DEF UserStep, Enter, GetCmdNode, NoCmdNode, PrepareFails, PrepareQueues,
     CancelScan, CancelBss, StopDecide, CancelFlush, FlushScan, Request, vars, scanVars, linkVars
<1>2. CASE DnldStep \/ FwRespond \/ DownloadDone \/ RxCmdResp \/ TimerStep
  BY <1>2 DEF DnldStep, ExecNextCmd, DnldCurrent, DnldFails, NoRespDone, NoRespFree,
     DnldArm, DownloadDone, FwRespond, RxCmdResp, DnldSent, TimerStep, TimerExpires, TimerReports, scanVars, linkVars
<1>3. CASE RespStep
  BY <1>3 DEF RespStep, RespTaken, RespCanceled, HandleInvalid, HandlePreAsleep, HandleError,
     FlushScan, ErrorScanDone, ErrorFree, HandleOk, StopCompletes, RespTail, scanVars, linkVars
<1>4. CASE EventStep \/ HangStep
  BY <1>4 DEF EventStep, ScanReport, ScanStatus, StatusStopsTimer, ScanCompletes, MoveDeferred,
     HangStep, HangCancel, HangFlushScan, HangFlushExt, FlushScan, scanVars, linkVars
<1> QED BY <1>1, <1>2, <1>3, <1>4 DEF Next, MainStep

\* The user's moves.
LEMMA UserStays ==
  ASSUME [Next]_vars, ~UserStep
  PROVE  user' = user
  BY DEF Next, Request, MainStep, DnldStep, ExecNextCmd, DnldCurrent,
     DnldSent, DnldFails, NoRespDone, NoRespFree, DnldArm, DownloadDone, RxCmdResp, RespStep,
     RespTaken, RespCanceled, HandleInvalid, HandlePreAsleep, HandleError, ErrorScanDone, ErrorFree,
     HandleOk, StopCompletes, RespTail, EventStep, ScanReport, ScanStatus, StatusStopsTimer,
     ScanCompletes, MoveDeferred, FwRespond, TimerStep, TimerExpires, TimerReports, HangStep,
     HangCancel, HangFlushScan, HangFlushExt, vars

\* The node of the user changes when it is taken from the free list.
LEMMA UserNodeStep ==
  ASSUME Shape, [Next]_vars
  PROVE  /\ user'.node = user.node \/ user'.node = None \/ GetCmdNode
         /\ user'.node # None /\ ~GetCmdNode => user'.ioctl = user.ioctl
<1> USE NoneApart
<1>0. user \in UserRec /\ Control
  BY DEF Shape, Types
<1>1. CASE ~UserStep
  BY <1>1, UserStays
<1>2. CASE GetCmdNode
  BY <1>2
<1>3. CASE (\E i \in Ioctl : Enter(i)) \/ ScanStart \/ CancelFlush \/ PrepareFails
  <2>1. user'.node = None \/ user' = user
    BY <1>3 DEF Enter, ScanStart, CancelFlush, PrepareFails, UserReturn, UserIdle
  <2> QED BY <2>1
<1>4. CASE NoCmdNode \/ CancelScan \/ CancelBss \/ StopDecide
  <2>1. user' = UserIdle \/ \E p : user' = [user EXCEPT !.pc = p]
    BY <1>4 DEF NoCmdNode, CancelScan, CancelBss, StopDecide, UserTo, UserReturn
  <2>2. UserIdle.node = None
    BY DEF UserIdle
  <2>3. \A p : [user EXCEPT !.pc = p].node = user.node /\ [user EXCEPT !.pc = p].ioctl = user.ioctl
    BY <1>0 DEF UserRec
  <2> QED BY <2>1, <2>2, <2>3
<1>5. CASE PrepareQueues
  <2>1. CASE user' = UserIdle
    BY <2>1 DEF UserIdle
  <2>2. CASE \E p : user' = [user EXCEPT !.pc = p, !.node = None]
    BY <1>0, <2>2 DEF UserRec
  <2>3. CASE \E p, t : user' = [user EXCEPT !.pc = p, !.node = None, !.todo = t]
    BY <1>0, <2>3 DEF UserRec
  <2> QED BY <1>5, <2>1, <2>2, <2>3 DEF PrepareQueues, UserReturn
<1> QED BY <1>1, <1>2, <1>3, <1>4, <1>5 DEF UserStep

-----------------------------------------------------------------------------
(* The command of the user, and the queue of scan commands.                *)

\* The node of the user holds the command of its request.
LEMMA UserCmdStep ==
  ASSUME Engine, Engine', [Next]_vars, UserCmd
  PROVE  UserCmd'
<1> USE NoneApart
<1>0. /\ Shape /\ user.node \in Node \cup {None} /\ user \in UserRec /\ Apart
  BY NotFreeAgain DEF Engine, Shape, Types, UserRec
<1>1. Apart'
  BY NotFreeAgain, PTL DEF Engine
<1> SUFFICES ASSUME user'.node # None
             PROVE  /\ node'[user'.node].cmd = "stop" => Kind(user.ioctl)' \in {"cancel", "bssrm"}
                    /\ IsScan(user.ioctl)' => node'[user'.node].cmd \in ScanKinds
  BY DEF UserCmd
<1>2. user'.pc # "idle" /\ user'.ioctl \in Ioctl /\ user'.node \in Node
  BY DEF Engine, Shape, Control, Types, UserRec
<1>3. CASE GetCmdNode
  <2>1. PICK n \in cmd_free_q :
          /\ cmd_free_q' = cmd_free_q \ {n}
          /\ user' = [user EXCEPT !.pc = "queue", !.node = n]
    BY <1>3 DEF GetCmdNode
  <2>2. n \notin cmd_free_q'
    BY <2>1
  <2>3. node'[n].cmd = CmdOf(user.ioctl) /\ user'.node = n /\ user'.ioctl = user.ioctl
    BY <1>0, <2>2, NodeTaken
  <2>4. Kind(user.ioctl)' = Kind(user.ioctl) /\ user.ioctl \in Ioctl
    BY <1>2, <2>3, <1>3 DEF GetCmdNode, Kind
  <2>5. Kind(user.ioctl) \in Kinds
    BY <1>0, <2>4 DEF Shape, Types, Kind, Req
  <2> QED BY <2>3, <2>4, <2>5 DEF CmdOf, IsScan, ScanKinds, Kinds
<1>4. CASE ~GetCmdNode
  <2>1. user'.node = user.node /\ user'.ioctl = user.ioctl /\ user.node \in Node
    BY <1>0, <1>4, UserNodeStep
  <2>2. user.node \notin cmd_free_q /\ user.node \notin cmd_free_q'
    BY <1>0, <1>1, <2>1 DEF Apart
  <2>3. NodeKept(user.node)
    BY <1>0, <2>1, <2>2, NodeStep
  <2>4. PICK i \in Ioctl : i = user.ioctl
    BY <1>2, <2>1
  <2>5. req'[i].kind = req[i].kind
    BY AllMoved
  <2>6. Kind(user.ioctl)' = Kind(user.ioctl)
    BY <2>1, <2>4, <2>5 DEF Kind
  <2> QED BY <2>1, <2>3, <2>6 DEF UserCmd, NodeKept, IsScan
<1> QED BY <1>3, <1>4

\* A node that leaves the scan queue is freed, or moves to the pending queue.
LEMMA ScanQueueKeeps ==
  ASSUME Shape, [Next]_vars, ~ScanStart, ~ScanReport, ~ScanStatus
  PROVE  /\ \A n \in Range(scan_pending_q) : n \in Range(scan_pending_q') \/ n \in cmd_free_q'
         /\ scan_pending_q # <<>> /\ scan_pending_q' = <<>> =>
              CancelFlush \/ HandleError \/ HangFlushScan
<1>1. PICK w : Places(w)
  BY DEF Shape
<1>2. Queue(scan_pending_q)
  BY <1>1 DEF Places
<1>3. \/ scan_pending_q' = scan_pending_q
      \/ scan_pending_q' = <<>> /\ (CancelFlush \/ HandleError \/ HangFlushScan)
                               /\ \E r : FlushScan(r)
      \/ PrepareQueues
  BY Zenon DEF Next, Request, UserStep, Enter, GetCmdNode, NoCmdNode, PrepareFails, ScanStart,
     CancelScan, CancelBss, StopDecide, CancelFlush, MainStep, DnldStep, ExecNextCmd, DnldCurrent,
     DnldSent, DnldFails, NoRespDone, NoRespFree, DnldArm, DownloadDone, RxCmdResp, RespStep,
     RespTaken, RespCanceled, HandleInvalid, HandlePreAsleep, HandleError, ErrorScanDone, ErrorFree,
     HandleOk, StopCompletes, RespTail, EventStep, StatusStopsTimer,
     ScanCompletes, MoveDeferred, FwRespond, TimerStep, TimerExpires, TimerReports, HangStep,
     HangCancel, HangFlushScan, HangFlushExt, vars, queueVars, FlushScan
<1>4. CASE PrepareQueues
  <2>1. \/ scan_pending_q' = Append(scan_pending_q, user.node)
        \/ scan_pending_q' = scan_pending_q
    BY <1>4 DEF PrepareQueues, Enqueue, QueueCmd
  <2>2. CASE scan_pending_q' = Append(scan_pending_q, user.node)
    <3>1. user.node \in Node /\ user.node \notin Range(scan_pending_q)
      BY <1>4, NoneApart, NotFreeAgain DEF Apart, PrepareQueues, UserAt, Shape, Types, UserRec, Control
    <3>2. Range(scan_pending_q') = Range(scan_pending_q) \cup {user.node}
      BY <1>2, <2>2, <3>1, AppendQueue
    <3>3. scan_pending_q' # <<>>
      BY <3>2, EmptyQueue
    <3> QED BY <3>2, <3>3
  <2> QED BY <2>1, <2>2
<1>5. CASE scan_pending_q' = <<>> /\ (CancelFlush \/ HandleError \/ HangFlushScan)
                               /\ \E r : FlushScan(r)
  <2>1. cmd_free_q' = cmd_free_q \cup Range(scan_pending_q)
    BY <1>5 DEF FlushScan, Free
  <2> QED BY <1>5, <2>1
<1> QED BY <1>3, <1>4, <1>5

-----------------------------------------------------------------------------
(* Still is preserved: firmware, nodes and user.                           *)

\* Without a scan command the firmware runs no scan.
LEMMA StillFw ==
  ASSUME Engine, [Next]_vars, Still
  PROVE  fw'.scan = "idle" /\ ~ScanReport /\ ~ScanStatus
<1> USE NoneApart
<1>0. Shape /\ Linked /\ fw \in FwRec /\ fw.scan = "idle" /\ Apart
  BY NotFreeAgain DEF Engine, Shape, Types, Still
<1>1. ~ScanReport /\ ~ScanStatus
  BY <1>0 DEF ScanReport, ScanStatus, EventAt
<1>2. CASE FwRespond
  <2>1. /\ fw.cmd # None /\ curr_cmd \in Node /\ node[curr_cmd].cmd = fw.cmd
        /\ curr_cmd \notin cmd_free_q
    BY <1>0, <1>2 DEF FwRespond, Linked, Apart, Shape, Types
  <2>2. curr_cmd \notin Range(scan_pending_q) /\ curr_cmd # user.node
    BY <1>0, <2>1 DEF Apart
  <2>3. fw.cmd \notin ScanKinds
    BY <2>1, <2>2 DEF Still
  <2>4. fw.cmd # "scan" /\ fw.cmd # "dscan"
    BY <2>3 DEF ScanKinds
  <2>5. PICK r : fw' = [fw EXCEPT !.rsp = r,
                           !.scan = CASE r = "ok" /\ fw.cmd = "scan" -> "run"
                                      [] r = "ok" /\ fw.cmd = "dscan" -> "drun"
                                      [] r = "ok" /\ fw.cmd = "stop" /\ @ = "run" -> "reported"
                                      [] r = "ok" /\ fw.cmd = "stop" /\ @ = "drun" -> "idle"
                                      [] OTHER -> @]
    BY <1>2 DEF FwRespond
  <2>6. fw'.scan = CASE r = "ok" /\ fw.cmd = "scan" -> "run"
                     [] r = "ok" /\ fw.cmd = "dscan" -> "drun"
                     [] r = "ok" /\ fw.cmd = "stop" /\ fw.scan = "run" -> "reported"
                     [] r = "ok" /\ fw.cmd = "stop" /\ fw.scan = "drun" -> "idle"
                     [] OTHER -> fw.scan
    BY <1>0, <2>5 DEF FwRec
  <2> QED BY <1>0, <1>1, <2>4, <2>6
<1>3. CASE DnldSent
  <2>1. \E c : fw' = [fw EXCEPT !.cmd = c]
    BY <1>3 DEF DnldSent
  <2> QED BY <1>0, <1>1, <2>1 DEF FwRec
<1>4. CASE RxCmdResp
  BY <1>0, <1>1, <1>4 DEF RxCmdResp, FwRec
<1>5. CASE ScanStart
  BY <1>0, <1>1, <1>5 DEF ScanStart, linkVars
<1> QED BY <1>0, <1>1, <1>2, <1>3, <1>4, <1>5, ScanVarsStep

\* A scan command before the first scan waits in scan_pending_q.
LEMMA StillNodes ==
  ASSUME Engine, Engine', [Next]_vars, Still, UserCmd, ~ScanStart,
         NEW n \in Node \ cmd_free_q', node'[n].cmd \in ScanKinds \cup {"stop"}
  PROVE  n \in Range(scan_pending_q') \/ n = user'.node
<1> USE NoneApart
<1>0. Shape /\ ~ScanReport /\ ~ScanStatus
  BY StillFw DEF Engine
<1>1. CASE n \in cmd_free_q
  BY <1>0, <1>1, NodeTaken
<1>2. CASE n \notin cmd_free_q
  <2>1. NodeKept(n)
    BY <1>0, <1>2, NodeStep
  <2>2. n \in Range(scan_pending_q) \/ n = user.node
    BY <1>2, <2>1 DEF NodeKept, Still
  <2>3. CASE n \in Range(scan_pending_q)
    BY <1>0, <2>3, ScanQueueKeeps
  <2>4. CASE n = user.node /\ user'.node # user.node
    <3>1. user.node # None /\ user.pc = "queue" /\ Control /\ user.ioctl # None
      BY <1>0, <2>4 DEF Shape, Control
    <3>2. ~GetCmdNode
      BY <3>1 DEF GetCmdNode, UserAt
    <3>3. user'.node = None
      BY <1>0, <2>4, <3>2, UserNodeStep
    <3>4. PrepareFails \/ PrepareQueues
      BY <3>1, <3>2, <2>4, UserStays
         DEF UserStep, Enter, NoCmdNode, ScanStart, CancelScan, CancelBss, StopDecide, CancelFlush,
             UserAt
    <3>5. PrepareQueues
      BY <2>4, <3>4 DEF PrepareFails, Free
    <3>6. node[n].cmd \in ScanKinds
      <4>1. node[n].cmd # "stop"
        BY <2>4, <3>1 DEF Still, UserCmd
      <4>2. node[n].cmd \in ScanKinds \cup {"stop"}
        BY <2>1 DEF NodeKept
      <4> QED BY <4>1, <4>2
    <3>7. AsScan(node[user.node].cmd)
      BY <2>4, <3>6 DEF AsScan
    <3>8. scan_pending_q' = Append(scan_pending_q, user.node)
      BY <3>5, <3>7 DEF PrepareQueues, Enqueue
    <3>9. Queue(scan_pending_q) /\ user.node \in Node /\ user.node \notin Range(scan_pending_q)
      BY <1>0, <2>4, NotFreeAgain DEF Apart, Shape, Places
    <3> QED BY <2>4, <3>8, <3>9, AppendQueue
  <2> QED BY <2>2, <2>3, <2>4
<1> QED BY <1>1, <1>2

\* Without a scan there is nothing to stop.
LEMMA StillUser ==
  ASSUME Engine, Engine', [Next]_vars, Still, UserCmd, ~ScanStart
  PROVE  user'.pc \in {"get", "queue", "stop"} => Kind(user.ioctl)' \notin {"cancel", "bssrm"}
<1> USE NoneApart
<1>0. Shape /\ Types /\ Control /\ UserKnown /\ user \in UserRec /\ pscan_ioctl_req = None
  BY DEF Engine, Shape, Types, Still
<1>k. ASSUME user'.ioctl = user.ioctl, user.ioctl \in Ioctl
      PROVE  Kind(user.ioctl)' = Kind(user.ioctl)
  <2>1. PICK i \in Ioctl : i = user.ioctl
    BY <1>k
  <2>2. req'[i].kind = req[i].kind
    BY AllMoved
  <2> QED BY <1>k, <2>1, <2>2 DEF Kind
<1>p. ASSUME NEW p, user' = [user EXCEPT !.pc = p] PROVE user'.pc = p /\ user'.ioctl = user.ioctl
  BY <1>0, <1>p DEF UserRec
<1>i. ASSUME user' = UserIdle PROVE user'.pc = "idle"
  BY <1>i DEF UserIdle
<1>1. CASE ~UserStep
  <2>1. user' = user
    BY <1>1, UserStays
  <2> QED BY <1>0, <1>k, <2>1, UserFacts DEF Still
<1>2. CASE \E i \in Ioctl : Enter(i)
  <2> PICK i \in Ioctl : Enter(i)
    BY <1>2
  <2>1. CASE ScanBusy(i)
    <3>1. user' = user /\ user.pc = "idle"
      BY <2>1 DEF Enter, UserAt
    <3> QED BY <3>1
  <2>2. CASE ~ScanBusy(i)
    <3>1. user' = [pc |-> IF Kind(i) \in {"cancel", "bssrm"} THEN Kind(i) ELSE "get",
                   ioctl |-> i, node |-> None, todo |-> IF IsScan(i) THEN ScanCmds(i) ELSE 0]
      BY <2>2 DEF Enter
    <3>2. user'.ioctl = i /\ (Kind(i) \in {"cancel", "bssrm"} => user'.pc \in {"cancel", "bssrm"})
      BY <3>1
    <3>3. req'[i].kind = req[i].kind
      BY AllMoved
    <3> QED BY <3>2, <3>3 DEF Kind
  <2> QED BY <2>1, <2>2
<1>3. CASE GetCmdNode
  <2>1. user.pc = "get" /\ \E n : user' = [user EXCEPT !.pc = "queue", !.node = n]
    BY <1>3 DEF GetCmdNode, UserAt
  <2>2. user'.ioctl = user.ioctl
    BY <1>0, <2>1 DEF UserRec
  <2> QED BY <1>0, <1>k, <2>1, <2>2, UserFacts DEF Still
<1>4. CASE NoCmdNode \/ PrepareFails \/ CancelFlush \/ StopDecide
  <2>1. user.pc # "stop"
    BY <1>0, UserFacts DEF Still, UserKnown
  <2>2. user' = UserIdle \/ user' = [user EXCEPT !.pc = "flush"]
    BY <1>4, <2>1 DEF NoCmdNode, PrepareFails, CancelFlush, StopDecide, UserReturn, UserTo, UserAt
  <2> QED BY <1>i, <1>p, <2>2
<1>5. CASE PrepareQueues
  <2>1. user.pc = "queue" /\ user.ioctl \in Ioctl /\ Kind(user.ioctl) \notin {"cancel", "bssrm"}
    BY <1>0, <1>5, UserFacts DEF PrepareQueues, UserAt, Still
  <2>2. \/ user' = UserIdle
        \/ \E p, t : user' = [user EXCEPT !.pc = p, !.node = None, !.todo = t]
    BY <1>5, <2>1 DEF PrepareQueues, UserReturn
  <2>3. user' = UserIdle \/ user'.ioctl = user.ioctl
    BY <1>0, <2>2 DEF UserRec
  <2> QED BY <1>i, <1>k, <2>1, <2>3
<1>6. CASE CancelScan
  <2>1. user' = [user EXCEPT !.pc = "flush"]
    BY <1>0, <1>6 DEF CancelScan, UserTo
  <2> QED BY <1>p, <2>1
<1>7. CASE CancelBss
  <2>1. user' = UserIdle \/ user' = [user EXCEPT !.pc = "flush"]
    <3>1. Some(pscan_ioctl_req) = {}
      BY <1>0 DEF Some
    <3> QED BY <1>7, <3>1 DEF CancelBss, UserTo
  <2> QED BY <1>i, <1>p, <2>1
<1> QED BY <1>1, <1>2, <1>3, <1>4, <1>5, <1>6, <1>7 DEF UserStep

-----------------------------------------------------------------------------
(* Quiet and LoneHeld are preserved.                                       *)

\* The first scan finds what it queued, unless the driver is dead.
LEMMA StillStart ==
  ASSUME Engine, [Next]_vars, Still, UserCmd, ~ScanStart, user'.pc = "start"
  PROVE  scan_pending_q' # <<>> \/ driver_status'
<1> USE NoneApart
<1>0. /\ Shape /\ Types /\ Control /\ UserKnown /\ user \in UserRec /\ Exits /\ Apart
      /\ ~ScanReport /\ ~ScanStatus
  BY StillFw, NotFreeAgain DEF Engine, Shape, Types
<1>1. CASE user.pc = "start"
  <2>1. ~CancelFlush
    BY <1>1 DEF CancelFlush, UserAt
  <2>2. ~HandleError \/ scan_pending_q' = scan_pending_q
    <3>1. SUFFICES ASSUME HandleError
                   PROVE  scan_pending_q' = scan_pending_q
      OBVIOUS
    <3>2. curr_cmd \in Node /\ curr_cmd \notin cmd_free_q
      BY <1>0, <3>1 DEF HandleError, Handling, MainAt, Control, AfterResp, Apart, Types
    <3>3. curr_cmd \notin Range(scan_pending_q) /\ curr_cmd # user.node
      BY <1>0, <3>2 DEF Apart
    <3>4. node[curr_cmd].cmd \notin ScanKinds \cup {"stop"}
      BY <3>2, <3>3 DEF Still
    <3> QED BY <3>1, <3>4 DEF HandleError
  <2>3. HangFlushScan => driver_status'
    BY <1>0 DEF HangFlushScan, Exits
  <2>4. scan_pending_q # <<>> \/ driver_status
    BY <1>1 DEF Still
  <2>5. driver_status => driver_status'
    BY ScanVarsStep
  <2> QED BY <1>0, <2>1, <2>2, <2>3, <2>4, <2>5, ScanQueueKeeps
<1>2. CASE user.pc # "start" /\ PrepareQueues
  <2>1. user.pc = "queue" /\ user.ioctl \in Ioctl /\ user.node \in Node
    BY <1>0, <1>2, UserFacts DEF PrepareQueues, UserAt, Control, UserRec
  <2>2. IsScan(user.ioctl)
    <3>1. SUFFICES ASSUME ~IsScan(user.ioctl)
                   PROVE  FALSE
      OBVIOUS
    <3>2. user' = UserIdle \/ user' = [user EXCEPT !.pc = "flush", !.node = None]
      BY <1>2, <3>1 DEF PrepareQueues, UserReturn
    <3>3. CASE user' = UserIdle
      BY <3>3 DEF UserIdle
    <3>4. CASE user' = [user EXCEPT !.pc = "flush", !.node = None]
      BY <1>0, <3>4 DEF UserRec
    <3> QED BY <3>2, <3>3, <3>4
  <2>3. AsScan(node[user.node].cmd)
    BY <2>1, <2>2 DEF UserCmd, AsScan
  <2>4. scan_pending_q' = Append(scan_pending_q, user.node)
    BY <1>2, <2>3 DEF PrepareQueues, Enqueue
  <2>5. Queue(scan_pending_q) /\ user.node \notin Range(scan_pending_q)
    BY <1>0, <2>1 DEF Apart, Shape, Places
  <2>6. Range(scan_pending_q') = Range(scan_pending_q) \cup {user.node}
    BY <2>1, <2>4, <2>5, AppendQueue
  <2> QED BY <2>6, EmptyQueue
<1>3. CASE user.pc # "start" /\ ~PrepareQueues
  <2>1. user' # user
    BY <1>3
  <2>2. \/ user' = UserIdle
        \/ \E p \in {"flush", "get", "stop"} : user' = [user EXCEPT !.pc = p]
        \/ GetCmdNode
        \/ \E i \in Ioctl : Enter(i)
    BY <1>3, <2>1, UserStays DEF UserStep, NoCmdNode, PrepareFails, CancelScan, CancelBss,
       StopDecide, CancelFlush, UserReturn, UserTo
  <2>3. CASE user' = UserIdle
    BY <2>3 DEF UserIdle
  <2>4. CASE \E p \in {"flush", "get", "stop"} : user' = [user EXCEPT !.pc = p]
    BY <1>0, <2>4 DEF UserRec
  <2>5. CASE GetCmdNode
    <3>1. \E n : user' = [user EXCEPT !.pc = "queue", !.node = n]
      BY <2>5 DEF GetCmdNode
    <3> QED BY <1>0, <3>1 DEF UserRec
  <2>6. CASE \E i \in Ioctl : Enter(i)
    <3> PICK i \in Ioctl : Enter(i)
      BY <2>6
    <3>1. user' = [pc |-> IF Kind(i) \in {"cancel", "bssrm"} THEN Kind(i) ELSE "get",
                   ioctl |-> i, node |-> None, todo |-> IF IsScan(i) THEN ScanCmds(i) ELSE 0]
      BY <2>1 DEF Enter
    <3>2. user'.pc = IF Kind(i) \in {"cancel", "bssrm"} THEN Kind(i) ELSE "get"
      BY <3>1
    <3> QED BY <3>2
  <2> QED BY <2>2, <2>3, <2>4, <2>5, <2>6
<1> QED BY <1>1, <1>2, <1>3

\* Every step keeps Quiet.
LEMMA QuietStep ==
  ASSUME Engine, Engine', [Next]_vars, Quiet, UserCmd
  PROVE  Quiet'
<1> SUFFICES ASSUME Fresh'
             PROVE  Still'
  BY DEF Quiet
<1>1. Still /\ ~ScanStart
  BY FreshBefore, FreshNoStart DEF Quiet
<1>2. ~scan_processing' /\ pscan_ioctl_req' = None /\ fw'.scan = "idle"
  <2>1. ~scan_processing /\ pscan_ioctl_req = None
    BY <1>1 DEF Still
  <2>2. /\ scan_processing' = scan_processing \/ scan_processing' = FALSE
        /\ pscan_ioctl_req' = pscan_ioctl_req \/ pscan_ioctl_req' = None
    BY <1>1, ScanVarsStep
  <2>3. fw'.scan = "idle"
    BY <1>1, StillFw
  <2>4. ~scan_processing'
    BY <2>1, <2>2, Zenon
  <2> QED BY <2>1, <2>2, <2>3, <2>4
<1>3. \A n \in Node \ cmd_free_q' :
        node'[n].cmd \in ScanKinds \cup {"stop"} => n \in Range(scan_pending_q') \/ n = user'.node
  BY <1>1, StillNodes
<1>4. user'.pc \in {"get", "queue", "stop"} => Kind(user.ioctl)' \notin {"cancel", "bssrm"}
  BY <1>1, StillUser
<1>5. user'.pc = "start" => scan_pending_q' # <<>> \/ driver_status'
  BY <1>1, StillStart
<1> QED BY <1>2, <1>3, <1>4, <1>5 DEF Still

\* A request that is alone after a step was so before.
LEMMA AloneBefore ==
  ASSUME Engine, [Next]_vars, NEW i \in Ioctl, Alone(i)'
  PROVE  Alone(i)
<1> SUFFICES ASSUME NEW j \in Ioctl \ {i}, Begun(j)
             PROVE  FALSE
  BY DEF Alone
<1>1. Begun(j)'
  BY BegunStays
<1> QED BY <1>1 DEF Alone

\* Every step keeps the request of the only scan in pscan_ioctl_req.
LEMMA LoneHeldStep ==
  ASSUME Engine, Engine', [Next]_vars, Quiet, LoneHeld
  PROVE  LoneHeld'
<1> USE NoneApart
<1>0. /\ Shape /\ Types /\ Control /\ UserKnown /\ Known /\ Held
  BY DEF Engine, Shape
<1> SUFFICES ASSUME NEW i \in Ioctl, IsScan(i)', Alone(i)', req'[i].st = "pending",
                    req'[i].done = 0
             PROVE  pscan_ioctl_req' = i \/ driver_status'
  BY DEF LoneHeld
<1>1. Alone(i) /\ IsScan(i) /\ Moved(i)
  BY AloneBefore, AllMoved DEF IsScan, Kind
<1>d. driver_status => driver_status'
  <2>1. CASE ScanStart
    BY <2>1 DEF ScanStart
  <2> QED BY <2>1, ScanVarsStep
<1>2. CASE ScanStart
  <2>1. user.pc = "start" /\ user.ioctl \in Ioctl /\ IsScan(user.ioctl)
        /\ req[user.ioctl].st = "running"
    <3>1. user.pc = "start" /\ user.ioctl \in Ioctl /\ IsScan(user.ioctl)
      BY <1>0, <1>2, UserFacts DEF ScanStart, UserAt, UserKnown
    <3>2. Kind(user.ioctl) # "cancel"
      BY <3>1 DEF IsScan, ScanKinds
    <3> QED BY <1>0, <3>1, <3>2 DEF UserKnown
  <2>2. user.ioctl = i
    BY <1>1, <2>1 DEF Alone, Begun
  <2>3. Fresh
    BY <1>1, <2>2 DEF Fresh, Alone
  <2>4. scan_pending_q # <<>> \/ driver_status
    BY <2>1, <2>3 DEF Quiet, Still
  <2> QED BY <1>2, <1>d, <2>2, <2>4 DEF ScanStart
<1>3. CASE ~UserMove
  <2>1. PICK D : Settles(D)
    BY <1>3, SettleStep DEF SomeSettled
  <2>2. req[i].done \in 0 .. 2
    BY <1>0 DEF Types, Req
  <2>3. i \notin D /\ req[i].st = "pending" /\ req[i].done = 0
    BY <2>1, <2>2 DEF Settles, Bump
  <2>4. pscan_ioctl_req = i \/ driver_status
    BY <1>1, <2>3 DEF LoneHeld
  <2> QED BY <1>d, <2>1, <2>3, <2>4 DEF Settles
<1>4. CASE UserMove /\ ~ScanStart
  <2>1. pscan_ioctl_req' = pscan_ioctl_req
    BY <1>4 DEF UserMove, Request, Enter, GetCmdNode, NoCmdNode, PrepareFails, PrepareQueues,
       FwRespond, scanVars
  <2>2. req[i].st = "pending" /\ req[i].done = 0
    <3>1. req[i].done = 0
      <4>1. CASE FwRespond
        BY <1>0, <4>1, AnswerAt
      <4> QED BY <1>0, <1>4, <4>1, MoveAt DEF SameReq
    <3>2. CASE req[i].st # "pending"
      <4>1. req[i].st = "running" /\ user.ioctl = i
        BY <1>0, <1>1, <3>2 DEF Moved, Known
      <4>2. Kind(i) \in ScanKinds
        BY <1>1 DEF IsScan
      <4>3. PrepareQueues => req' = req
        BY <4>1, <4>2 DEF PrepareQueues, ScanKinds
      <4>4. FwRespond => req'[i].st = req[i].st
        BY <1>0, AnswerAt
      <4>5. ASSUME NEW j \in Ioctl, Request(j) \/ Enter(j)
            PROVE  req'[i].st # "pending"
        <5>1. j # i
          BY <4>1, <4>5 DEF Request, Enter
        <5>2. req'[i] = req[i]
          BY <1>0, <4>5, <5>1 DEF Request, Enter, Status, Types
        <5> QED BY <4>1, <5>2
      <4>6. NoCmdNode \/ PrepareFails => req'[i].st # "pending"
        <5>1. NoCmdNode => req' = req \/ req' = Status(req, i, "returned")
          BY <4>1 DEF NoCmdNode, UserReturn
        <5>2. PrepareFails => req' = Status(req, i, "returned")
          BY <1>0, <4>1, FailsReq
        <5>3. Status(req, i, "returned")[i].st = "returned"
          BY <1>0, StatusOK DEF Types
        <5> QED BY <4>1, <5>1, <5>2, <5>3
      <4>7. GetCmdNode => req' = req
        BY DEF GetCmdNode
      <4> QED BY <1>4, <3>2, <4>1, <4>3, <4>4, <4>5, <4>6, <4>7 DEF UserMove
    <3> QED BY <3>1, <3>2
  <2>3. pscan_ioctl_req = i \/ driver_status
    BY <1>1, <2>2 DEF LoneHeld
  <2> QED BY <1>d, <2>1, <2>3
<1> QED BY <1>2, <1>3, <1>4

-----------------------------------------------------------------------------
(* Pending requests are held.                                              *)

\* The invariant for scans.
Scans == UserCmd /\ Quiet /\ LoneHeld

\* Scans holds at first.
LEMMA ScansInit ==
  ASSUME Init
  PROVE  Scans
<1> USE NoneApart
<1>1. user.pc = "idle" /\ user.node = None
  BY DEF Init, UserIdle
<1>2. /\ scan_processing = FALSE /\ pscan_ioctl_req = None /\ fw.scan = "idle"
      /\ cmd_free_q = Node
  BY DEF Init
<1>3. \A i \in Ioctl : req[i].st = "new"
  BY DEF Init
<1>4. Still
  BY <1>1, <1>2 DEF Still
<1> QED BY <1>1, <1>3, <1>4 DEF Scans, UserCmd, Quiet, LoneHeld

\* Every step keeps Scans.
LEMMA ScansStep ==
  ASSUME Engine, Scans, [Next]_vars
  PROVE  Scans'
<1>1. Engine'
  BY EngineStep
<1> QED BY <1>1, UserCmdStep, QuietStep, LoneHeldStep DEF Scans

\* Engine and Scans, for every value of the constants.
THEOREM ScansKept == Spec => [](Engine /\ Scans)
<1>1. Init => Engine /\ Scans
  BY EngineInit, ScansInit
<1>2. Engine /\ Scans /\ [Next]_vars => (Engine /\ Scans)'
  BY EngineStep, ScansStep
<1> QED BY <1>1, <1>2, PTL DEF Spec

Carrying(i) == {n \in Node : node[n].ioctl = i}

\* How often a request is referred to.
LEMMA RefsOf ==
  ASSUME NEW i \in Ioctl
  PROVE  /\ Carrying(i) = {} => Refs(i) = IF pscan_ioctl_req = i THEN 1 ELSE 0
         /\ \A n \in Node : Carrying(i) = {n} => Refs(i) = 1 + (IF pscan_ioctl_req = i THEN 1 ELSE 0)
<1>1. Cardinality({}) = 0
  BY FS_EmptySet
<1>2. \A n : Cardinality({n}) = 1
  BY FS_Singleton
<1>3. Refs(i) = Cardinality(Carrying(i)) + (IF pscan_ioctl_req = i THEN 1 ELSE 0)
  BY DEF Refs, Carrying
<1> DEFINE p == IF pscan_ioctl_req = i THEN 1 ELSE 0
<1>4. p \in Nat
  OBVIOUS
<1>5. Refs(i) = Cardinality(Carrying(i)) + p
  BY <1>3
<1> HIDE DEF p
<1>6. ASSUME Carrying(i) = {} PROVE Refs(i) = p
  BY <1>1, <1>4, <1>5, <1>6
<1>7. ASSUME NEW n \in Node, Carrying(i) = {n} PROVE Refs(i) = 1 + p
  <2>1. Cardinality(Carrying(i)) = 1
    BY <1>2, <1>7, Zenon
  <2> QED BY <1>5, <2>1
<1> QED BY <1>6, <1>7 DEF p

\* A pending request is held once, any other nowhere.
LEMMA OwnedFacts ==
  ASSUME Engine, LoneHeld, NEW i \in Ioctl, Kind(i) # "cancel"
  PROVE  /\ req[i].st = "pending" /\ req[i].done = 0 =>
              Refs(i) = 1 \/ (IsScan(i) /\ (driver_status \/ ~Alone(i)))
         /\ req[i].done > 0 \/ req[i].st = "returned" => Refs(i) = 0
<1> USE NoneApart
<1>0. /\ Held /\ Known /\ req[i] \in Req /\ pscan_ioctl_req \in Ioctl \cup {None}
      /\ i # None
  BY DEF Engine, Shape, Types
<1>1. ASSUME req[i].st = "pending", req[i].done = 0
      PROVE  Refs(i) = 1 \/ (IsScan(i) /\ (driver_status \/ ~Alone(i)))
  <2>1. CASE Kind(i) \in Carryable
    <3>1. PICK n \in Node : node[n].ioctl = i
      BY <1>0, <1>1, <2>1 DEF Held
    <3>2. Carrying(i) = {n}
      BY <1>0, <3>1 DEF Held, Carrying
    <3>3. pscan_ioctl_req # i
      BY <1>0, <2>1 DEF Held, IsScan, ScanKinds, Carryable
    <3> QED BY <3>2, <3>3, RefsOf
  <2>2. CASE IsScan(i)
    <3>1. CASE pscan_ioctl_req = i
      <4>1. Carrying(i) = {}
        BY <1>0, <2>2 DEF Held, CarriedBy, Carrying, IsScan, ScanKinds, Carryable
      <4> QED BY <3>1, <4>1, RefsOf
    <3>2. CASE pscan_ioctl_req # i
      BY <1>1, <2>2, <3>2 DEF LoneHeld
    <3> QED BY <3>1, <3>2
  <2> QED BY <1>0, <1>1, <2>1, <2>2 DEF Known, Req, Kind, Kinds, IsScan, ScanKinds, Carryable
<1>2. ASSUME req[i].done > 0 \/ req[i].st = "returned"
      PROVE  Refs(i) = 0
  <2>1. req[i].done # 0 \/ req[i].st = "returned"
    BY <1>0, <1>2 DEF Req
  <2>2. Carrying(i) = {}
    BY <1>0, <2>1 DEF Held, CarriedBy, Carrying
  <2>3. pscan_ioctl_req # i
    BY <1>0, <2>1 DEF Held
  <2> QED BY <2>2, <2>3, RefsOf
<1> QED BY <1>1, <1>2

\* Engine and LoneHeld imply OwnedOnce.
LEMMA OwnedHolds ==
  ASSUME Engine, LoneHeld
  PROVE  OwnedOnce
<1> SUFFICES ASSUME NEW i \in Ioctl, Kind(i) # "cancel"
             PROVE  /\ req[i].st = "pending" /\ req[i].done = 0 =>
                         Refs(i) = 1 \/ (IsScan(i) /\ (driver_status \/ ~Alone(i)))
                    /\ req[i].done > 0 \/ req[i].st = "returned" => Refs(i) = 0
  BY DEF OwnedOnce
<1> QED BY OwnedFacts

\* A request answered PENDING is held exactly once until it is completed, and
\* nowhere afterwards: nobody completes it twice, and somebody will complete it.
THEOREM RequestsOwned == Spec => []OwnedOnce
  BY ScansKept, OwnedHolds, PTL DEF Scans

-----------------------------------------------------------------------------
(* When nothing is cancelled and nothing fails.                            *)

FairResults == {None, "ok", "pre_asleep"}

\* Nothing was cancelled and nothing failed.
Unharmed ==
  /\ fw.rsp \in FairResults /\ main.pc \notin {"errscan", "errfree"}
  /\ \A n \in Node \ cmd_free_q :
       /\ node[n].cmd # "stop" /\ ~node[n].canceled
       /\ node[n].resp \in FairResults /\ (node[n].resp # None => n = curr_cmd)
  /\ \A n \in Range(ext_cmd_pending_q) : node[n].cmd \notin ScanKinds

Harmless == NoFault => Unharmed

\* A scenario without faults has none before.
LEMMA NoFaultBefore ==
  ASSUME Engine, [Next]_vars
  PROVE  /\ NoFault' => NoFault
         /\ fw'.results = fw.results /\ fw'.fails = fw.fails
<1>0. fw \in FwRec
  BY DEF Engine, Shape, Types
<1>1. fw'.results = fw.results /\ fw'.fails = fw.fails
  <2>1. \/ fw' = fw
        \/ \E c : fw' = [fw EXCEPT !.cmd = c]
        \/ \E r, s : fw' = [fw EXCEPT !.rsp = r, !.scan = s]
        \/ fw' = [fw EXCEPT !.cmd = None, !.rsp = None]
        \/ \E s : fw' = [fw EXCEPT !.scan = s]
    <3>1. CASE DnldSent
      <4>1. \E c : fw' = [fw EXCEPT !.cmd = c]
        BY <3>1 DEF DnldSent
      <4> QED BY <4>1
    <3>2. CASE FwRespond
      <4>1. \E r, s : fw' = [fw EXCEPT !.rsp = r, !.scan = s]
        BY <3>2 DEF FwRespond
      <4> QED BY <4>1
    <3>3. CASE RxCmdResp
      BY <3>3 DEF RxCmdResp
    <3>4. CASE ScanReport \/ ScanStatus
      <4>1. \E s : fw' = [fw EXCEPT !.scan = s]
        BY <3>4 DEF ScanReport, ScanStatus
      <4> QED BY <4>1
    <3>5. CASE ScanStart
      BY <3>5 DEF ScanStart, linkVars
    <3> QED BY <3>1, <3>2, <3>3, <3>4, <3>5, ScanVarsStep
  <2>2. CASE \E c : fw' = [fw EXCEPT !.cmd = c]
    BY <1>0, <2>2 DEF FwRec
  <2>3. CASE \E r, s : fw' = [fw EXCEPT !.rsp = r, !.scan = s]
    BY <1>0, <2>3 DEF FwRec
  <2>4. CASE fw' = [fw EXCEPT !.cmd = None, !.rsp = None]
    BY <1>0, <2>4 DEF FwRec
  <2>5. CASE \E s : fw' = [fw EXCEPT !.scan = s]
    BY <1>0, <2>5 DEF FwRec
  <2> QED BY <2>1, <2>2, <2>3, <2>4, <2>5
<1>2. \A i \in Ioctl : req'[i].kind = req[i].kind
  BY AllMoved
<1>3. NoFault' => NoFault
  <2>1. SUFFICES ASSUME NoFault' PROVE NoFault
    OBVIOUS
  <2>2. ~fw'.fails /\ fw'.results \cap {"error", "invalid", "other"} = {}
    BY <2>1 DEF NoFault
  <2>3. ~fw.fails /\ fw.results \cap {"error", "invalid", "other"} = {}
    BY <1>1, <2>2
  <2>4. \A i \in Ioctl : req'[i].kind \notin {"cancel", "bssrm"}
    BY <2>1 DEF NoFault, Kind
  <2> QED BY <1>2, <2>3, <2>4 DEF NoFault, Kind
<1> QED BY <1>1, <1>3

\* The steps that are left.
LEMMA NoFaultSteps ==
  ASSUME Engine, Unharmed, NoFault
  PROVE  /\ RespCanceled => MainTo("handle") /\ UNCHANGED <<cmd_free_q, node, req, curr_cmd>>
         /\ ~CancelScan /\ ~CancelBss /\ ~StopDecide /\ ~CancelFlush /\ ~DnldFails
         /\ ~HandleInvalid /\ ~HandleError /\ ~ErrorScanDone /\ ~ErrorFree
<1> USE NoneApart
<1>0. Shape /\ Types /\ Control /\ UserKnown /\ curr_cmd \notin cmd_free_q
  BY CurrInUse DEF Engine, Shape
<1>1. ~CancelScan /\ ~CancelBss /\ ~StopDecide /\ ~CancelFlush
  <2>1. user.pc # "idle" => Kind(user.ioctl) \notin {"cancel", "bssrm"}
    BY <1>0, UserFacts DEF NoFault
  <2> QED BY <1>0, <2>1 DEF CancelScan, CancelBss, StopDecide, CancelFlush, UserAt, UserKnown
<1>2. ~DnldFails
  BY DEF NoFault, DnldFails
<1>3. main.pc \in AfterResp => /\ curr_cmd \in Node \ cmd_free_q
                               /\ node[curr_cmd].resp \in FairResults /\ ~node[curr_cmd].canceled
  BY <1>0 DEF Control, Unharmed, Types
<1>4. ~HandleInvalid /\ ~HandleError
  <2>1. "invalid" \notin FairResults /\ "error" \notin FairResults
    BY CmdAssumption DEF FairResults, AllResults
  <2> QED BY <1>3, <2>1 DEF HandleInvalid, HandleError, Handling, MainAt, AfterResp
<1>5. ~ErrorScanDone /\ ~ErrorFree
  BY DEF Unharmed, ErrorScanDone, ErrorFree, MainAt
<1>6. RespCanceled => MainTo("handle") /\ UNCHANGED <<cmd_free_q, node, req, curr_cmd>>
  BY <1>3 DEF RespCanceled, MainAt, AfterResp
<1> QED BY <1>1, <1>2, <1>4, <1>5, <1>6

\* Only cancelling marks a node.
LEMMA NotMarked ==
  ASSUME Shape, [Next]_vars, ~CancelScan, ~CancelBss, NEW n \in Node \ cmd_free_q, n \notin cmd_free_q'
  PROVE  node'[n].canceled = node[n].canceled
<1> USE NoneApart
<1>0. Types /\ node \in [Node -> NodeRec] /\ node[n] \in NodeRec
  BY DEF Shape, Types
<1>1. ASSUME NEW N, NEW S, NEW r, Free(N, r, Detach(node, S))
      PROVE  node'[n].canceled = node[n].canceled
  <2>1. node'[n] = Detach(node, S)[n]
    BY <1>1 DEF Free
  <2> QED BY <1>0, <2>1 DEF Detach, NodeRec
<1>2. ASSUME NEW N, NEW r, Free(N, r, node)
      PROVE  node'[n].canceled = node[n].canceled
  BY <1>2 DEF Free
<1>3. ASSUME node' = node PROVE node'[n].canceled = node[n].canceled
  BY <1>3
<1>4. CASE UserStep
  <2>1. CASE (\E i \in Ioctl : Enter(i)) \/ NoCmdNode \/ StopDecide \/ ScanStart
    BY <1>3, <2>1 DEF Enter, NoCmdNode, StopDecide, ScanStart
  <2>2. CASE GetCmdNode
    <3>1. PICK h \in cmd_free_q : \A m \in Node \ {h} : node'[m] = node[m]
      BY <1>0, <2>2 DEF GetCmdNode
    <3> QED BY <3>1
  <2>3. CASE PrepareFails
    BY <1>1, <2>3 DEF PrepareFails, Unbuilt
  <2>4. CASE PrepareQueues
    <3>1. PICK b : node' = [node EXCEPT ![user.node].scan = b]
      BY <2>4 DEF PrepareQueues, Enqueue
    <3> QED BY <1>0, <3>1 DEF NodeRec
  <2>5. CASE CancelFlush
    BY <1>2, <2>5 DEF CancelFlush, FlushScan
  <2> QED BY <1>4, <2>1, <2>2, <2>3, <2>4, <2>5 DEF UserStep
<1>5. CASE DnldStep
  BY <1>2, <1>3, <1>5 DEF DnldStep, ExecNextCmd, DnldCurrent, DnldSent, DnldFails, NoRespDone,
     NoRespFree, DnldArm
<1>6. CASE FwRespond \/ DownloadDone \/ TimerStep \/ EventStep \/ (\E i \in Ioctl : Request(i))
           \/ UNCHANGED vars
  BY <1>3, <1>6 DEF FwRespond, DownloadDone, TimerStep, TimerExpires, TimerReports, EventStep,
     ScanReport, ScanStatus, StatusStopsTimer, ScanCompletes, MoveDeferred, Request, vars
<1>7. CASE RxCmdResp \/ HandlePreAsleep
  <2>1. node' = node \/ \E c : node' = [node EXCEPT ![curr_cmd].resp = c]
    BY <1>7 DEF RxCmdResp, HandlePreAsleep
  <2> QED BY <1>0, <2>1 DEF NodeRec
<1>8. CASE RespStep /\ ~HandlePreAsleep
  BY <1>2, <1>3, <1>8 DEF RespStep, RespTaken, RespCanceled, HandleInvalid, HandleError,
     FlushScan, ErrorScanDone, ErrorFree, HandleOk, StopCompletes, RespTail
<1>9. CASE HangStep
  BY <1>1, <1>2, <1>9 DEF HangStep, HangCancel, flag, HangFlushScan, FlushScan, HangFlushExt
<1> QED BY <1>4, <1>5, <1>6, <1>7, <1>8, <1>9 DEF Next, MainStep

-----------------------------------------------------------------------------
(* Harmless is preserved.                                                  *)

\* The main loop handles no error.
LEMMA UnharmedMain ==
  ASSUME Engine, Unharmed, NoFault, [Next]_vars
  PROVE  main'.pc \notin {"errscan", "errfree"}
<1>0. main \in MainRec /\ main.pc \notin {"errscan", "errfree"}
  BY DEF Engine, Shape, Types, Unharmed
<1>t. ASSUME NEW p \in {"send", "noresp", "arm", "idle", "nrfree", "handle", "tail", "stopped", "report",
                        "status", "complete", "move"}, MainTo(p)
      PROVE  main'.pc \notin {"errscan", "errfree"}
  BY <1>0, <1>t DEF MainTo, MainRec
<1>i. ASSUME \/ main' = MainIdle \/ main' = main
             \/ \E n : main' = [MainIdle EXCEPT !.pc = "dnld", !.node = n]
             \/ main' = [MainIdle EXCEPT !.pc = "send"]
             \/ \E i : main' = [MainIdle EXCEPT !.pc = "resp", !.ioctl = i]
      PROVE  main'.pc \notin {"errscan", "errfree"}
  <2>1. /\ MainIdle.pc = "idle" /\ [MainIdle EXCEPT !.pc = "send"].pc = "send"
        /\ \A n : [MainIdle EXCEPT !.pc = "dnld", !.node = n].pc = "dnld"
        /\ \A i : [MainIdle EXCEPT !.pc = "resp", !.ioctl = i].pc = "resp"
    BY DEF MainIdle
  <2>2. CASE \E n : main' = [MainIdle EXCEPT !.pc = "dnld", !.node = n]
    <3>1. PICK n : main' = [MainIdle EXCEPT !.pc = "dnld", !.node = n]
      BY <2>2
    <3>2. main'.pc = "dnld"
      BY <2>1, <3>1
    <3> QED BY <3>2
  <2>3. CASE \E i : main' = [MainIdle EXCEPT !.pc = "resp", !.ioctl = i]
    <3>1. PICK i : main' = [MainIdle EXCEPT !.pc = "resp", !.ioctl = i]
      BY <2>3
    <3>2. main'.pc = "resp"
      BY <2>1, <3>1
    <3> QED BY <3>2
  <2>4. CASE main' = MainIdle \/ main' = main \/ main' = [MainIdle EXCEPT !.pc = "send"]
    BY <1>0, <2>1, <2>4
  <2> QED BY <1>i, <2>2, <2>3, <2>4
<1>1. CASE UserStep \/ TimerStep \/ HangStep \/ FwRespond \/ (\E i \in Ioctl : Request(i)) \/ UNCHANGED vars
  <2>1. main' = main
    BY <1>1 DEF UserStep, Enter, GetCmdNode, NoCmdNode, PrepareFails, PrepareQueues, ScanStart,
       CancelScan, CancelBss, StopDecide, CancelFlush, TimerStep, TimerExpires, TimerReports,
       HangStep, HangCancel, HangFlushScan, HangFlushExt, Request, vars, FwRespond
  <2> QED BY <1>0, <2>1
<1>2. CASE DnldStep
  <2>1. CASE ExecNextCmd
    <3>1. main' = [MainIdle EXCEPT !.pc = "dnld", !.node = Head(cmd_pending_q)]
      BY <2>1 DEF ExecNextCmd
    <3> QED BY <1>i, <3>1
  <2>2. CASE DnldCurrent
    BY <1>i, <2>2 DEF DnldCurrent
  <2>3. CASE DnldSent
    BY <1>t, <2>3 DEF DnldSent
  <2>4. CASE DnldFails \/ NoRespFree \/ DnldArm
    BY <1>i, <2>4 DEF DnldFails, NoRespFree, DnldArm
  <2>5. CASE NoRespDone
    BY <1>t, <2>5 DEF NoRespDone
  <2> QED BY <1>2, <2>1, <2>2, <2>3, <2>4, <2>5 DEF DnldStep
<1>3. CASE DownloadDone \/ RxCmdResp
  BY <1>i, <1>3 DEF DownloadDone, RxCmdResp
<1>4. CASE RespStep
  <2>1. CASE RespTaken
    <3>1. main' = main \/ main' = [MainIdle EXCEPT !.pc = "resp", !.ioctl = node[curr_cmd].ioctl]
      BY <2>1 DEF RespTaken, timerVars
    <3> QED BY <1>i, <3>1
  <2>2. CASE RespCanceled
    BY <1>t, <2>2, NoFaultSteps
  <2>3. CASE HandlePreAsleep \/ RespTail
    BY <1>i, <2>3 DEF HandlePreAsleep, RespTail
  <2>4. CASE HandleOk \/ StopCompletes
    BY <1>t, <2>4 DEF HandleOk, StopCompletes
  <2> QED BY <1>4, <2>1, <2>2, <2>3, <2>4, NoFaultSteps DEF RespStep
<1>5. CASE EventStep
  <2>1. \/ main' = main \/ main' = MainIdle
        \/ \E p \in {"report", "status", "complete", "move", "idle"} : MainTo(p)
    BY <1>5 DEF EventStep, ScanReport, ScanStatus, StatusStopsTimer, ScanCompletes, MoveDeferred
  <2> QED BY <1>i, <1>t, <2>1
<1> QED BY <1>1, <1>2, <1>3, <1>4, <1>5 DEF Next, MainStep

\* The firmware answers no error.
LEMMA UnharmedFw ==
  ASSUME Engine, Unharmed, NoFault, [Next]_vars
  PROVE  fw'.rsp \in FairResults
<1>0. fw \in FwRec /\ fw.rsp \in FairResults
  BY DEF Engine, Shape, Types, Unharmed
<1>1. CASE FwRespond
  <2>1. PICK r \in fw.results : \E s : fw' = [fw EXCEPT !.rsp = r, !.scan = s]
    BY <1>1 DEF FwRespond
  <2>2. r \in {"ok", "pre_asleep"}
    BY <1>0 DEF NoFault, FwRec, AllResults
  <2> QED BY <1>0, <2>1, <2>2 DEF FwRec, FairResults
<1>2. CASE DnldSent
  <2>1. \E c : fw' = [fw EXCEPT !.cmd = c]
    BY <1>2 DEF DnldSent
  <2> QED BY <1>0, <2>1 DEF FwRec
<1>3. CASE RxCmdResp
  BY <1>0, <1>3 DEF RxCmdResp, FwRec, FairResults
<1>4. CASE ScanReport \/ ScanStatus
  <2>1. \E s : fw' = [fw EXCEPT !.scan = s]
    BY <1>4 DEF ScanReport, ScanStatus
  <2> QED BY <1>0, <2>1 DEF FwRec
<1>5. CASE ScanStart
  BY <1>0, <1>5 DEF ScanStart, linkVars
<1> QED BY <1>0, <1>1, <1>2, <1>3, <1>4, <1>5, ScanVarsStep

\* No node in use is marked, stops a scan or holds an error.
LEMMA UnharmedNodes ==
  ASSUME Engine, Engine', Unharmed, NoFault, [Next]_vars, NEW n \in Node \ cmd_free_q'
  PROVE  /\ node'[n].cmd # "stop" /\ ~node'[n].canceled
         /\ node'[n].resp \in FairResults /\ (node'[n].resp # None => n = curr_cmd')
<1> USE NoneApart
<1>0. Shape /\ Types /\ Control /\ UserKnown /\ node \in [Node -> NodeRec] /\ n \in Node
  BY DEF Engine, Shape, Types
<1>1. CASE n \in cmd_free_q
  <2>1. /\ GetCmdNode /\ node'[n].cmd = CmdOf(user.ioctl)
        /\ ~node'[n].canceled /\ node'[n].resp = None
    BY <1>0, <1>1, NodeTaken
  <2>2. Kind(user.ioctl) \in Kinds /\ Kind(user.ioctl) \notin {"cancel", "bssrm"}
    BY <1>0, <2>1, UserFacts DEF GetCmdNode, UserAt, NoFault
  <2> QED BY <2>1, <2>2 DEF CmdOf, Kinds, ScanKinds, IsScan, FairResults
<1>2. CASE n \notin cmd_free_q
  <2>1. NodeKept(n)
    BY <1>0, <1>2, NodeStep
  <2>2. node'[n].canceled = node[n].canceled
    BY <1>0, <1>2, NotMarked, NoFaultSteps
  <2>3. /\ node[n].cmd # "stop" /\ ~node[n].canceled
        /\ node[n].resp \in FairResults /\ (node[n].resp # None => n = curr_cmd)
    BY <1>2 DEF Unharmed
  <2>4. CASE RxCmdResp /\ n = curr_cmd
    <3>1. node' = [node EXCEPT ![curr_cmd].resp = fw.rsp] /\ curr_cmd' = curr_cmd
      BY <1>0, <2>4 DEF RxCmdResp
    <3>2. node'[n].resp = fw.rsp
      BY <1>0, <2>4, <3>1 DEF NodeRec
    <3>3. fw.rsp \in FairResults
      BY DEF Unharmed
    <3> QED BY <2>1, <2>2, <2>3, <2>4, <3>1, <3>2, <3>3 DEF NodeKept
  <2>5. CASE HandlePreAsleep /\ n = curr_cmd
    <3>1. node' = [node EXCEPT ![curr_cmd].resp = None]
      BY <2>5 DEF HandlePreAsleep
    <3>2. node'[n].resp = None
      BY <1>0, <2>5, <3>1 DEF NodeRec
    <3> QED BY <2>1, <2>2, <2>3, <3>2 DEF NodeKept, FairResults
  <2>6. CASE node'[n].resp = node[n].resp
    <3>1. SUFFICES ASSUME node[n].resp # None, ~HandlePreAsleep
                   PROVE  n = curr_cmd'
      BY <2>1, <2>2, <2>3, <2>5, <2>6 DEF NodeKept
    <3>2. n = curr_cmd
      BY <2>3, <3>1
    <3>3. CASE curr_cmd' = curr_cmd
      BY <3>2, <3>3
    <3>4. CASE curr_cmd' # curr_cmd
      <4>1. main.pc # "dnld"
        BY <1>0, <3>2 DEF Control
      <4>2. curr_cmd \in cmd_free_q'
        BY <1>0, <3>1, <3>4, <4>1, <3>2, Zenon
           DEF Next, Request, UserStep, Enter, GetCmdNode, NoCmdNode, PrepareFails, PrepareQueues,
               ScanStart, CancelScan, CancelBss, StopDecide, CancelFlush, MainStep, DnldStep,
               ExecNextCmd, DnldCurrent, DnldSent, DnldFails, NoRespDone, NoRespFree, DnldArm,
               DownloadDone, RxCmdResp, RespStep, RespTaken, RespCanceled, HandleInvalid,
               HandleError, ErrorScanDone, ErrorFree, HandleOk, StopCompletes, RespTail, EventStep,
               ScanReport, ScanStatus, StatusStopsTimer, ScanCompletes, MoveDeferred, FwRespond,
               TimerStep, TimerExpires, TimerReports, HangStep, HangCancel, HangFlushScan,
               HangFlushExt, vars, Free, MainAt, flag
      <4> QED BY <3>2, <4>2
    <3> QED BY <3>3, <3>4
  <2> QED BY <2>1, <2>4, <2>5, <2>6 DEF NodeKept
<1> QED BY <1>1, <1>2

\* Scan commands are never deferred.
LEMMA UnharmedDeferred ==
  ASSUME Engine, Engine', Unharmed, NoFault, [Next]_vars, NEW n \in Range(ext_cmd_pending_q')
  PROVE  node'[n].cmd \notin ScanKinds
<1> USE NoneApart
<1>0. Shape /\ Types /\ Control /\ Shape' /\ Apart
  BY NotFreeAgain DEF Engine, Shape
<1>1. Apart'
  BY <1>0, NotFreeAgain, PTL
<1>2. n \in Node /\ n \notin cmd_free_q'
  BY <1>1 DEF Apart
<1>3. \/ ext_cmd_pending_q' = ext_cmd_pending_q
      \/ ext_cmd_pending_q' = <<>>
      \/ PrepareQueues /\ ext_cmd_pending_q' = Append(ext_cmd_pending_q, user.node)
           /\ node[user.node].cmd = "conn"
  BY Zenon DEF Next, Request, UserStep, Enter, GetCmdNode, NoCmdNode, PrepareFails, PrepareQueues, ScanStart,
     CancelScan, CancelBss, StopDecide, CancelFlush, MainStep, DnldStep, ExecNextCmd, DnldCurrent,
     DnldSent, DnldFails, NoRespDone, NoRespFree, DnldArm, DownloadDone, RxCmdResp, RespStep,
     RespTaken, RespCanceled, HandleInvalid, HandlePreAsleep, HandleError, ErrorScanDone, ErrorFree,
     HandleOk, StopCompletes, RespTail, EventStep, ScanReport, ScanStatus, StatusStopsTimer,
     ScanCompletes, MoveDeferred, FwRespond, TimerStep, TimerExpires, TimerReports, HangStep,
     HangCancel, HangFlushScan, HangFlushExt, vars, queueVars, Enqueue, QueueCmd, Defers, AllowedDuringScan
<1>4. CASE ext_cmd_pending_q' = ext_cmd_pending_q
  <2>1. n \in Range(ext_cmd_pending_q) /\ n \notin cmd_free_q
    BY <1>0, <1>4 DEF Apart
  <2> QED BY <1>0, <1>2, <2>1, NodeStep DEF Unharmed, NodeKept
<1>5. CASE ext_cmd_pending_q' = <<>>
  BY <1>5, EmptyQueue
<1>6. CASE /\ PrepareQueues /\ ext_cmd_pending_q' = Append(ext_cmd_pending_q, user.node)
           /\ node[user.node].cmd = "conn"
  <2>1. Queue(ext_cmd_pending_q) /\ user.node \in Node /\ user.node \notin Range(ext_cmd_pending_q)
    BY <1>0, <1>6 DEF Apart, Shape, Places, PrepareQueues, UserAt, Types, UserRec, Control
  <2>2. n \in Range(ext_cmd_pending_q) \/ n = user.node
    BY <1>6, <2>1, AppendQueue
  <2>3. n \notin cmd_free_q
    BY <1>0, <2>2 DEF Apart
  <2>4. NodeKept(n)
    BY <1>0, <1>2, <2>3, NodeStep
  <2> QED BY <1>6, <2>2, <2>4 DEF NodeKept, Unharmed, ScanKinds
<1> QED BY <1>3, <1>4, <1>5, <1>6

\* Every step keeps Harmless.
LEMMA HarmlessStep ==
  ASSUME Engine, Harmless, [Next]_vars
  PROVE  Harmless'
<1> SUFFICES ASSUME NoFault' PROVE Unharmed'
  BY DEF Harmless
<1>1. Engine' /\ NoFault /\ Unharmed
  BY EngineStep, NoFaultBefore DEF Harmless
<1> QED BY <1>1, UnharmedMain, UnharmedFw, UnharmedNodes, UnharmedDeferred DEF Unharmed

-----------------------------------------------------------------------------
(* When all scans are of one type.                                         *)

AllOf(t) == \A i \in Ioctl : IsScan(i) => Kind(i) = t

\* All scans are enhanced, or all are of the default type.
Enhanced ==
  /\ fw.scan \in {"idle", "run", "reported"} /\ main.pc # "report"
  /\ \A n \in Node \ cmd_free_q : /\ node[n].cmd # "dscan"
                                  /\ node[n].cmd = "scan" => ext_scan_enhance
  /\ fw.scan = "run" => ext_scan_enhance
  /\ user.ioctl # None /\ IsScan(user.ioctl) => ext_scan_enhance

Default ==
  /\ ~ext_scan_enhance /\ fw.scan \in {"idle", "drun"} /\ ext_cmd_pending_q = <<>>
  /\ \A n \in Node \ cmd_free_q : node[n].cmd # "scan"

\* A scan command that the firmware has not answered, on its way there.
Live(n) ==
  /\ n \in Node \ cmd_free_q /\ n \notin Range(scan_pending_q) /\ n # user.node
  /\ node[n].cmd \in ScanKinds
  /\ n = curr_cmd => fw.rsp # "ok" /\ node[n].resp # "ok"

ScanPC == {"report", "status", "complete"}

OnItsWay == (\E n \in Node : Live(n)) \/ fw.scan # "idle" \/ main.pc \in ScanPC \/ hang = "scan"

Releasing ==
  /\ scan_processing => OnItsWay
  /\ scan_processing => pscan_ioctl_req # None \/ hang = "scan"
  /\ ext_cmd_pending_q # <<>> => scan_processing \/ main.pc = "move" \/ hang = "ext"

OfOneType ==
  NoFault =>
    /\ AllOf("scan") => Enhanced
    /\ AllOf("dscan") => Default
    /\ AllOf("scan") \/ AllOf("dscan") => Releasing

\* If all scans are of a type after a step, they were before.
LEMMA AllOfBefore ==
  ASSUME Engine, [Next]_vars, NEW t, AllOf(t)'
  PROVE  AllOf(t)
<1> SUFFICES ASSUME NEW i \in Ioctl, IsScan(i)
             PROVE  Kind(i) = t
  BY DEF AllOf
<1>1. req'[i].kind = req[i].kind
  BY AllMoved
<1>2. (IsScan(i) => Kind(i) = t)'
  BY DEF AllOf
<1> QED BY <1>1, <1>2 DEF IsScan, Kind

\* The type of the scan changes when a scan request enters.
LEMMA EnhanceStep ==
  ASSUME Engine, Unharmed, NoFault, [Next]_vars
  PROVE  \/ ext_scan_enhance' = ext_scan_enhance
         \/ \E i \in Ioctl : Enter(i) /\ IsScan(i) /\ ext_scan_enhance' = (Kind(i) = "scan")
<1> USE NoneApart
<1>1. CASE \E i \in Ioctl : Enter(i)
  <2> PICK i \in Ioctl : Enter(i)
    BY <1>1
  <2>1. \/ ext_scan_enhance' = ext_scan_enhance
        \/ IsScan(i) /\ ext_scan_enhance' = (Kind(i) = "scan")
    BY DEF Enter
  <2> QED BY <2>1
<1>2. CASE HandleOk
  <2>1. curr_cmd \in Node \ cmd_free_q
    BY <1>2, CurrInUse DEF HandleOk, Handling, MainAt, AfterResp, Engine, Shape, Control
  <2>2. node[curr_cmd].cmd # "stop"
    BY <2>1 DEF Unharmed
  <2> QED BY <1>2, <2>2 DEF HandleOk, scanVars
<1>3. CASE UserStep /\ ~(\E i \in Ioctl : Enter(i))
  BY <1>3 DEF UserStep, GetCmdNode, NoCmdNode, PrepareFails, PrepareQueues, ScanStart,
     CancelScan, CancelBss, StopDecide, CancelFlush, FlushScan, scanVars
<1>4. CASE DnldStep \/ FwRespond \/ DownloadDone \/ RxCmdResp \/ TimerStep \/ UNCHANGED vars
           \/ (\E i \in Ioctl : Request(i))
  BY <1>4 DEF DnldStep, ExecNextCmd, DnldCurrent, DnldFails, NoRespDone, NoRespFree, Request, vars,
     DnldArm, DownloadDone, FwRespond, RxCmdResp, DnldSent, TimerStep, TimerExpires, TimerReports, scanVars
<1>5. CASE RespStep /\ ~HandleOk
  BY <1>5 DEF RespStep, RespTaken, RespCanceled, HandleInvalid, HandlePreAsleep, HandleError,
     FlushScan, ErrorScanDone, ErrorFree, StopCompletes, RespTail, scanVars
<1>6. CASE EventStep \/ HangStep
  BY <1>6 DEF EventStep, ScanReport, ScanStatus, StatusStopsTimer, ScanCompletes, MoveDeferred,
     HangStep, HangCancel, HangFlushScan, HangFlushExt, FlushScan, scanVars
<1> QED BY <1>1, <1>2, <1>3, <1>4, <1>5, <1>6 DEF Next, MainStep

\* What the firmware does with a scan.
LEMMA FwScanStep ==
  ASSUME Engine, Unharmed, NoFault, [Next]_vars
  PROVE  \/ fw'.scan = fw.scan
         \/ /\ FwRespond /\ curr_cmd \in Node \ cmd_free_q /\ node[curr_cmd].cmd = fw.cmd
            /\ \/ fw.cmd = "scan" /\ fw'.scan = "run"
               \/ fw.cmd = "dscan" /\ fw'.scan = "drun"
         \/ ScanReport /\ fw'.scan = (IF fw.scan = "run" THEN "reported" ELSE "idle")
         \/ ScanStatus /\ fw'.scan = "idle"
<1> USE NoneApart
<1>0. fw \in FwRec /\ Linked /\ Shape /\ curr_cmd \notin cmd_free_q /\ curr_cmd \in Node \cup {None}
  BY CurrInUse DEF Engine, Shape, Types
<1>1. CASE FwRespond
  <2>1. curr_cmd \in Node \ cmd_free_q /\ node[curr_cmd].cmd = fw.cmd
    BY <1>0, <1>1 DEF FwRespond, Linked
  <2>2. fw.cmd # "stop"
    BY <2>1 DEF Unharmed
  <2>5. PICK r : fw' = [fw EXCEPT !.rsp = r,
                           !.scan = CASE r = "ok" /\ fw.cmd = "scan" -> "run"
                                      [] r = "ok" /\ fw.cmd = "dscan" -> "drun"
                                      [] r = "ok" /\ fw.cmd = "stop" /\ @ = "run" -> "reported"
                                      [] r = "ok" /\ fw.cmd = "stop" /\ @ = "drun" -> "idle"
                                      [] OTHER -> @]
    BY <1>1 DEF FwRespond
  <2>6. fw'.scan = CASE r = "ok" /\ fw.cmd = "scan" -> "run"
                     [] r = "ok" /\ fw.cmd = "dscan" -> "drun"
                     [] r = "ok" /\ fw.cmd = "stop" /\ fw.scan = "run" -> "reported"
                     [] r = "ok" /\ fw.cmd = "stop" /\ fw.scan = "drun" -> "idle"
                     [] OTHER -> fw.scan
    BY <1>0, <2>5 DEF FwRec
  <2> QED BY <1>1, <2>1, <2>2, <2>6
<1>2. CASE DnldSent
  <2>1. \E c : fw' = [fw EXCEPT !.cmd = c]
    BY <1>2 DEF DnldSent
  <2> QED BY <1>0, <2>1 DEF FwRec
<1>3. CASE RxCmdResp
  BY <1>0, <1>3 DEF RxCmdResp, FwRec
<1>4. CASE ScanReport
  <2>1. fw' = [fw EXCEPT !.scan = IF @ = "run" THEN "reported" ELSE "idle"]
    BY <1>4 DEF ScanReport
  <2> QED BY <1>0, <1>4, <2>1 DEF FwRec
<1>5. CASE ScanStatus
  BY <1>0, <1>5 DEF ScanStatus, FwRec
<1>6. CASE ScanStart
  BY <1>6 DEF ScanStart, linkVars
<1> QED BY <1>1, <1>2, <1>3, <1>4, <1>5, <1>6, ScanVarsStep

\* The command of a node in use after a step.
LEMMA CmdStep ==
  ASSUME Engine, NoFault, [Next]_vars, NEW n \in Node \ cmd_free_q'
  PROVE  \/ n \notin cmd_free_q /\ node'[n].cmd = node[n].cmd
         \/ /\ user.ioctl \in Ioctl /\ node'[n].cmd = CmdOf(user.ioctl)
            /\ Kind(user.ioctl) \in {"scan", "dscan", "cmd", "conn", "noresp"}
<1>0. Shape /\ Types /\ Control /\ UserKnown
  BY DEF Engine, Shape
<1>1. CASE n \in cmd_free_q
  <2>1. GetCmdNode /\ node'[n].cmd = CmdOf(user.ioctl)
    BY <1>0, <1>1, NodeTaken
  <2>2. user.pc = "get" /\ user.ioctl \in Ioctl /\ Kind(user.ioctl) \in Kinds
    BY <1>0, <2>1, UserFacts DEF GetCmdNode, UserAt
  <2> QED BY <1>0, <2>1, <2>2 DEF UserKnown, NoFault, Kinds, ScanKinds
<1>2. CASE n \notin cmd_free_q
  BY <1>0, <1>2, NodeStep DEF NodeKept
<1> QED BY <1>1, <1>2

\* The request of the user after a step.
LEMMA UserIoctlStep ==
  ASSUME Engine, [Next]_vars, user'.ioctl # None
  PROVE  user'.ioctl = user.ioctl \/ \E i \in Ioctl : Enter(i) /\ user'.ioctl = i /\ ~ScanBusy(i)
<1>0. user \in UserRec
  BY DEF Engine, Shape, Types
<1>1. CASE ~UserStep
  BY <1>1, UserStays
<1>2. CASE \E i \in Ioctl : Enter(i)
  <2> PICK i \in Ioctl : Enter(i)
    BY <1>2
  <2>1. CASE ScanBusy(i)
    BY <2>1 DEF Enter
  <2>2. CASE ~ScanBusy(i)
    <3>1. user' = [pc |-> IF Kind(i) \in {"cancel", "bssrm"} THEN Kind(i) ELSE "get",
                   ioctl |-> i, node |-> None, todo |-> IF IsScan(i) THEN ScanCmds(i) ELSE 0]
      BY <2>2 DEF Enter
    <3> QED BY <2>2, <3>1
  <2> QED BY <2>1, <2>2
<1>3. CASE UserStep /\ ~(\E i \in Ioctl : Enter(i))
  <2>1. \/ user' = UserIdle
        \/ \E p : user' = [user EXCEPT !.pc = p]
        \/ \E p, n : user' = [user EXCEPT !.pc = p, !.node = n]
        \/ \E p, n, t : user' = [user EXCEPT !.pc = p, !.node = n, !.todo = t]
    BY <1>3 DEF UserStep, GetCmdNode, NoCmdNode, PrepareFails, PrepareQueues, ScanStart,
       CancelScan, CancelBss, StopDecide, CancelFlush, UserTo, UserReturn
  <2>2. CASE user' = UserIdle
    BY <2>2 DEF UserIdle
  <2>3. CASE \E p : user' = [user EXCEPT !.pc = p]
    BY <1>0, <2>3 DEF UserRec
  <2>4. CASE \E p, n : user' = [user EXCEPT !.pc = p, !.node = n]
    BY <1>0, <2>4 DEF UserRec
  <2>5. CASE \E p, n, t : user' = [user EXCEPT !.pc = p, !.node = n, !.todo = t]
    BY <1>0, <2>5 DEF UserRec
  <2> QED BY <2>1, <2>2, <2>3, <2>4, <2>5
<1> QED BY <1>1, <1>2, <1>3

-----------------------------------------------------------------------------
(* Enhanced and Default are preserved.                                     *)

\* Where the main loop goes with the events of a scan.
LEMMA EventPcStep ==
  ASSUME Shape, [Next]_vars
  PROVE  \/ main'.pc = main.pc
         \/ main.pc \notin EventPC /\ main'.pc \notin EventPC
         \/ ScanReport /\ ~ext_scan_enhance /\ main'.pc = "report"
         \/ ScanStatus /\ main'.pc = "status"
         \/ StatusStopsTimer /\ main.pc = "status" /\ main'.pc = "complete"
         \/ ScanCompletes /\ main.pc = "complete" /\ main'.pc = "move"
         \/ ScanCompletes /\ main.pc = "report" /\ main'.pc = "idle"
         \/ MoveDeferred /\ main.pc = "move" /\ main'.pc = "idle"
<1>0. main \in MainRec
  BY DEF Shape, Types
<1>t. ASSUME NEW p, MainTo(p) PROVE main'.pc = p
  BY <1>0, <1>t DEF MainTo, MainRec
<1>i. /\ MainIdle.pc = "idle" /\ [MainIdle EXCEPT !.pc = "send"].pc = "send"
      /\ \A n : [MainIdle EXCEPT !.pc = "dnld", !.node = n].pc = "dnld"
      /\ \A i : [MainIdle EXCEPT !.pc = "resp", !.ioctl = i].pc = "resp"
  BY DEF MainIdle
<1>e. EventPC = {"report", "status", "complete", "move"}
  BY DEF EventPC
<1>1. CASE UserStep \/ TimerStep \/ HangStep \/ FwRespond \/ (\E i \in Ioctl : Request(i)) \/ UNCHANGED vars
  <2>1. main' = main
    BY <1>1 DEF UserStep, Enter, GetCmdNode, NoCmdNode, PrepareFails, PrepareQueues, ScanStart,
       CancelScan, CancelBss, StopDecide, CancelFlush, TimerStep, TimerExpires, TimerReports,
       HangStep, HangCancel, HangFlushScan, HangFlushExt, Request, vars, FwRespond
  <2> QED BY <2>1
<1>2. CASE DnldStep
  <2>1. main.pc \in {"idle", "dnld", "send", "noresp", "nrfree", "arm"}
    BY <1>2 DEF DnldStep, ExecNextCmd, DnldCurrent, DnldSent, DnldFails, NoRespDone, NoRespFree,
       DnldArm, MainAt
  <2>2. main'.pc \in {"idle", "dnld", "send", "noresp", "nrfree", "arm"}
    <3>1. CASE ExecNextCmd
      <4>1. main' = [MainIdle EXCEPT !.pc = "dnld", !.node = Head(cmd_pending_q)]
        BY <3>1 DEF ExecNextCmd
      <4> QED BY <1>i, <4>1
    <3>2. CASE DnldCurrent
      BY <1>i, <3>2 DEF DnldCurrent
    <3>3. CASE DnldSent
      BY <1>t, <3>3 DEF DnldSent
    <3>4. CASE DnldFails \/ NoRespFree \/ DnldArm
      BY <1>i, <3>4 DEF DnldFails, NoRespFree, DnldArm
    <3>5. CASE NoRespDone
      BY <1>t, <3>5 DEF NoRespDone
    <3> QED BY <1>2, <3>1, <3>2, <3>3, <3>4, <3>5 DEF DnldStep
  <2> QED BY <1>e, <2>1, <2>2
<1>3. CASE DownloadDone \/ RxCmdResp
  BY <1>3 DEF DownloadDone, RxCmdResp
<1>4. CASE RespStep
  <2>1. main.pc \in AfterResp \cup {"idle"}
    BY <1>4 DEF RespStep, RespTaken, RespCanceled, HandleInvalid, HandlePreAsleep, HandleError,
       ErrorScanDone, ErrorFree, HandleOk, StopCompletes, RespTail, Handling, MainAt, AfterResp
  <2>2. main'.pc \in AfterResp \cup {"idle"}
    <3>1. CASE RespTaken
      <4>1. main' = main \/ main' = [MainIdle EXCEPT !.pc = "resp", !.ioctl = node[curr_cmd].ioctl]
        BY <3>1 DEF RespTaken, timerVars
      <4>2. CASE main' = main
        BY <2>1, <4>2
      <4>3. CASE main' = [MainIdle EXCEPT !.pc = "resp", !.ioctl = node[curr_cmd].ioctl]
        <5>1. main'.pc = "resp"
          BY <1>i, <4>3
        <5> QED BY <5>1 DEF AfterResp
      <4> QED BY <4>1, <4>2, <4>3
    <3>2. CASE RespStep /\ ~RespTaken
      <4>1. main' = MainIdle \/ \E p \in AfterResp : MainTo(p)
        BY <3>2 DEF RespStep, RespCanceled, HandleInvalid, HandlePreAsleep, HandleError,
           ErrorScanDone, ErrorFree, HandleOk, StopCompletes, RespTail, AfterResp
      <4> QED BY <1>i, <1>t, <4>1
    <3> QED BY <1>4, <3>1, <3>2
  <2> QED BY <2>1, <2>2 DEF EventPC, AfterResp
<1>5. CASE ScanReport
  <2>1. main' = main \/ (MainTo("report") /\ ~ext_scan_enhance)
    BY <1>5 DEF ScanReport
  <2> QED BY <1>5, <1>t, <2>1
<1>6. CASE ScanStatus
  <2>1. main' = main \/ MainTo("status")
    BY <1>6 DEF ScanStatus
  <2> QED BY <1>6, <1>t, <2>1
<1>7. CASE StatusStopsTimer
  BY <1>7, <1>t DEF StatusStopsTimer, MainAt
<1>8. CASE ScanCompletes
  <2>1. \/ main.pc = "complete" /\ MainTo("move")
        \/ main.pc = "report" /\ MainTo("idle")
    BY <1>8 DEF ScanCompletes, MainAt
  <2> QED BY <1>8, <1>t, <2>1
<1>9. CASE MoveDeferred
  BY <1>9, <1>i DEF MoveDeferred, MainAt
<1> QED BY <1>1, <1>2, <1>3, <1>4, <1>5, <1>6, <1>7, <1>8, <1>9 DEF Next, MainStep, EventStep

\* Scans that are all enhanced stay so.
LEMMA EnhancedStep ==
  ASSUME Engine, Unharmed, NoFault, [Next]_vars, AllOf("scan"), Enhanced
  PROVE  Enhanced'
<1> USE NoneApart
<1>0. Shape /\ Types /\ Control /\ UserKnown
  BY DEF Engine, Shape
<1>1. /\ ext_scan_enhance => ext_scan_enhance'
      /\ \A i \in Ioctl : Enter(i) /\ IsScan(i) /\ ~ScanBusy(i) => ext_scan_enhance'
  <2>1. ext_scan_enhance => ext_scan_enhance'
    BY EnhanceStep DEF AllOf
  <2>2. ASSUME NEW i \in Ioctl, Enter(i), IsScan(i), ~ScanBusy(i)
        PROVE  ext_scan_enhance'
    BY <2>2 DEF Enter, AllOf
  <2> QED BY <2>1, <2>2
<1>2. /\ fw'.scan \in {"idle", "run", "reported"}
      /\ fw'.scan = "run" => ext_scan_enhance'
  <2>1. curr_cmd \in Node \ cmd_free_q =>
          node[curr_cmd].cmd # "dscan" /\ (node[curr_cmd].cmd = "scan" => ext_scan_enhance)
    BY DEF Enhanced
  <2> QED BY <1>1, <2>1, FwScanStep DEF Enhanced
<1>3. main'.pc # "report"
  <2>1. ScanReport => ext_scan_enhance
    BY DEF Enhanced, ScanReport, EventAt
  <2>2. main.pc # "report"
    BY DEF Enhanced
  <2> QED BY <1>0, <2>1, <2>2, EventPcStep DEF EventPC
<1>4. ASSUME NEW n \in Node \ cmd_free_q'
      PROVE  node'[n].cmd # "dscan" /\ (node'[n].cmd = "scan" => ext_scan_enhance')
  <2>1. CASE n \notin cmd_free_q /\ node'[n].cmd = node[n].cmd
    BY <1>1, <2>1 DEF Enhanced
  <2>2. CASE /\ user.ioctl \in Ioctl /\ node'[n].cmd = CmdOf(user.ioctl)
             /\ Kind(user.ioctl) \in {"scan", "dscan", "cmd", "conn", "noresp"}
    BY <1>1, <2>2 DEF Enhanced, CmdOf, IsScan, ScanKinds
  <2> QED BY <2>1, <2>2, CmdStep
<1>5. ASSUME user'.ioctl # None, IsScan(user.ioctl)'
      PROVE  ext_scan_enhance'
  <2>1. PICK i \in Ioctl : i = user'.ioctl
    <3>1. user' \in UserRec
      BY EngineStep DEF Engine, Shape, Types
    <3> QED BY <1>5, <3>1 DEF UserRec
  <2>2. IsScan(i)' /\ req'[i].kind = req[i].kind
    BY <1>5, <2>1, AllMoved DEF IsScan, Kind
  <2>3. IsScan(i)
    BY <2>2 DEF IsScan, Kind
  <2> QED BY <1>1, <1>5, <2>1, <2>3, UserIoctlStep DEF Enhanced
<1>6. (user.ioctl # None /\ IsScan(user.ioctl) => ext_scan_enhance)'
  BY <1>5
<1> QED BY <1>2, <1>3, <1>4, <1>6 DEF Enhanced

\* Scans that are all of the default type stay so.
LEMMA DefaultStep ==
  ASSUME Engine, Unharmed, NoFault, [Next]_vars, AllOf("dscan"), Default
  PROVE  Default'
<1> USE NoneApart
<1>1. ~ext_scan_enhance'
  BY EnhanceStep DEF AllOf, Default
<1>2. fw'.scan \in {"idle", "drun"}
  <2>1. curr_cmd \in Node \ cmd_free_q => node[curr_cmd].cmd # "scan"
    BY DEF Default
  <2> QED BY <2>1, FwScanStep DEF Default
<1>3. ext_cmd_pending_q' = <<>>
  <2>1. \/ ext_cmd_pending_q' = ext_cmd_pending_q
        \/ ext_cmd_pending_q' = <<>>
        \/ ext_scan_enhance
    BY Zenon DEF Next, Request, UserStep, Enter, GetCmdNode, NoCmdNode, PrepareFails, PrepareQueues, ScanStart,
       CancelScan, CancelBss, StopDecide, CancelFlush, MainStep, DnldStep, ExecNextCmd, DnldCurrent,
       DnldSent, DnldFails, NoRespDone, NoRespFree, DnldArm, DownloadDone, RxCmdResp, RespStep,
       RespTaken, RespCanceled, HandleInvalid, HandlePreAsleep, HandleError, ErrorScanDone, ErrorFree,
       HandleOk, StopCompletes, RespTail, EventStep, ScanReport, ScanStatus, StatusStopsTimer,
       ScanCompletes, MoveDeferred, FwRespond, TimerStep, TimerExpires, TimerReports, HangStep,
       HangCancel, HangFlushScan, HangFlushExt, vars, queueVars, Enqueue, QueueCmd, Defers
  <2> QED BY <2>1 DEF Default
<1>4. ASSUME NEW n \in Node \ cmd_free_q'
      PROVE  node'[n].cmd # "scan"
  <2>1. CASE n \notin cmd_free_q /\ node'[n].cmd = node[n].cmd
    BY <2>1 DEF Default
  <2>2. CASE /\ user.ioctl \in Ioctl /\ node'[n].cmd = CmdOf(user.ioctl)
             /\ Kind(user.ioctl) \in {"scan", "dscan", "cmd", "conn", "noresp"}
    BY <2>2 DEF Default, CmdOf, IsScan, ScanKinds
  <2> QED BY <2>1, <2>2, CmdStep
<1> QED BY <1>1, <1>2, <1>3, <1>4 DEF Default

-----------------------------------------------------------------------------
(* A scan command on its way.                                              *)

\* The next scan command that moves on is alive.
LEMMA HeadLive ==
  ASSUME Engine, Unharmed, scan_pending_q # <<>>, scan_pending_q' = Tail(scan_pending_q),
         UNCHANGED <<cmd_free_q, node, curr_cmd>>, user'.node = user.node \/ user'.node = None
  PROVE  \E n \in Node : Live(n)'
<1> USE NoneApart
<1>0. Shape /\ Apart /\ Flags
  BY NotFreeAgain DEF Engine
<1>1. Queue(scan_pending_q)
  BY <1>0 DEF Shape, Places
<1>2. PICK h \in Node : h = Head(scan_pending_q)
  BY <1>1, TailQueue
<1>3. h \in Range(scan_pending_q) /\ h \notin Range(scan_pending_q')
  BY <1>1, <1>2, TailQueue
<1>4. h \notin cmd_free_q /\ h # user.node /\ h # curr_cmd
  BY <1>0, <1>3 DEF Apart
<1>5. node[h].cmd \in ScanKinds
  BY <1>0, <1>3, <1>4 DEF Flags, Unharmed
<1>6. Live(h)'
  BY <1>3, <1>4, <1>5 DEF Live
<1> QED BY <1>6

\* What frees a node.
LEMMA NotFreed ==
  ASSUME Engine, Unharmed, NoFault, [Next]_vars, NEW n \in Node, Live(n), hang' # "scan"
  PROVE  n \notin cmd_free_q'
<1> USE NoneApart
<1>0. Shape /\ Apart /\ Exits /\ Handled /\ n \notin cmd_free_q /\ node[n].cmd \in ScanKinds
  BY NotFreeAgain DEF Engine, Live
<1>1. CASE PrepareFails
  BY <1>0, <1>1 DEF PrepareFails, Free, Live
<1>2. CASE NoRespFree
  <2>1. node[curr_cmd].cmd = "noresp" /\ cmd_free_q' = cmd_free_q \cup {curr_cmd}
    BY <1>0, <1>2 DEF NoRespFree, Exits, MainAt, Free
  <2> QED BY <1>0, <2>1 DEF ScanKinds
<1>3. CASE RespTail
  <2>1. node[curr_cmd].resp = "ok" /\ cmd_free_q' = cmd_free_q \cup {curr_cmd}
    BY <1>0, <1>3 DEF RespTail, Handled, MainAt, Free
  <2> QED BY <1>0, <2>1 DEF Live
<1>4. CASE HangFlushScan
  <2>1. cmd_free_q' = cmd_free_q \cup Range(scan_pending_q)
    BY <1>4 DEF HangFlushScan, FlushScan, Free
  <2> QED BY <1>0, <2>1 DEF Live
<1>5. CASE HangFlushExt
  <2>1. cmd_free_q' = cmd_free_q \cup Range(ext_cmd_pending_q)
    BY <1>5 DEF HangFlushExt, Deferred, Free
  <2> QED BY <1>0, <2>1 DEF Unharmed
<1>6. CASE GetCmdNode
  BY <1>0, <1>6 DEF GetCmdNode
<1>7. CASE RespCanceled
  BY <1>0, <1>7, NoFaultSteps
<1>8. CASE ~(PrepareFails \/ NoRespFree \/ RespTail \/ HangFlushScan \/ HangFlushExt \/ GetCmdNode \/ RespCanceled)
  <2>1. cmd_free_q' = cmd_free_q
    BY <1>8, NoFaultSteps, Zenon DEF Next, Request, UserStep, Enter, NoCmdNode, PrepareQueues, ScanStart,
       MainStep, DnldStep, ExecNextCmd, DnldCurrent, DnldSent, NoRespDone, DnldArm, DownloadDone,
       RxCmdResp, RespStep, RespTaken, HandlePreAsleep, HandleOk, StopCompletes, EventStep,
       ScanReport, ScanStatus, StatusStopsTimer, ScanCompletes, MoveDeferred, FwRespond, TimerStep,
       TimerExpires, TimerReports, HangStep, HangCancel, vars, queueVars
  <2> QED BY <1>0, <2>1
<1> QED BY <1>1, <1>2, <1>3, <1>4, <1>5, <1>6, <1>7, <1>8

\* A scan command on its way stays so until the firmware runs it, or the hang
\* work is about to flush the scan.
LEMMA LiveKept ==
  ASSUME Engine, Unharmed, NoFault, [Next]_vars, NEW n \in Node, Live(n)
  PROVE  Live(n)' \/ fw'.scan # "idle" \/ hang' = "scan"
<1> USE NoneApart
<1> SUFFICES ASSUME fw'.scan = "idle", hang' # "scan"
             PROVE  Live(n)'
  OBVIOUS
<1>0. /\ Shape /\ Types /\ Control /\ Apart /\ Linked /\ fw \in FwRec
      /\ n \in Node \ cmd_free_q /\ n \notin Range(scan_pending_q) /\ n # user.node
      /\ node[n].cmd \in ScanKinds
      /\ n = curr_cmd => fw.rsp # "ok" /\ node[n].resp # "ok"
  BY NotFreeAgain DEF Engine, Shape, Types, Live
<1>1. n \in Node \ cmd_free_q'
  BY NotFreed
<1>2. NodeKept(n)
  BY <1>0, <1>1, NodeStep
<1>3. n # user'.node
  <2>1. GetCmdNode => user'.node \in cmd_free_q
    <3>1. SUFFICES ASSUME GetCmdNode PROVE user'.node \in cmd_free_q
      OBVIOUS
    <3>2. PICK m \in cmd_free_q : user' = [user EXCEPT !.pc = "queue", !.node = m]
      BY <3>1 DEF GetCmdNode
    <3> QED BY <1>0, <3>2 DEF Types, UserRec
  <2> QED BY <1>0, <2>1, UserNodeStep
<1>4. n \notin Range(scan_pending_q')
  <2>1. Queue(scan_pending_q) /\ user.node \notin Range(scan_pending_q)
    BY <1>0 DEF Shape, Places, Apart
  <2>2. \/ scan_pending_q' = scan_pending_q
        \/ scan_pending_q' = <<>>
        \/ scan_pending_q # <<>> /\ scan_pending_q' = Tail(scan_pending_q)
        \/ PrepareQueues /\ scan_pending_q' = Append(scan_pending_q, user.node)
    BY Zenon DEF Next, Request, UserStep, Enter, GetCmdNode, NoCmdNode, PrepareFails, PrepareQueues, ScanStart,
       CancelScan, CancelBss, StopDecide, CancelFlush, MainStep, DnldStep, ExecNextCmd, DnldCurrent,
       DnldSent, DnldFails, NoRespDone, NoRespFree, DnldArm, DownloadDone, RxCmdResp, RespStep,
       RespTaken, RespCanceled, HandleInvalid, HandlePreAsleep, HandleError, ErrorScanDone, ErrorFree,
       HandleOk, StopCompletes, RespTail, EventStep, ScanReport, ScanStatus, NextScanCmd, StatusStopsTimer,
       ScanCompletes, MoveDeferred, FwRespond, TimerStep, TimerExpires, TimerReports, HangStep,
       HangCancel, HangFlushScan, HangFlushExt, vars, queueVars, FlushScan, Enqueue, QueueCmd
  <2>3. CASE PrepareQueues /\ scan_pending_q' = Append(scan_pending_q, user.node)
    <3>1. user.node \in Node
      BY <1>0, <2>3 DEF PrepareQueues, UserAt, Control, Types, UserRec
    <3> QED BY <1>0, <2>1, <2>3, <3>1, AppendQueue
  <2>4. CASE scan_pending_q # <<>> /\ scan_pending_q' = Tail(scan_pending_q)
    BY <1>0, <2>1, <2>4, TailQueue
  <2> QED BY <1>0, <2>2, <2>3, <2>4, EmptyQueue
<1>5. ASSUME n = curr_cmd'
      PROVE  fw'.rsp # "ok" /\ node'[n].resp # "ok"
  <2>1. CASE n = curr_cmd
    <3>1. node'[n].resp # "ok"
      <4>1. CASE RxCmdResp
        <5>1. node' = [node EXCEPT ![curr_cmd].resp = fw.rsp]
          BY <1>0, <2>1, <4>1 DEF RxCmdResp
        <5> QED BY <1>0, <2>1, <5>1 DEF Types, NodeRec
      <4>2. CASE HandlePreAsleep
        <5>1. node' = [node EXCEPT ![curr_cmd].resp = None] /\ None # "ok"
          BY <4>2, CmdAssumption DEF HandlePreAsleep, AllResults
        <5> QED BY <1>0, <2>1, <5>1 DEF Types, NodeRec
      <4>3. CASE ~RxCmdResp /\ ~HandlePreAsleep
        BY <1>0, <1>2, <2>1, <4>3 DEF NodeKept
      <4> QED BY <4>1, <4>2, <4>3
    <3>2. fw'.rsp # "ok"
      <4>1. CASE FwRespond
        <5>1. fw.cmd \in ScanKinds
          BY <1>0, <2>1, <4>1 DEF FwRespond, Linked
        <5>2. PICK r : fw' = [fw EXCEPT !.rsp = r,
                           !.scan = CASE r = "ok" /\ fw.cmd = "scan" -> "run"
                                      [] r = "ok" /\ fw.cmd = "dscan" -> "drun"
                                      [] r = "ok" /\ fw.cmd = "stop" /\ @ = "run" -> "reported"
                                      [] r = "ok" /\ fw.cmd = "stop" /\ @ = "drun" -> "idle"
                                      [] OTHER -> @]
          BY <4>1 DEF FwRespond
        <5>3. /\ fw'.rsp = r
              /\ fw'.scan = CASE r = "ok" /\ fw.cmd = "scan" -> "run"
                     [] r = "ok" /\ fw.cmd = "dscan" -> "drun"
                     [] r = "ok" /\ fw.cmd = "stop" /\ fw.scan = "run" -> "reported"
                     [] r = "ok" /\ fw.cmd = "stop" /\ fw.scan = "drun" -> "idle"
                     [] OTHER -> fw.scan
          BY <1>0, <5>2 DEF FwRec
        <5> QED BY <5>1, <5>3 DEF ScanKinds
      <4>2. CASE DnldSent
        <5>1. \E c : fw' = [fw EXCEPT !.cmd = c]
          BY <4>2 DEF DnldSent
        <5> QED BY <1>0, <2>1, <5>1 DEF FwRec
      <4>3. CASE RxCmdResp
        <5>1. fw' = [fw EXCEPT !.cmd = None, !.rsp = None] /\ None # "ok"
          BY <4>3, CmdAssumption DEF RxCmdResp, AllResults
        <5> QED BY <1>0, <5>1 DEF FwRec
      <4>4. CASE ScanReport \/ ScanStatus
        <5>1. \E s : fw' = [fw EXCEPT !.scan = s]
          BY <4>4 DEF ScanReport, ScanStatus
        <5> QED BY <1>0, <2>1, <5>1 DEF FwRec
      <4>5. CASE ScanStart
        BY <1>0, <2>1, <4>5 DEF ScanStart, linkVars
      <4> QED BY <1>0, <2>1, <4>1, <4>2, <4>3, <4>4, <4>5, ScanVarsStep
    <3> QED BY <3>1, <3>2
  <2>2. CASE n # curr_cmd
    <3>1. DnldCurrent
      BY <1>0, <1>5, <2>2, Zenon DEF Next, Request, UserStep, Enter, GetCmdNode, NoCmdNode, PrepareFails,
       PrepareQueues, ScanStart, CancelScan, CancelBss, StopDecide, CancelFlush, MainStep, DnldStep,
       ExecNextCmd, DnldSent, DnldFails, NoRespDone, NoRespFree, DnldArm, DownloadDone, RxCmdResp,
       RespStep, RespTaken, RespCanceled, HandleInvalid, HandlePreAsleep, HandleError, ErrorScanDone,
       ErrorFree, HandleOk, StopCompletes, RespTail, EventStep, ScanReport, ScanStatus,
       StatusStopsTimer, ScanCompletes, MoveDeferred, FwRespond, TimerStep, TimerExpires,
       TimerReports, HangStep, HangCancel, flag, HangFlushScan, HangFlushExt, vars
    <3>2. node' = node /\ fw' = fw /\ main.pc = "dnld"
      BY <3>1 DEF DnldCurrent, linkVars, MainAt
    <3>3. fw.rsp = None /\ node[n].resp = None
      BY <1>0, <2>2, <3>2 DEF Control, Linked, Unharmed
    <3>4. None # "ok"
      BY CmdAssumption DEF AllResults
    <3> QED BY <3>2, <3>3, <3>4
  <2> QED BY <2>1, <2>2
<1> QED BY <1>0, <1>1, <1>2, <1>3, <1>4, <1>5 DEF Live, NodeKept

-----------------------------------------------------------------------------
(* Scans release what they hold back.                                      *)

\* How scan_processing, the scan request and the hang work go on.
LEMMA ProcessingStep ==
  ASSUME Engine, Unharmed, NoFault, [Next]_vars, scan_processing
  PROVE  /\ scan_processing' \/ HangFlushScan \/ ScanCompletes
         /\ \/ pscan_ioctl_req' = pscan_ioctl_req \/ ScanStart \/ hang' = "scan"
            \/ ScanCompletes /\ ~scan_processing'
<1> USE NoneApart
<1>0. /\ Shape /\ ~CancelScan /\ ~CancelBss /\ ~CancelFlush /\ ~HandleError /\ ~ErrorScanDone
  BY NoFaultSteps DEF Engine
<1>1. CASE HandleOk
  <2>1. curr_cmd \in Node \ cmd_free_q
    BY <1>0, <1>1, CurrInUse DEF HandleOk, Handling, MainAt, AfterResp, Shape, Control
  <2>2. node[curr_cmd].cmd # "stop"
    BY <2>1 DEF Unharmed
  <2> QED BY <1>1, <2>2 DEF HandleOk, scanVars
<1>2. CASE UserStep
  BY <1>0, <1>2 DEF UserStep, Enter, GetCmdNode, NoCmdNode, PrepareFails, PrepareQueues, ScanStart,
     StopDecide, scanVars
<1>3. CASE DnldStep \/ FwRespond \/ DownloadDone \/ RxCmdResp \/ TimerStep \/ UNCHANGED vars
           \/ (\E i \in Ioctl : Request(i))
  BY <1>3 DEF DnldStep, ExecNextCmd, DnldCurrent, DnldFails, NoRespDone, NoRespFree, Request, vars,
     DnldArm, DownloadDone, FwRespond, RxCmdResp, DnldSent, TimerStep, TimerExpires, TimerReports, scanVars
<1>4. CASE RespStep /\ ~HandleOk
  BY <1>0, <1>4 DEF RespStep, RespTaken, RespCanceled, HandleInvalid, HandlePreAsleep,
     ErrorFree, StopCompletes, RespTail, scanVars
<1>5. CASE EventStep \/ HangStep
  BY <1>5 DEF EventStep, ScanReport, ScanStatus, StatusStopsTimer, ScanCompletes, MoveDeferred,
     HangStep, HangCancel, HangFlushScan, HangFlushExt, scanVars
<1> QED BY <1>1, <1>2, <1>3, <1>4, <1>5 DEF Next, MainStep

\* The hang work leaves a place by its own steps.
LEMMA HangGoes ==
  ASSUME [Next]_vars
  PROVE  \/ hang' = hang \/ hang = "idle"
         \/ HangCancel \/ HangFlushScan \/ HangFlushExt
  BY Zenon DEF Next, Request, UserStep, Enter, GetCmdNode, NoCmdNode, PrepareFails, PrepareQueues, ScanStart,
     CancelScan, CancelBss, StopDecide, CancelFlush, MainStep, DnldStep, ExecNextCmd, DnldCurrent,
     DnldSent, DnldFails, NoRespDone, NoRespFree, DnldArm, DownloadDone, RxCmdResp, RespStep,
     RespTaken, RespCanceled, HandleInvalid, HandlePreAsleep, HandleError, ErrorScanDone, ErrorFree,
     HandleOk, StopCompletes, RespTail, EventStep, ScanReport, ScanStatus, StatusStopsTimer,
     ScanCompletes, MoveDeferred, FwRespond, TimerStep, TimerExpires, TimerReports, HangStep, vars

\* The scan that is processed stays on its way.
LEMMA WayStep ==
  ASSUME Engine, Unharmed, NoFault, [Next]_vars, Enhanced \/ Default, Releasing, scan_processing'
  PROVE  OnItsWay' /\ (pscan_ioctl_req' # None \/ hang' = "scan")
<1> USE NoneApart
<1>0. Shape /\ Types /\ Control /\ UserKnown /\ user \in UserRec /\ main \in MainRec
  BY DEF Engine, Shape, Types
<1>1. CASE ScanStart /\ scan_pending_q # <<>>
  <2>1. /\ scan_pending_q' = Tail(scan_pending_q) /\ pscan_ioctl_req' = user.ioctl
        /\ user' = UserIdle /\ UNCHANGED <<cmd_free_q, node, curr_cmd>>
    BY <1>1 DEF ScanStart, UserReturn
  <2>2. user'.node = None
    BY <2>1 DEF UserIdle
  <2>3. \E n \in Node : Live(n)'
    BY <1>1, <2>1, <2>2, HeadLive
  <2>4. user.ioctl \in Ioctl
    BY <1>0, <1>1, UserFacts DEF ScanStart, UserAt
  <2> QED BY <2>1, <2>3, <2>4 DEF OnItsWay
<1>2. CASE ~(ScanStart /\ scan_pending_q # <<>>)
  <2>1. scan_processing
    <3>1. ScanStart => scan_processing' = scan_processing
      BY <1>2 DEF ScanStart, scanVars
    <3> QED BY <3>1, ScanVarsStep
  <2>2. ~HangFlushScan /\ ~ScanCompletes
    BY DEF HangFlushScan, FlushScan, ScanCompletes
  <2>3. hang = "scan" => hang' = "scan"
    BY <2>2, HangGoes DEF HangCancel, HangFlushExt
  <2>4. pscan_ioctl_req' # None \/ hang' = "scan"
    <3>1. ScanStart => pscan_ioctl_req' = pscan_ioctl_req
      BY <1>2 DEF ScanStart, scanVars
    <3> QED BY <2>1, <2>2, <2>3, <3>1, ProcessingStep DEF Releasing
  <2>5. OnItsWay
    BY <2>1 DEF Releasing
  <2> SUFFICES OnItsWay'
    BY <2>4
  <2>6. CASE \E n \in Node : Live(n)
    BY <2>6, LiveKept DEF OnItsWay
  <2>7. CASE hang = "scan"
    BY <2>3, <2>7 DEF OnItsWay
  <2>8. CASE main.pc \in ScanPC
    <3>1. main'.pc = main.pc \/ main'.pc = "complete"
      BY <1>0, <2>2, <2>8, EventPcStep DEF ScanPC, EventPC, ScanReport, ScanStatus, EventAt, MainAt
    <3> QED BY <2>8, <3>1 DEF OnItsWay, ScanPC
  <2>9. CASE fw.scan # "idle"
    <3>1. CASE ScanReport
      <4>1. CASE fw'.scan # "idle"
        BY <4>1 DEF OnItsWay
      <4>2. CASE fw'.scan = "idle" /\ hang # "scan"
        <5>1. fw.scan = "drun"
          <6>1. fw \in FwRec /\ fw' = [fw EXCEPT !.scan = IF @ = "run" THEN "reported" ELSE "idle"]
            BY <1>0, <3>1 DEF ScanReport, Types
          <6>2. fw'.scan = IF fw.scan = "run" THEN "reported" ELSE "idle"
            BY <6>1 DEF FwRec
          <6> QED BY <3>1, <4>2, <6>2 DEF ScanReport, EventAt
        <5>2. ~ext_scan_enhance
          BY <5>1 DEF Enhanced, Default
        <5>3. pscan_ioctl_req # None
          BY <2>1, <4>2 DEF Releasing
        <5>4. CASE scan_pending_q # <<>>
          <6>1. /\ scan_pending_q' = Tail(scan_pending_q)
                /\ UNCHANGED <<cmd_free_q, node, curr_cmd, user>>
            BY <3>1, <5>2, <5>3, <5>4 DEF ScanReport, NextScanCmd
          <6> QED BY <5>4, <6>1, HeadLive DEF OnItsWay
        <5>5. CASE scan_pending_q = <<>>
          <6>1. MainTo("report")
            BY <3>1, <5>2, <5>3, <5>5 DEF ScanReport
          <6>2. main'.pc = "report"
            BY <1>0, <6>1 DEF MainTo, MainRec
          <6> QED BY <6>2 DEF OnItsWay, ScanPC
        <5> QED BY <5>4, <5>5
      <4>3. CASE hang = "scan"
        BY <2>3, <4>3 DEF OnItsWay
      <4> QED BY <4>1, <4>2, <4>3
    <3>2. CASE ScanStatus
      <4>1. CASE scan_pending_q # <<>>
        <5>1. /\ scan_pending_q' = Tail(scan_pending_q)
              /\ UNCHANGED <<cmd_free_q, node, curr_cmd, user>>
          BY <3>2, <4>1 DEF ScanStatus, NextScanCmd
        <5> QED BY <4>1, <5>1, HeadLive DEF OnItsWay
      <4>2. CASE scan_pending_q = <<>>
        <5>1. MainTo("status")
          BY <3>2, <4>2 DEF ScanStatus
        <5>2. main'.pc = "status"
          BY <1>0, <5>1 DEF MainTo, MainRec
        <5> QED BY <5>2 DEF OnItsWay, ScanPC
      <4> QED BY <4>1, <4>2
    <3>3. CASE ~ScanReport /\ ~ScanStatus
      <4>1. fw'.scan # "idle"
        BY <2>9, <3>3, FwScanStep
      <4> QED BY <4>1 DEF OnItsWay
    <3> QED BY <3>1, <3>2, <3>3
  <2> QED BY <2>4, <2>5, <2>6, <2>7, <2>8, <2>9 DEF OnItsWay
<1> QED BY <1>1, <1>2

\* What is deferred waits for a scan, or is just being released.
LEMMA DeferredStep ==
  ASSUME Engine, Unharmed, NoFault, [Next]_vars, Enhanced \/ Default, Releasing,
         ext_cmd_pending_q' # <<>>
  PROVE  scan_processing' \/ main'.pc = "move" \/ hang' = "ext"
<1> USE NoneApart
<1>0. Shape
  BY DEF Engine
<1>1. \/ ext_cmd_pending_q' = ext_cmd_pending_q /\ ~MoveDeferred /\ ~HangFlushExt
      \/ ext_cmd_pending_q' = <<>>
      \/ scan_processing /\ scan_processing' = scan_processing
  BY Zenon DEF Next, Request, UserStep, Enter, GetCmdNode, NoCmdNode, PrepareFails, PrepareQueues, ScanStart,
     CancelScan, CancelBss, StopDecide, CancelFlush, MainStep, DnldStep, ExecNextCmd, DnldCurrent,
     DnldSent, DnldFails, NoRespDone, NoRespFree, DnldArm, DownloadDone, RxCmdResp, RespStep,
     RespTaken, RespCanceled, HandleInvalid, HandlePreAsleep, HandleError, ErrorScanDone, ErrorFree,
     HandleOk, StopCompletes, RespTail, EventStep, ScanReport, ScanStatus, StatusStopsTimer,
     ScanCompletes, MoveDeferred, FwRespond, TimerStep, TimerExpires, TimerReports, HangStep,
     HangCancel, HangFlushScan, HangFlushExt, vars, queueVars, scanVars, Enqueue, QueueCmd, Defers
<1>2. CASE ext_cmd_pending_q' = ext_cmd_pending_q /\ ~MoveDeferred /\ ~HangFlushExt
  <2>1. main.pc # "report"
    BY <1>2 DEF Enhanced, Default
  <2>2. CASE scan_processing
    <3>1. CASE HangFlushScan
      BY <3>1 DEF HangFlushScan
    <3>2. CASE ScanCompletes
      <4>1. main.pc = "complete" /\ MainTo("move")
        BY <2>1, <3>2 DEF ScanCompletes, MainAt
      <4>2. main'.pc = "move"
        BY <1>0, <4>1 DEF MainTo, Shape, Types, MainRec
      <4> QED BY <4>2
    <3> QED BY <2>2, <3>1, <3>2, ProcessingStep
  <2>3. CASE main.pc = "move"
    <3>1. main'.pc = "move"
      BY <1>0, <1>2, <2>3, EventPcStep DEF EventPC, ScanReport, ScanStatus, EventAt, MainAt
    <3> QED BY <3>1
  <2>4. CASE hang = "ext"
    BY <1>2, <2>4, HangGoes DEF HangCancel, HangFlushScan
  <2> QED BY <1>2, <2>2, <2>3, <2>4 DEF Releasing
<1> QED BY <1>1, <1>2

\* Every step keeps OfOneType.
LEMMA OfOneTypeStep ==
  ASSUME Engine, Harmless, OfOneType, [Next]_vars
  PROVE  OfOneType'
<1> SUFFICES ASSUME NoFault'
             PROVE  /\ AllOf("scan")' => Enhanced'
                    /\ AllOf("dscan")' => Default'
                    /\ AllOf("scan")' \/ AllOf("dscan")' => Releasing'
  BY DEF OfOneType
<1>1. NoFault /\ Unharmed
  BY NoFaultBefore DEF Harmless
<1>2. /\ AllOf("scan")' => AllOf("scan") /\ Enhanced
      /\ AllOf("dscan")' => AllOf("dscan") /\ Default
  BY <1>1, AllOfBefore DEF OfOneType
<1>3. AllOf("scan")' => Enhanced'
  BY <1>1, <1>2, EnhancedStep
<1>4. AllOf("dscan")' => Default'
  BY <1>1, <1>2, DefaultStep
<1>5. ASSUME AllOf("scan")' \/ AllOf("dscan")'
      PROVE  Releasing'
  <2>1. Releasing /\ (Enhanced \/ Default)
    BY <1>1, <1>2, <1>5 DEF OfOneType
  <2>2. scan_processing' => OnItsWay' /\ (pscan_ioctl_req' # None \/ hang' = "scan")
    BY <1>1, <2>1, WayStep
  <2>3. ext_cmd_pending_q' # <<>> => scan_processing' \/ main'.pc = "move" \/ hang' = "ext"
    BY <1>1, <2>1, DeferredStep
  <2> QED BY <2>2, <2>3 DEF Releasing
<1> QED BY <1>3, <1>4, <1>5

\* OfOneType holds at first.
LEMMA OfOneTypeInit ==
  ASSUME Init
  PROVE  Harmless /\ OfOneType
<1>1. PICK s \in Scenarios :
        fw = [cmd |-> None, rsp |-> None, scan |-> "idle", results |-> s.results, fails |-> s.fails]
  BY DEF Init
<1>2. /\ fw.rsp = None /\ fw.scan = "idle" /\ main.pc = "idle" /\ user.ioctl = None
      /\ cmd_free_q = Node /\ ext_cmd_pending_q = <<>> /\ ~scan_processing /\ ~ext_scan_enhance
  BY <1>1 DEF Init, MainIdle, UserIdle
<1>3. Unharmed
  BY <1>2, EmptyQueue DEF Unharmed, FairResults
<1>4. Enhanced /\ Default /\ Releasing
  BY <1>2 DEF Enhanced, Default, Releasing
<1> QED BY <1>3, <1>4 DEF Harmless, OfOneType

\* Where a scan of the one type is, for every value of the constants.
THEOREM OneTypeKept == Spec => [](Engine /\ Harmless /\ OfOneType)
<1>1. Init => Engine /\ Harmless /\ OfOneType
  BY EngineInit, OfOneTypeInit
<1>2. Engine /\ Harmless /\ OfOneType /\ [Next]_vars => (Engine /\ Harmless /\ OfOneType)'
  BY EngineStep, HarmlessStep, OfOneTypeStep
<1> QED BY <1>1, <1>2, PTL DEF Spec

\* OfOneType implies ScanReleases.
LEMMA ReleasesHolds ==
  ASSUME OfOneType
  PROVE  ScanReleases
<1> SUFFICES ASSUME NoFault, OneScanType
             PROVE  /\ scan_processing =>
                         \/ \E n \in Node \ Range(scan_pending_q) : node[n].cmd \in ScanKinds
                         \/ fw.scan # "idle" \/ main.pc \in {"report", "status", "complete"}
                         \/ hang = "scan"
                    /\ ext_cmd_pending_q # <<>> =>
                         scan_processing \/ MainAt("move") \/ hang = "ext"
  BY DEF ScanReleases
<1>1. AllOf("scan") \/ AllOf("dscan")
  BY DEF OneScanType, AllOf, ScanKinds
<1>2. Releasing
  BY <1>1 DEF OfOneType
<1> QED BY <1>2 DEF Releasing, OnItsWay, Live, ScanPC, MainAt

\* If no scan is cancelled or fails and all are of one type, scan_processing
\* stands for a scan on its way, and what is deferred is released.
THEOREM ScansRelease == Spec => []ScanReleases
  BY OneTypeKept, ReleasesHolds, PTL
==============================================================================
