------------------------------- MODULE Sdio_proof -------------------------------
(***************************************************************************)
(* Proofs about the transmit side of Sdio, for any stations and            *)
(* priorities, any number of write ports, any sizes of the aggregation     *)
(* buffer and any load: the ports the driver believes in have buffers      *)
(* (PortsHaveBuffers), every packet is sent in order and completed once    *)
(* (SentOnce), and the counters of the queues agree and no packet is       *)
(* overlooked (QueuesAreCounted).  SdioRx_proof goes on with the read      *)
(* path and the sizes of both buffers.                                     *)
(*                                                                         *)
(* The argument for the ports: those of the aggregation buffer are the run *)
(* that ends before curr_wr_port, what the bitmap holds lies between there *)
(* and the next port to grant, and a bitmap the handler has read and not   *)
(* handed over yet is still true, for the card grants only when it has no  *)
(* port left (PortInv).                                                    *)
(*                                                                         *)
(* The argument for the packets: on the wire, that is what the card got    *)
(* and behind it what the aggregation buffer holds, the packets of a list  *)
(* are in order, and each packet that waits comes after all of its list on *)
(* the wire; the packet in flight is in one hand (OnceInv).                *)
(*                                                                         *)
(* The argument for the counters: a step changes the count of one list, or *)
(* clears or moves the counts of one station, and the sums pkts_queued,    *)
(* pkts_paused and tx_pkts_queued change by as much; the station of the    *)
(* packet in flight is not paused, for pauses come between packets.  The   *)
(* argument for the search: what is queued above highest_queued_prio is of *)
(* the same access category, and the search comes to the list that the     *)
(* packet in flight may be put back into (QueueInv).                       *)
(***************************************************************************)
EXTENDS Sdio, TLAPS, FiniteSetTheorems, SequenceTheorems, WellFoundedInduction

--------------------------------------------------------------------------------
(* Sums over finite sets.                                                    *)

\* A nonempty set of natural numbers has a least element.
LEMMA LeastElement ==
  ASSUME NEW T, T \subseteq Nat, T # {}
  PROVE  \E x \in T : \A y \in T : ~(y < x)
<1> DEFINE R == OpToRel(<, Nat)
<1>1. IsWellFoundedOn(R, Nat)
  BY NatLessThanWellFounded
<1>2. \A x, y \in Nat : y < x => <<y, x>> \in R
  BY DEF OpToRel
<1> HIDE DEF R
<1>3. \E x \in T : \A y \in T : ~(<<y, x>> \in R)
  BY <1>1, WFMin
<1> QED BY <1>2, <1>3

\* Induction over the natural numbers, for a set of them.
LEMMA NatInductionSet ==
  ASSUME NEW S, 0 \in S, \A n \in Nat : n \in S => n + 1 \in S
  PROVE  Nat \subseteq S
<1> DEFINE T == Nat \ S
<1> SUFFICES ASSUME T # {} PROVE FALSE
  OBVIOUS
<1>1. PICK x \in T : \A y \in T : ~(y < x)
  BY LeastElement
<1>2. x # 0 /\ x - 1 \in Nat /\ x - 1 \notin T
  BY <1>1
<1> QED BY <1>2

Some1(s) == CHOOSE x \in s : TRUE

\* The recursion behind the sums over sets.
IterOf(f, S) ==
  CHOOSE g : g = [s \in SUBSET S |-> IF s = {} THEN 0 ELSE f[Some1(s)] + g[s \ {Some1(s)}]]
IsIter(f, S, g) ==
  /\ g \in [SUBSET S -> Int]
  /\ \A s \in SUBSET S : g[s] = IF s = {} THEN 0 ELSE f[Some1(s)] + g[s \ {Some1(s)}]

\* The element Some1 chooses is one of the set.
LEMMA Some1In == ASSUME NEW s, s # {} PROVE Some1(s) \in s
  BY DEF Some1

\* A finite set without one of its elements.
LEMMA Smaller ==
  ASSUME NEW S, IsFiniteSet(S), NEW s \in SUBSET S, NEW x \in s
  PROVE  /\ Cardinality(s) \in Nat /\ Cardinality(s \ {x}) = Cardinality(s) - 1
         /\ Cardinality(s) # 0 /\ s \ {x} \in SUBSET S
<1>1. IsFiniteSet(s)
  BY FS_Subset
<1>2. Cardinality(s \ {x}) = Cardinality(s) - 1 /\ Cardinality(s) \in Nat
  BY <1>1, FS_RemoveElement, FS_CardinalityType
<1>3. Cardinality(s) # 0
  BY <1>1, FS_EmptySet
<1> QED BY <1>2, <1>3

\* There is a function that computes the sum, for a finite set.
LEMMA IterExists ==
  ASSUME NEW S, IsFiniteSet(S), NEW f, \A x \in S : f[x] \in Int
  PROVE  \E g : IsIter(f, S, g)
<1> DEFINE Step(g, s) == IF s = {} THEN 0 ELSE f[Some1(s)] + g[s \ {Some1(s)}]
           UpTo(g, n) == \A s \in SUBSET S : Cardinality(s) <= n => g[s] = Step(g, s)
           N == {n \in Nat : \E g \in [SUBSET S -> Int] : UpTo(g, n)}
<1>0. \A s \in SUBSET S : Cardinality(s) \in Nat /\ (Cardinality(s) = 0 => s = {})
  BY FS_Subset, FS_CardinalityType, FS_EmptySet
<1>1. 0 \in N
  <2> DEFINE g == [s \in SUBSET S |-> 0]
  <2>1. g \in [SUBSET S -> Int] /\ UpTo(g, 0)
    BY <1>0
  <2> QED BY <2>1
<1>2. ASSUME NEW n \in Nat, n \in N PROVE n + 1 \in N
  <2>1. PICK g \in [SUBSET S -> Int] : UpTo(g, n)
    BY <1>2
  <2> DEFINE h == [s \in SUBSET S |-> IF Cardinality(s) <= n THEN g[s] ELSE Step(g, s)]
  <2>2. \A s \in SUBSET S : Step(g, s) \in Int
    <3> SUFFICES ASSUME NEW s \in SUBSET S, s # {} PROVE f[Some1(s)] + g[s \ {Some1(s)}] \in Int
      OBVIOUS
    <3>1. Some1(s) \in S /\ s \ {Some1(s)} \in SUBSET S
      BY Some1In
    <3> QED BY <3>1
  <2>3. h \in [SUBSET S -> Int]
    BY <2>2
  <2>4. ASSUME NEW s \in SUBSET S, Cardinality(s) <= n + 1 PROVE h[s] = Step(h, s)
    <3>1. CASE s = {}
      <4>1. h[s] = 0
        <5>1. CASE Cardinality(s) <= n
          BY <5>1, <3>1, <2>1
        <5>2. CASE ~(Cardinality(s) <= n)
          BY <5>2, <3>1
        <5> QED BY <5>1, <5>2
      <4> QED BY <3>1, <4>1
    <3>2. CASE s # {}
      <4> DEFINE x == Some1(s)
      <4>1. x \in s
        BY <3>2, Some1In
      <4>2. /\ Cardinality(s) \in Nat /\ Cardinality(s \ {x}) = Cardinality(s) - 1
            /\ Cardinality(s) # 0 /\ s \ {x} \in SUBSET S
        BY <4>1, Smaller
      <4> HIDE DEF x
      <4>3. h[s \ {x}] = g[s \ {x}]
        BY <4>2, <2>4
      <4>4. h[s] = Step(g, s)
        BY <2>1
      <4>5. Step(g, s) = f[x] + g[s \ {x}] /\ Step(h, s) = f[x] + h[s \ {x}]
        BY <3>2 DEF x
      <4> QED BY <4>3, <4>4, <4>5
    <3> QED BY <3>1, <3>2
  <2>5. UpTo(h, n + 1)
    BY <2>4
  <2> HIDE DEF h, Step
  <2> QED BY <2>3, <2>5
<1>3. Nat \subseteq N
  <2> HIDE DEF N
  <2> QED BY <1>1, <1>2, NatInductionSet
<1>4. Cardinality(S) \in Nat
  BY FS_CardinalityType
<1>5. PICK g \in [SUBSET S -> Int] : UpTo(g, Cardinality(S))
  BY <1>3, <1>4
<1>6. \A s \in SUBSET S : Cardinality(s) <= Cardinality(S)
  BY FS_Subset
<1> QED BY <1>5, <1>6 DEF IsIter

\* IterOf is one.
LEMMA IterSolves ==
  ASSUME NEW S, IsFiniteSet(S), NEW f, \A x \in S : f[x] \in Int
  PROVE  IsIter(f, S, IterOf(f, S))
<1>1. PICK g : IsIter(f, S, g)
  BY IterExists
<1>2. g = [s \in SUBSET S |-> IF s = {} THEN 0 ELSE f[Some1(s)] + g[s \ {Some1(s)}]]
  BY <1>1 DEF IsIter
<1> DEFINE h == IterOf(f, S)
<1>3. h = [s \in SUBSET S |-> IF s = {} THEN 0 ELSE f[Some1(s)] + h[s \ {Some1(s)}]]
  BY <1>2 DEF IterOf
<1> HIDE DEF h
<1> DEFINE N == {n \in Nat : \A s \in SUBSET S : Cardinality(s) <= n => h[s] \in Int}
<1>0. \A s \in SUBSET S : Cardinality(s) \in Nat /\ (Cardinality(s) = 0 => s = {})
  BY FS_Subset, FS_CardinalityType, FS_EmptySet
<1>4. 0 \in N
  BY <1>0, <1>3
<1>5. ASSUME NEW n \in Nat, n \in N PROVE n + 1 \in N
  <2> SUFFICES ASSUME NEW s \in SUBSET S, Cardinality(s) <= n + 1 PROVE h[s] \in Int
    OBVIOUS
  <2>1. CASE s = {}
    BY <2>1, <1>3
  <2>2. CASE s # {}
    <3> DEFINE x == Some1(s)
    <3>1. x \in s
      BY <2>2, Some1In
    <3>2. /\ Cardinality(s) \in Nat /\ Cardinality(s \ {x}) = Cardinality(s) - 1
          /\ Cardinality(s) # 0 /\ s \ {x} \in SUBSET S
      BY <3>1, Smaller
    <3>3. h[s] = f[x] + h[s \ {x}]
      BY <1>3, <2>2
    <3> HIDE DEF x
    <3>4. h[s \ {x}] \in Int /\ f[x] \in Int
      BY <3>1, <3>2, <1>5
    <3> QED BY <3>3, <3>4
  <2> QED BY <2>1, <2>2
<1>6. Nat \subseteq N
  <2> HIDE DEF N
  <2> QED BY <1>4, <1>5, NatInductionSet
<1>7. \A s \in SUBSET S : h[s] \in Int
  BY <1>0, <1>6
<1>8. IsIter(f, S, h)
  <2>1. DOMAIN h = SUBSET S /\ h = [s \in SUBSET S |-> h[s]]
    BY <1>3
  <2>2. h \in [SUBSET S -> Int]
    BY <1>7, <2>1
  <2> QED BY <1>3, <2>2 DEF IsIter
<1> QED BY <1>8 DEF h

\* The recursion does not depend on the rest of the set.
LEMMA IterUnique ==
  ASSUME NEW S, IsFiniteSet(S), NEW T \in SUBSET S, NEW f, NEW g, NEW h, NEW k,
         \A x \in T : f[x] = h[x], IsIter(f, S, g), IsIter(h, T, k)
  PROVE  \A s \in SUBSET T : g[s] = k[s]
<1> DEFINE N == {n \in Nat : \A s \in SUBSET T : Cardinality(s) <= n => g[s] = k[s]}
<1>0. \A s \in SUBSET S : Cardinality(s) \in Nat /\ (Cardinality(s) = 0 => s = {})
  BY FS_Subset, FS_CardinalityType, FS_EmptySet
<1>4. 0 \in N
  <2> SUFFICES ASSUME NEW s \in SUBSET T, Cardinality(s) <= 0 PROVE g[s] = k[s]
    OBVIOUS
  <2>1. s = {} /\ s \in SUBSET S
    BY <1>0
  <2> QED BY <2>1 DEF IsIter
<1>5. ASSUME NEW n \in Nat, n \in N PROVE n + 1 \in N
  <2> SUFFICES ASSUME NEW s \in SUBSET T, Cardinality(s) <= n + 1 PROVE g[s] = k[s]
    OBVIOUS
  <2>1. CASE s = {}
    BY <2>1 DEF IsIter
  <2>2. CASE s # {}
    <3> DEFINE x == Some1(s)
    <3>1. x \in s
      BY <2>2, Some1In
    <3>2. /\ Cardinality(s) \in Nat /\ Cardinality(s \ {x}) = Cardinality(s) - 1
          /\ Cardinality(s) # 0 /\ s \ {x} \in SUBSET S
      BY <3>1, Smaller
    <3>3. g[s] = f[x] + g[s \ {x}] /\ k[s] = h[x] + k[s \ {x}]
      BY <2>2 DEF IsIter
    <3> HIDE DEF x
    <3>4. g[s \ {x}] = k[s \ {x}] /\ f[x] = h[x]
      BY <3>1, <3>2, <1>5
    <3> QED BY <3>3, <3>4
  <2> QED BY <2>1, <2>2
<1>6. Nat \subseteq N
  <2> HIDE DEF N
  <2> QED BY <1>4, <1>5, NatInductionSet
<1> QED BY <1>0, <1>6

\* Any element may be taken out first.
LEMMA IterAny ==
  ASSUME NEW S, IsFiniteSet(S), NEW f, \A x \in S : f[x] \in Int, NEW g, IsIter(f, S, g)
  PROVE  \A s \in SUBSET S : \A x \in s : g[s] = f[x] + g[s \ {x}]
<1> DEFINE OK(s) == \A x \in s : g[s] = f[x] + g[s \ {x}]
           N == {n \in Nat : \A s \in SUBSET S : Cardinality(s) <= n => OK(s)}
<1>0. \A s \in SUBSET S : Cardinality(s) \in Nat /\ (Cardinality(s) = 0 => s = {})
  BY FS_Subset, FS_CardinalityType, FS_EmptySet
<1>4. 0 \in N
  BY <1>0
<1>5. ASSUME NEW n \in Nat, n \in N PROVE n + 1 \in N
  <2> SUFFICES ASSUME NEW s \in SUBSET S, Cardinality(s) <= n + 1, NEW y \in s
               PROVE  g[s] = f[y] + g[s \ {y}]
    OBVIOUS
  <2> DEFINE x == Some1(s)
  <2>1. x \in s
    BY Some1In
  <2>2. /\ Cardinality(s) \in Nat /\ Cardinality(s \ {x}) = Cardinality(s) - 1
        /\ Cardinality(s) # 0 /\ s \ {x} \in SUBSET S
    BY <2>1, Smaller
  <2>3. /\ Cardinality(s \ {y}) = Cardinality(s) - 1 /\ s \ {y} \in SUBSET S
    BY Smaller
  <2>4. g[s] = f[x] + g[s \ {x}]
    BY DEF IsIter
  <2> HIDE DEF x
  <2>5. CASE y = x
    BY <2>4, <2>5
  <2>6. CASE y # x
    <3>1. y \in s \ {x} /\ x \in s \ {y} /\ (s \ {x}) \ {y} = (s \ {y}) \ {x}
      BY <2>1, <2>6
    <3>2. OK(s \ {x}) /\ OK(s \ {y})
      <4>1. Cardinality(s \ {x}) <= n /\ Cardinality(s \ {y}) <= n
        BY <2>2, <2>3
      <4> HIDE DEF OK
      <4> QED BY <2>2, <2>3, <4>1, <1>5
    <3>3. g[s \ {x}] = f[y] + g[(s \ {x}) \ {y}]
      BY <3>1, <3>2
    <3>4. g[s \ {y}] = f[x] + g[(s \ {y}) \ {x}]
      BY <3>1, <3>2
    <3>5. f[x] \in Int /\ f[y] \in Int /\ (s \ {y}) \ {x} \in SUBSET S
      BY <2>1
    <3>6. g[(s \ {y}) \ {x}] \in Int
      BY <3>5 DEF IsIter
    <3>7. g[s \ {x}] = f[y] + g[(s \ {y}) \ {x}]
      BY <3>1, <3>3
    <3> DEFINE r == g[(s \ {y}) \ {x}]
    <3>8. r \in Int /\ g[s \ {x}] = f[y] + r /\ g[s \ {y}] = f[x] + r
      BY <3>4, <3>6, <3>7
    <3> HIDE DEF r
    <3> QED BY <2>4, <3>5, <3>8
  <2> QED BY <2>5, <2>6
<1>6. Nat \subseteq N
  <2> HIDE DEF N
  <2> QED BY <1>4, <1>5, NatInductionSet
<1>7. \A s \in SUBSET S : OK(s)
  <2> HIDE DEF OK
  <2> QED BY <1>0, <1>6
<1> QED BY <1>7

\* The sum of f over S.
Sum(f, S) == IterOf(f, S)[S]

\* A sum of integers is an integer.
LEMMA SumType ==
  ASSUME NEW S, IsFiniteSet(S), NEW f, \A x \in S : f[x] \in Int
  PROVE  Sum(f, S) \in Int
<1>1. IsIter(f, S, IterOf(f, S))
  BY IterSolves
<1> QED BY <1>1 DEF Sum, IsIter

\* The sum over no element.
LEMMA SumEmpty == ASSUME NEW f PROVE Sum(f, {}) = 0
<1>1. IsIter(f, {}, IterOf(f, {}))
  BY FS_EmptySet, IterSolves
<1> QED BY <1>1 DEF Sum, IsIter

\* A sum over a set and one more.
LEMMA SumInsert ==
  ASSUME NEW S, IsFiniteSet(S), NEW f, NEW x, x \notin S, \A y \in S \cup {x} : f[y] \in Int
  PROVE  Sum(f, S \cup {x}) = f[x] + Sum(f, S)
<1> DEFINE U == S \cup {x}
<1>1. IsFiniteSet(U) /\ S \in SUBSET U /\ U \ {x} = S /\ x \in U
  BY FS_AddElement
<1>2. \A y \in U : f[y] \in Int
  OBVIOUS
<1> HIDE DEF U
<1>3. IsIter(f, U, IterOf(f, U)) /\ IsIter(f, S, IterOf(f, S))
  BY <1>1, <1>2, IterSolves
<1>4. IterOf(f, U)[U] = f[x] + IterOf(f, U)[U \ {x}]
  BY <1>1, <1>2, <1>3, IterAny
<1>5. IterOf(f, U)[S] = IterOf(f, S)[S]
  BY <1>1, <1>3, IterUnique
<1> QED BY <1>1, <1>4, <1>5 DEF Sum, U

\* Only the values on the set count.
LEMMA SumSame ==
  ASSUME NEW S, IsFiniteSet(S), NEW f, NEW h, \A x \in S : f[x] \in Int /\ h[x] = f[x]
  PROVE  Sum(h, S) = Sum(f, S)
<1>1. IsIter(f, S, IterOf(f, S)) /\ IsIter(h, S, IterOf(h, S))
  <2>1. \A x \in S : h[x] \in Int
    OBVIOUS
  <2> QED BY <2>1, IterSolves
<1> DEFINE T == S
<1>0. T \in SUBSET S /\ \A x \in T : f[x] = h[x]
  OBVIOUS
<1>3. IsIter(h, T, IterOf(h, T))
  BY <1>1
<1> HIDE DEF T
<1>4. \A s \in SUBSET T : IterOf(f, S)[s] = IterOf(h, T)[s]
  <2> DEFINE g == IterOf(f, S)
             k == IterOf(h, T)
  <2>1. IsIter(f, S, g) /\ IsIter(h, T, k)
    BY <1>1, <1>3
  <2> HIDE DEF g, k
  <2>2. \A s \in SUBSET T : g[s] = k[s]
    BY <1>0, <2>1, IterUnique
  <2> QED BY <2>2 DEF g, k
<1>2. IterOf(f, S)[S] = IterOf(h, S)[S]
  BY <1>4 DEF T
<1> QED BY <1>2 DEF Sum

\* A sum of which one term changes.
LEMMA SumChange ==
  ASSUME NEW S, IsFiniteSet(S), NEW x \in S, NEW f, NEW h,
         \A y \in S : f[y] \in Int /\ h[y] \in Int, \A y \in S \ {x} : h[y] = f[y]
  PROVE  Sum(h, S) = Sum(f, S) + h[x] - f[x]
<1> DEFINE T == S \ {x}
<1>1. IsFiniteSet(T) /\ x \notin T /\ S = T \cup {x}
  BY FS_Subset
<1>2. \A y \in T : f[y] \in Int /\ h[y] = f[y]
  OBVIOUS
<1>3. \A y \in T \cup {x} : f[y] \in Int /\ h[y] \in Int
  BY <1>1
<1> HIDE DEF T
<1>4. Sum(f, T) = Sum(h, T) /\ Sum(f, T) \in Int
  BY <1>1, <1>2, SumSame, SumType
<1>5. Sum(f, S) = f[x] + Sum(f, T) /\ Sum(h, S) = h[x] + Sum(h, T)
  BY <1>1, <1>3, SumInsert
<1> QED BY <1>4, <1>5

\* A sum of nothing but zeros.
LEMMA SumZero ==
  ASSUME NEW S, IsFiniteSet(S), NEW f, \A x \in S : f[x] = 0
  PROVE  Sum(f, S) = 0
<1> DEFINE g == [s \in SUBSET S |-> 0]
<1>1. IsIter(f, S, IterOf(f, S))
  BY IterSolves
<1>2. IsIter(f, S, g)
  <2>1. \A s \in SUBSET S : s # {} => f[Some1(s)] = 0
    BY Some1In
  <2> QED BY <2>1 DEF IsIter
<1> DEFINE k == IterOf(f, S)
           T == S
<1>4. IsIter(f, T, k) /\ T \in SUBSET S /\ \A x \in T : f[x] = f[x]
  BY <1>1
<1> HIDE DEF g, k, T
<1>5. \A s \in SUBSET T : g[s] = k[s]
  BY <1>2, <1>4, IterUnique
<1>6. g[S] = k[S]
  BY <1>5 DEF T
<1> QED BY <1>6 DEF g, k, Sum

\* A sum over two sets.
LEMMA SumUnion ==
  ASSUME NEW A, IsFiniteSet(A), NEW B, IsFiniteSet(B), A \cap B = {}, NEW f, \A x \in A \cup B : f[x] \in Int
  PROVE  Sum(f, A \cup B) = Sum(f, A) + Sum(f, B)
<1> DEFINE OK(T) == Sum(f, A \cup T) = Sum(f, A) + Sum(f, T)
           N == {n \in Nat : \A T \in SUBSET B : Cardinality(T) <= n => OK(T)}
<1>0. \A s \in SUBSET B : Cardinality(s) \in Nat /\ (Cardinality(s) = 0 => s = {}) /\ IsFiniteSet(s)
  BY FS_Subset, FS_CardinalityType, FS_EmptySet
<1>5. Sum(f, A) \in Int /\ OK({})
  <2>1. Sum(f, A) \in Int
    BY SumType
  <2>2. A \cup {} = A
    OBVIOUS
  <2> QED BY <2>1, <2>2, SumEmpty
<1>1. 0 \in N
  <2> SUFFICES ASSUME NEW T \in SUBSET B, Cardinality(T) <= 0 PROVE OK(T)
    OBVIOUS
  <2>1. T = {}
    BY <1>0
  <2> QED BY <2>1, <1>5
<1>2. ASSUME NEW n \in Nat, n \in N PROVE n + 1 \in N
  <2> SUFFICES ASSUME NEW T \in SUBSET B, Cardinality(T) <= n + 1 PROVE OK(T)
    OBVIOUS
  <2>1. CASE T = {}
    BY <2>1, <1>5
  <2>2. CASE T # {}
    <3>1. PICK x \in T : TRUE
      BY <2>2
    <3> DEFINE R == T \ {x}
    <3>2. Cardinality(R) <= n /\ R \in SUBSET B
      BY <1>0, <3>1, Smaller
    <3>3. OK(R)
      BY <3>2, <1>2
    <3>4. /\ T = R \cup {x} /\ x \notin R /\ A \cup T = (A \cup R) \cup {x} /\ x \notin A \cup R
          /\ \A y \in R \cup {x} : f[y] \in Int
          /\ \A y \in (A \cup R) \cup {x} : f[y] \in Int
      BY <3>1
    <3> HIDE DEF R
    <3>5. IsFiniteSet(R) /\ IsFiniteSet(A \cup R)
      BY <1>0, <3>2, FS_Union
    <3>6. Sum(f, T) = f[x] + Sum(f, R)
      BY <3>4, <3>5, SumInsert
    <3>7. Sum(f, A \cup T) = f[x] + Sum(f, A \cup R)
      BY <3>4, <3>5, SumInsert
    <3>8. Sum(f, R) \in Int /\ f[x] \in Int
      BY <3>4, <3>5, SumType
    <3> QED BY <3>3, <3>6, <3>7, <3>8, <1>5
  <2> QED BY <2>1, <2>2
<1>3. Nat \subseteq N
  <2> HIDE DEF N
  <2> QED BY <1>1, <1>2, NatInductionSet
<1>4. \A T \in SUBSET B : OK(T)
  <2> HIDE DEF OK
  <2> QED BY <1>0, <1>3
<1> QED BY <1>4

\* A sum of natural numbers.
LEMMA SumNat ==
  ASSUME NEW S, IsFiniteSet(S), NEW f, \A x \in S : f[x] \in Nat
  PROVE  Sum(f, S) \in Nat /\ \A x \in S : f[x] <= Sum(f, S)
<1> DEFINE OK(T) == Sum(f, T) \in Nat
           N == {n \in Nat : \A T \in SUBSET S : Cardinality(T) <= n => OK(T)}
<1>0. \A s \in SUBSET S : Cardinality(s) \in Nat /\ (Cardinality(s) = 0 => s = {}) /\ IsFiniteSet(s)
  BY FS_Subset, FS_CardinalityType, FS_EmptySet
<1>1. 0 \in N
  BY <1>0, SumEmpty
<1>2. ASSUME NEW n \in Nat, n \in N PROVE n + 1 \in N
  <2> SUFFICES ASSUME NEW T \in SUBSET S, Cardinality(T) <= n + 1 PROVE OK(T)
    OBVIOUS
  <2>1. CASE T = {}
    BY <2>1, SumEmpty
  <2>2. CASE T # {}
    <3>1. PICK x \in T : TRUE
      BY <2>2
    <3>2. Cardinality(T \ {x}) <= n /\ T \ {x} \in SUBSET S
      BY <1>0, <3>1, Smaller
    <3>3. Sum(f, T \ {x}) \in Nat
      BY <3>2, <1>2
    <3>4. T = (T \ {x}) \cup {x} /\ x \notin T \ {x} /\ \A y \in T : f[y] \in Int
      BY <3>1
    <3>5. Sum(f, T) = f[x] + Sum(f, T \ {x})
      BY <1>0, <3>2, <3>4, SumInsert
    <3> QED BY <3>1, <3>3, <3>5
  <2> QED BY <2>1, <2>2
<1>3. Nat \subseteq N
  <2> HIDE DEF N
  <2> QED BY <1>1, <1>2, NatInductionSet
<1>4. \A T \in SUBSET S : OK(T)
  <2> HIDE DEF OK
  <2> QED BY <1>0, <1>3
<1>5. ASSUME NEW x \in S PROVE f[x] <= Sum(f, S)
  <2>1. S = (S \ {x}) \cup {x} /\ x \notin S \ {x} /\ \A y \in S : f[y] \in Int
    OBVIOUS
  <2>2. Sum(f, S) = f[x] + Sum(f, S \ {x})
    BY <1>0, <2>1, SumInsert
  <2>3. Sum(f, S \ {x}) \in Nat
    BY <1>4
  <2> QED BY <2>2, <2>3
<1> QED BY <1>4, <1>5

--------------------------------------------------------------------------------
(* Types, and the operators on the queues.                                   *)

WmmF == {"buf", "total", "live", "paused", "requeued", "queued", "held", "tx_pkts_queued", "highest",
         "short"}
SndF == {"pkt", "prio", "sta", "next", "proc", "gone", "ret", "port", "todo", "put"}
LeftF == {"tx", "del", "pause", "drop", "wfail", "rfail", "norxbuf", "cmd"}

PacketSeq == Seq(Packet)
Ids == Seq(PktId)
Highest == Prio \cup {NO_PKT_PRIO_TID}
Returns == {"none", "success", "failure", "resource", "pending"}
TxSteps == {"pre", "aggr", "cur", "post"}
Answers == Seq({"success", "failure"})

WmmTypes ==
  /\ DOMAIN wmm = WmmF
  /\ wmm.buf \in [Lists -> Ids] /\ wmm.total \in [Lists -> Int]
  /\ wmm.live \in [Sta -> BOOLEAN] /\ wmm.paused \in [Sta -> BOOLEAN]
  /\ wmm.requeued \subseteq PktId
  /\ wmm.queued \in [Prio -> Int] /\ wmm.held \in [Prio -> Int]
  /\ wmm.tx_pkts_queued \in Int /\ wmm.highest \in Highest
  /\ wmm.short \in [Prio -> Nat]
SndTypes ==
  /\ DOMAIN snd = SndF
  /\ snd.pkt \in {0} \cup PktId /\ snd.prio \in Prio /\ snd.sta \in Sta \cup {None}
  /\ snd.next \in Nat /\ snd.proc \in BOOLEAN /\ snd.gone \in BOOLEAN /\ snd.put \in BOOLEAN
  /\ snd.ret \in Returns /\ snd.port \in WrPort /\ snd.todo \subseteq TxSteps
LeftTypes ==
  /\ DOMAIN left = LeftF
  /\ \A w \in LeftF : left[w] \in Nat
  /\ left.tx <= Len(load.tx)

\* What is known of the load.
LEMMA LoadIs ==
  ASSUME load \in Loads
  PROVE  /\ load \in Load /\ load.tx \in PacketSeq /\ Len(load.tx) \in Nat
         /\ \A k \in PktId : P(k) \in Packet /\ P(k).prio \in Prio /\ P(k).sta \in Sta
              /\ SizeOf(k) \in Nat /\ ListOf(k) \in Lists
<1>1. load \in Load
  BY WmmAssumption
<1>2. load.tx \in PacketSeq
  BY <1>1 DEF Load, PacketSeq
<1>3. Len(load.tx) \in Nat
  BY <1>2 DEF PacketSeq
<1>4. ASSUME NEW k \in PktId
      PROVE  P(k) \in Packet /\ P(k).prio \in Prio /\ P(k).sta \in Sta /\ SizeOf(k) \in Nat
             /\ ListOf(k) \in Lists
  <2>1. P(k) \in Packet
    BY <1>2, ElementOfSeq DEF PacketSeq, PktId, P
  <2>2. P(k).prio \in Prio /\ P(k).sta \in Sta /\ P(k).len \in Nat
    BY <2>1 DEF Packet
  <2> QED BY <2>1, <2>2 DEF SizeOf, ListOf, Lists
<1> QED BY <1>1, <1>2, <1>3, <1>4

\* Spend takes one of one item.
LEMMA SpendIs ==
  ASSUME LeftTypes, load' = load, NEW w \in LeftF, Spend(w)
  PROVE  /\ LeftTypes' /\ left.tx - left'.tx = IF w = "tx" THEN 1 ELSE 0
         /\ left[w] > 0 /\ left'[w] = left[w] - 1
         /\ \A v \in LeftF \ {w} : left'[v] = left[v]
<1>1. /\ left[w] > 0 /\ left'[w] = left[w] - 1 /\ DOMAIN left' = LeftF
      /\ \A v \in LeftF \ {w} : left'[v] = left[v]
  BY DEF LeftTypes, Spend
<1>2. left.tx = left["tx"] /\ left'.tx = left'["tx"] /\ "tx" \in LeftF
  BY DEF LeftF
<1>3. /\ left.tx \in Nat /\ left'.tx <= left.tx /\ \A v \in LeftF : left'[v] \in Nat
      /\ left.tx - left'.tx = IF w = "tx" THEN 1 ELSE 0
  BY <1>1, <1>2 DEF LeftTypes
<1>4. left'.tx <= Len(load'.tx)
  BY <1>2, <1>3 DEF LeftTypes
<1> QED BY <1>1, <1>3, <1>4 DEF LeftTypes

\* What AddBuf does.
LEMMA AddBufIs ==
  ASSUME WmmTypes, LeftTypes, load \in Loads, AddBuf
  PROVE  LET k == Len(load.tx) - left.tx + 1
             l == ListOf(k)
             s == P(k).sta
             p == P(k).prio
             off == wmm.paused[s]
         IN  /\ k \in PktId /\ p \in Prio /\ s \in Sta /\ l = <<p, s>> /\ l \in Lists
             /\ LeftTypes' /\ left'.tx = left.tx - 1 /\ load' = load
             /\ DOMAIN wmm' = WmmF
             /\ wmm'.buf = [wmm.buf EXCEPT ![l] = Append(@, k)]
             /\ wmm'.total = [wmm.total EXCEPT ![l] = @ + 1]
             /\ wmm'.live = [wmm.live EXCEPT ![s] = TRUE]
             /\ wmm'.paused = wmm.paused /\ wmm'.requeued = wmm.requeued /\ wmm'.short = wmm.short
             /\ wmm'.queued = [wmm.queued EXCEPT ![p] = @ + 1]
             /\ wmm'.held = IF off THEN [wmm.held EXCEPT ![p] = @ + 1] ELSE wmm.held
             /\ wmm'.tx_pkts_queued = IF off THEN wmm.tx_pkts_queued ELSE wmm.tx_pkts_queued + 1
             /\ wmm'.highest = IF off THEN wmm.highest
                               ELSE IF wmm.highest < p THEN p ELSE wmm.highest
<1> DEFINE k == Len(load.tx) - left.tx + 1
           s == P(k).sta
           p == P(k).prio
<1>1. Spend("tx") /\ load' = load
  BY DEF AddBuf
<1>2. LeftTypes' /\ left'.tx = left.tx - 1 /\ left.tx > 0 /\ left.tx \in Nat
  BY <1>1, SpendIs DEF LeftF, LeftTypes
<1>3. Len(load.tx) \in Nat /\ left.tx <= Len(load.tx)
  BY LoadIs DEF LeftTypes
<1>4. k \in PktId
  BY <1>2, <1>3 DEF PktId
<1>5. p \in Prio /\ s \in Sta /\ ListOf(k) = <<p, s>> /\ ListOf(k) \in Lists
  BY <1>4, LoadIs DEF ListOf
<1>6. wmm' = CountQueued([wmm EXCEPT !.live[s] = TRUE, !.buf[<<p, s>>] = Append(@, k)], p, s)
  BY <1>5 DEF AddBuf
<1> HIDE DEF k, s, p
<1>7. /\ DOMAIN wmm' = WmmF
      /\ wmm'.buf = [wmm.buf EXCEPT ![<<p, s>>] = Append(@, k)]
      /\ wmm'.total = [wmm.total EXCEPT ![<<p, s>>] = @ + 1]
      /\ wmm'.live = [wmm.live EXCEPT ![s] = TRUE]
      /\ wmm'.paused = wmm.paused /\ wmm'.requeued = wmm.requeued /\ wmm'.short = wmm.short
      /\ wmm'.queued = [wmm.queued EXCEPT ![p] = @ + 1]
      /\ wmm'.held = IF wmm.paused[s] THEN [wmm.held EXCEPT ![p] = @ + 1] ELSE wmm.held
      /\ wmm'.tx_pkts_queued = IF wmm.paused[s] THEN wmm.tx_pkts_queued ELSE wmm.tx_pkts_queued + 1
      /\ wmm'.highest = IF wmm.paused[s] THEN wmm.highest
                        ELSE IF wmm.highest < p THEN p ELSE wmm.highest
  BY <1>6 DEF CountQueued, WmmTypes, WmmF
<1> QED BY <1>1, <1>2, <1>4, <1>5, <1>7 DEF k, s, p

\* What DropTxPkt does.
LEMMA DropIs ==
  ASSUME WmmTypes, LeftTypes, DropTxPkt
  PROVE  /\ LeftTypes' /\ left'.tx = left.tx /\ left'.drop = left.drop - 1 /\ left.drop > 0
         /\ left'.del = left.del
         /\ UNCHANGED <<load, snd, pc, sent>>
         /\ \E p \in Prio, s \in Sta :
              LET l == <<p, s>>
                  off == wmm.paused[s]
                  k == Head(wmm.buf[l])
              IN  /\ l \in Lists /\ wmm.buf[l] # <<>>
                  /\ off \/ wmm.total[l] > RX_LOW_THRESHOLD
                  /\ done' = Completed({k}, "failure")
                  /\ DOMAIN wmm' = WmmF
                  /\ wmm'.buf = [wmm.buf EXCEPT ![l] = Tail(@)]
                  /\ wmm'.total = [wmm.total EXCEPT ![l] = @ - 1]
                  /\ wmm'.live = wmm.live /\ wmm'.paused = wmm.paused
                  /\ wmm'.requeued = wmm.requeued /\ wmm'.short = wmm.short
                  /\ wmm'.queued = [wmm.queued EXCEPT ![p] = @ - 1]
                  /\ wmm'.held = IF off THEN [wmm.held EXCEPT ![p] = @ - 1] ELSE wmm.held
                  /\ wmm'.tx_pkts_queued = IF off THEN wmm.tx_pkts_queued ELSE wmm.tx_pkts_queued - 1
                  /\ wmm'.highest = wmm.highest
<1>1. Spend("drop") /\ UNCHANGED <<load, snd, pc, sent>>
  BY DEF DropTxPkt
<1>2. /\ LeftTypes' /\ left'.tx = left.tx /\ left'.drop = left.drop - 1 /\ left.drop > 0
      /\ left'.del = left.del
  BY <1>1, SpendIs DEF LeftF
<1>3. PICK m \in Lists :
        LET s == m[2]
            k == Head(wmm.buf[m])
        IN  /\ wmm.buf[m] # <<>>
            /\ wmm.paused[s] \/ wmm.total[m] > RX_LOW_THRESHOLD
            /\ wmm' = [wmm EXCEPT
                 !.buf[m] = Tail(@), !.total[m] = @ - 1, !.queued[m[1]] = @ - 1,
                 !.held[m[1]] = IF wmm.paused[s] THEN @ - 1 ELSE @,
                 !.tx_pkts_queued = IF wmm.paused[s] THEN @ ELSE @ - 1]
            /\ done' = Completed({k}, "failure")
  BY DEF DropTxPkt
<1>4. PICK p \in Prio, s \in Sta : m = <<p, s>> /\ m[1] = p /\ m[2] = s
  BY DEF Lists
<1>5. /\ DOMAIN wmm' = WmmF
      /\ wmm'.buf = [wmm.buf EXCEPT ![m] = Tail(@)]
      /\ wmm'.total = [wmm.total EXCEPT ![m] = @ - 1]
      /\ wmm'.live = wmm.live /\ wmm'.paused = wmm.paused
      /\ wmm'.requeued = wmm.requeued /\ wmm'.short = wmm.short
      /\ wmm'.queued = [wmm.queued EXCEPT ![p] = @ - 1]
      /\ wmm'.held = [wmm.held EXCEPT ![p] = IF wmm.paused[s] THEN @ - 1 ELSE @]
      /\ wmm'.tx_pkts_queued = IF wmm.paused[s] THEN wmm.tx_pkts_queued ELSE wmm.tx_pkts_queued - 1
      /\ wmm'.highest = wmm.highest
  BY <1>3, <1>4 DEF WmmTypes, WmmF
<1>6. wmm'.held = IF wmm.paused[s] THEN [wmm.held EXCEPT ![p] = @ - 1] ELSE wmm.held
  BY <1>5 DEF WmmTypes
<1>7. <<p, s>> \in Lists
  BY <1>4
<1> QED BY <1>1, <1>2, <1>3, <1>4, <1>5, <1>6, <1>7

\* CountOf is a sum.
LEMMA CountOfIs ==
  ASSUME WmmTypes, NEW s \in Sta
  PROVE  CountOf(wmm, s) \in Int /\ CountOf(wmm, s) = Sum([p \in Prio |-> wmm.total[<<p, s>>]], Prio)
<1>1. CountOf(wmm, s) = Sum([p \in Prio |-> wmm.total[<<p, s>>]], Prio)
  BY DEF CountOf, MapThenSumSet, MapThenFoldSet, Sum, IterOf, Some1
<1>2. IsFiniteSet(Prio)
  <2>1. 0 \in Int /\ HIGH_PRIO_TID \in Int
    BY WmmAssumption
  <2> QED BY <2>1, FS_Interval DEF Prio
<1>3. \A p \in Prio : <<p, s>> \in Lists
  BY DEF Lists
<1>4. \A p \in Prio : wmm.total[<<p, s>>] \in Int
  BY <1>3 DEF WmmTypes
<1> DEFINE f == [p \in Prio |-> wmm.total[<<p, s>>]]
<1>5. \A p \in Prio : f[p] \in Int
  BY <1>4
<1> HIDE DEF f
<1>6. Sum(f, Prio) \in Int
  BY <1>2, <1>5, SumType
<1> QED BY <1>1, <1>6 DEF f

\* What DeletePeer does.
LEMMA DeleteIs ==
  ASSUME WmmTypes, LeftTypes, DeletePeer
  PROVE  /\ LeftTypes' /\ left'.tx = left.tx /\ left'.del = left.del - 1 /\ left.del > 0
         /\ left'.drop = left.drop
         /\ UNCHANGED <<load, pc, sent>>
         /\ \E s \in Sta :
              LET n == IF wmm.paused[s] THEN 0 ELSE CountOf(wmm, s)
              IN  /\ wmm.live[s] /\ n \in Int
                  /\ done' = Completed(UNION {ToSet(wmm.buf[l]) : l \in ListsOf(s)}, "failure")
                  /\ snd' = [snd EXCEPT !.gone = @ \/ snd.sta = s]
                  /\ DOMAIN wmm' = WmmF
                  /\ wmm'.buf = [l \in Lists |-> IF l[2] = s THEN <<>> ELSE wmm.buf[l]]
                  /\ wmm'.total = [l \in Lists |-> IF l[2] = s THEN 0 ELSE wmm.total[l]]
                  /\ wmm'.live = [wmm.live EXCEPT ![s] = FALSE]
                  /\ wmm'.paused = wmm.paused
                  /\ wmm'.requeued = wmm.requeued /\ wmm'.short = wmm.short
                  /\ wmm'.queued = [p \in Prio |-> wmm.queued[p] - wmm.total[<<p, s>>]]
                  /\ wmm'.held = [p \in Prio |-> IF wmm.paused[s] THEN wmm.held[p] - wmm.total[<<p, s>>]
                                                                 ELSE wmm.held[p]]
                  /\ wmm'.tx_pkts_queued = wmm.tx_pkts_queued - n
                  /\ wmm'.highest = IF n > 0 THEN HIGH_PRIO_TID ELSE wmm.highest
<1>1. Spend("del") /\ UNCHANGED <<load, pc, sent>>
  BY DEF DeletePeer
<1>2. /\ LeftTypes' /\ left'.tx = left.tx /\ left'.del = left.del - 1 /\ left.del > 0
      /\ left'.drop = left.drop
  BY <1>1, SpendIs DEF LeftF
<1>3. PICK s \in Sta :
        LET n == IF wmm.paused[s] THEN 0 ELSE CountOf(wmm, s)
        IN  /\ wmm.live[s]
            /\ wmm' = [wmm EXCEPT
                 !.live[s] = FALSE,
                 !.buf = [l \in Lists |-> IF l[2] = s THEN <<>> ELSE @[l]],
                 !.total = [l \in Lists |-> IF l[2] = s THEN 0 ELSE @[l]],
                 !.queued = [p \in Prio |-> @[p] - wmm.total[<<p, s>>]],
                 !.held = [p \in Prio |->
                             IF wmm.paused[s] THEN @[p] - wmm.total[<<p, s>>] ELSE @[p]],
                 !.tx_pkts_queued = @ - n,
                 !.highest = IF n > 0 THEN HIGH_PRIO_TID ELSE @]
            /\ done' = Completed(UNION {ToSet(wmm.buf[l]) : l \in ListsOf(s)}, "failure")
            /\ snd' = [snd EXCEPT !.gone = @ \/ snd.sta = s]
  BY DEF DeletePeer
<1> DEFINE n == IF wmm.paused[s] THEN 0 ELSE CountOf(wmm, s)
<1>4. n \in Int
  <2>1. CountOf(wmm, s) \in Int
    BY CountOfIs
  <2> QED BY <2>1
<1> HIDE DEF n
<1>5. /\ DOMAIN wmm' = WmmF
      /\ wmm'.buf = [l \in Lists |-> IF l[2] = s THEN <<>> ELSE wmm.buf[l]]
      /\ wmm'.total = [l \in Lists |-> IF l[2] = s THEN 0 ELSE wmm.total[l]]
      /\ wmm'.live = [wmm.live EXCEPT ![s] = FALSE]
      /\ wmm'.paused = wmm.paused
      /\ wmm'.requeued = wmm.requeued /\ wmm'.short = wmm.short
      /\ wmm'.queued = [p \in Prio |-> wmm.queued[p] - wmm.total[<<p, s>>]]
      /\ wmm'.held = [p \in Prio |-> IF wmm.paused[s] THEN wmm.held[p] - wmm.total[<<p, s>>]
                                                     ELSE wmm.held[p]]
      /\ wmm'.tx_pkts_queued = wmm.tx_pkts_queued - n
      /\ wmm'.highest = IF n > 0 THEN HIGH_PRIO_TID ELSE wmm.highest
  BY <1>3 DEF WmmTypes, WmmF, n
<1> QED BY <1>1, <1>2, <1>3, <1>4, <1>5 DEF n

\* What UpdateTxPause does.
LEMMA PauseIs ==
  ASSUME WmmTypes, LeftTypes, UpdateTxPause
  PROVE  /\ LeftTypes' /\ left'.tx = left.tx /\ left'.del = left.del /\ left'.drop = left.drop
         /\ pc = "loop"
         /\ UNCHANGED <<load, snd, pc, sent, done>>
         /\ \E s \in Sta :
              LET n == CountOf(wmm, s)
                  d == IF wmm.paused[s] THEN -1 ELSE 1
              IN  /\ DOMAIN wmm' = WmmF /\ n \in Int
                  /\ wmm'.buf = wmm.buf /\ wmm'.total = wmm.total /\ wmm'.live = wmm.live
                  /\ wmm'.paused = [wmm.paused EXCEPT ![s] = ~@]
                  /\ wmm'.requeued = wmm.requeued /\ wmm'.short = wmm.short /\ wmm'.queued = wmm.queued
                  /\ wmm'.held = [p \in Prio |-> wmm.held[p] + d * wmm.total[<<p, s>>]]
                  /\ wmm'.tx_pkts_queued = wmm.tx_pkts_queued - d * n
                  /\ wmm'.highest = IF n > 0 THEN HIGH_PRIO_TID ELSE wmm.highest
<1>1. Spend("pause") /\ pc = "loop" /\ UNCHANGED <<load, snd, pc, sent, done>>
  BY DEF UpdateTxPause
<1>2. LeftTypes' /\ left'.tx = left.tx /\ left'.del = left.del /\ left'.drop = left.drop
  BY <1>1, SpendIs DEF LeftF
<1>3. PICK s \in Sta : wmm' = Repaused(wmm, s)
  BY DEF UpdateTxPause
<1> DEFINE n == CountOf(wmm, s)
           d == IF wmm.paused[s] THEN -1 ELSE 1
<1>4. wmm' = [wmm EXCEPT
         !.paused[s] = ~@,
         !.held = [p \in Prio |-> @[p] + d * wmm.total[<<p, s>>]],
         !.tx_pkts_queued = @ - d * n,
         !.highest = IF n > 0 THEN HIGH_PRIO_TID ELSE @]
  BY <1>3 DEF Repaused
<1>5. n \in Int
  BY CountOfIs
<1> HIDE DEF n, d
<1>6. /\ DOMAIN wmm' = WmmF
      /\ wmm'.buf = wmm.buf /\ wmm'.total = wmm.total /\ wmm'.live = wmm.live
      /\ wmm'.paused = [wmm.paused EXCEPT ![s] = ~@]
      /\ wmm'.requeued = wmm.requeued /\ wmm'.short = wmm.short /\ wmm'.queued = wmm.queued
      /\ wmm'.held = [p \in Prio |-> wmm.held[p] + d * wmm.total[<<p, s>>]]
      /\ wmm'.tx_pkts_queued = wmm.tx_pkts_queued - d * n
      /\ wmm'.highest = IF n > 0 THEN HIGH_PRIO_TID ELSE wmm.highest
  BY <1>4 DEF WmmTypes, WmmF
<1> QED BY <1>1, <1>2, <1>5, <1>6 DEF n, d

--------------------------------------------------------------------------------
(* What the steps of the queues do.                                          *)

Empty(l) == wmm.buf[l] = <<>>

\* What PickNone does.
LEMMA PickNoneIs ==
  ASSUME WmmTypes, PickNone
  PROVE  /\ UNCHANGED <<load, snd, sent, done, left>> /\ pc = "pick" /\ pc' = "loop"
         /\ \A p \in 0 .. wmm.highest : Sendable(p) = {}
         /\ DOMAIN wmm' = WmmF
         /\ wmm'.buf = wmm.buf /\ wmm'.total = wmm.total /\ wmm'.live = wmm.live
         /\ wmm'.paused = wmm.paused /\ wmm'.requeued = wmm.requeued /\ wmm'.short = wmm.short
         /\ wmm'.queued = wmm.queued /\ wmm'.held = wmm.held
         /\ wmm'.tx_pkts_queued = wmm.tx_pkts_queued
         /\ wmm'.highest = IF wmm.tx_pkts_queued = 0 THEN NO_PKT_PRIO_TID ELSE HIGH_PRIO_TID
  BY DEF PickNone, WmmTypes, WmmF, ListsEmpty

Picked(p, s) ==
  LET l == <<p, s>>
      k == Head(wmm.buf[l])
      n == IF k \in wmm.requeued THEN 0 ELSE 1
  IN  /\ p <= wmm.highest /\ s \in Sendable(p)
      /\ \A q \in p + 1 .. wmm.highest : Sendable(q) = {}
      /\ DOMAIN wmm' = WmmF
      /\ wmm'.buf = [wmm.buf EXCEPT ![l] = Tail(@)]
      /\ wmm'.total = [wmm.total EXCEPT ![l] = @ - n]
      /\ wmm'.live = wmm.live /\ wmm'.paused = wmm.paused /\ wmm'.requeued = wmm.requeued /\ wmm'.short = wmm.short
      /\ wmm'.queued = [wmm.queued EXCEPT ![p] = @ - n]
      /\ wmm'.held = wmm.held
      /\ wmm'.tx_pkts_queued = wmm.tx_pkts_queued - n
      /\ wmm'.highest = NextHighest(p)
      /\ DOMAIN snd' = SndF
      /\ snd'.pkt = k /\ snd'.prio = p /\ snd'.sta = s
      /\ snd'.next = (IF Tail(wmm.buf[l]) = <<>> THEN 0 ELSE SizeOf(Head(Tail(wmm.buf[l]))))
      /\ snd'.proc = (k \in wmm.requeued) /\ snd'.gone = FALSE
      /\ snd'.ret = "none" /\ snd'.port = 0 /\ snd'.todo = {} /\ snd'.put = FALSE
      /\ snd'.proc \in BOOLEAN /\ snd'.gone \in BOOLEAN /\ snd'.put \in BOOLEAN

\* What Pick does.
LEMMA PickIs ==
  ASSUME WmmTypes, Pick
  PROVE  /\ UNCHANGED <<load, sent, done, left>> /\ pc = "pick" /\ pc' = "getport"
         /\ \E p \in Prio, s \in Sta : Picked(p, s)
<1>1. UNCHANGED <<load, sent, done, left>> /\ pc = "pick" /\ pc' = "getport"
  BY DEF Pick
<1>2. PICK p \in 0 .. wmm.highest :
       /\ Sendable(p) # {} /\ \A q \in p + 1 .. wmm.highest : Sendable(q) = {}
       /\ \E s \in Sendable(p) :
            LET l == <<p, s>>
                k == Head(wmm.buf[l])
                more == Tail(wmm.buf[l])
                proc == k \in wmm.requeued
                n == IF proc THEN 0 ELSE 1
            IN  /\ wmm' = [wmm EXCEPT
                     !.buf[l] = more, !.total[l] = @ - n, !.queued[p] = @ - n,
                     !.tx_pkts_queued = @ - n, !.highest = NextHighest(p)]
                /\ snd' = [Idle EXCEPT
                     !.pkt = k, !.prio = p, !.sta = s, !.proc = proc,
                     !.next = IF more = <<>> THEN 0 ELSE SizeOf(Head(more))]
  BY DEF Pick
<1>3. p \in Prio /\ p <= wmm.highest
  BY <1>2, WmmAssumption DEF WmmTypes, Highest, Prio, NO_PKT_PRIO_TID
<1>4. PICK s \in Sendable(p) :
            LET l == <<p, s>>
                k == Head(wmm.buf[l])
                more == Tail(wmm.buf[l])
                proc == k \in wmm.requeued
                n == IF proc THEN 0 ELSE 1
            IN  /\ wmm' = [wmm EXCEPT
                     !.buf[l] = more, !.total[l] = @ - n, !.queued[p] = @ - n,
                     !.tx_pkts_queued = @ - n, !.highest = NextHighest(p)]
                /\ snd' = [Idle EXCEPT
                     !.pkt = k, !.prio = p, !.sta = s, !.proc = proc,
                     !.next = IF more = <<>> THEN 0 ELSE SizeOf(Head(more))]
  BY <1>2
<1> DEFINE k == Head(wmm.buf[<<p, s>>])
           more == Tail(wmm.buf[<<p, s>>])
           h == NextHighest(p)
           proc == k \in wmm.requeued
           n == IF proc THEN 0 ELSE 1
           x == IF more = <<>> THEN 0 ELSE SizeOf(Head(more))
<1>5. /\ wmm' = [wmm EXCEPT
                     !.buf[<<p, s>>] = more, !.total[<<p, s>>] = @ - n, !.queued[p] = @ - n,
                     !.tx_pkts_queued = @ - n, !.highest = h]
      /\ snd' = [Idle EXCEPT !.pkt = k, !.prio = p, !.sta = s, !.proc = proc, !.next = x]
  BY <1>4
<1>6. s \in Sta
  BY DEF Sendable
<1>10. proc \in BOOLEAN
  OBVIOUS
<1> HIDE DEF k, h, n, x, proc
<1>7. /\ DOMAIN wmm' = WmmF
      /\ wmm'.buf = [wmm.buf EXCEPT ![<<p, s>>] = Tail(@)]
      /\ wmm'.total = [wmm.total EXCEPT ![<<p, s>>] = @ - n]
      /\ wmm'.live = wmm.live /\ wmm'.paused = wmm.paused /\ wmm'.requeued = wmm.requeued /\ wmm'.short = wmm.short
      /\ wmm'.queued = [wmm.queued EXCEPT ![p] = @ - n]
      /\ wmm'.held = wmm.held
      /\ wmm'.tx_pkts_queued = wmm.tx_pkts_queued - n
      /\ wmm'.highest = h
  BY <1>5 DEF WmmTypes, WmmF
<1>8. /\ DOMAIN snd' = SndF
      /\ snd'.pkt = k /\ snd'.prio = p /\ snd'.sta = s
      /\ snd'.next = x /\ snd'.proc = proc /\ snd'.gone = FALSE
      /\ snd'.ret = "none" /\ snd'.port = 0 /\ snd'.todo = {} /\ snd'.put = FALSE
      /\ snd'.proc \in BOOLEAN /\ snd'.gone \in BOOLEAN /\ snd'.put \in BOOLEAN
  BY <1>5, <1>10 DEF Idle, SndF
<1>9. Picked(p, s)
  BY <1>2, <1>3, <1>4, <1>7, <1>8 DEF k, h, n, x, proc, Picked
<1> QED BY <1>1, <1>3, <1>6, <1>9

IdleSnd ==
  /\ DOMAIN snd = SndF
  /\ snd.pkt = 0 /\ snd.prio = 0 /\ snd.sta = None /\ snd.next = 0 /\ snd.proc = FALSE
  /\ snd.gone = FALSE /\ snd.ret = "none" /\ snd.port = 0 /\ snd.todo = {} /\ snd.put = FALSE
  /\ snd.proc \in BOOLEAN /\ snd.gone \in BOOLEAN /\ snd.put \in BOOLEAN

\* Idle, field by field.
LEMMA IdleIs == ASSUME snd = Idle PROVE IdleSnd
  BY DEF Idle, IdleSnd, SndF

\* A packet goes back to its list.
PutBack ==
  LET l == <<snd.prio, snd.sta>>
      n == IF snd.proc THEN 0 ELSE 1
  IN  /\ DOMAIN wmm' = WmmF
      /\ wmm'.buf = [wmm.buf EXCEPT ![l] = <<snd.pkt>> \o @]
      /\ wmm'.total = [wmm.total EXCEPT ![l] = @ + n]
      /\ wmm'.live = wmm.live /\ wmm'.paused = wmm.paused
      /\ wmm'.requeued = wmm.requeued \cup {snd.pkt} /\ wmm'.short = wmm.short
      /\ wmm'.queued = [wmm.queued EXCEPT ![snd.prio] = @ + n]
      /\ wmm'.held = wmm.held
      /\ wmm'.tx_pkts_queued = wmm.tx_pkts_queued + n
      /\ wmm'.highest = wmm.highest

\* What SettleBack does.
LEMMA SettleBackIs ==
  ASSUME WmmTypes, SettleBack
  PROVE  /\ UNCHANGED <<load, sent, left>> /\ pc = "settle" /\ pc' = "again"
         /\ snd.ret = "resource" /\ snd' = Idle
         /\ snd.gone => wmm' = wmm /\ done' = Completed({snd.pkt}, "failure")
         /\ ~snd.gone => PutBack /\ done' = done
<1>1. /\ UNCHANGED <<load, sent, left>> /\ pc = "settle" /\ pc' = "again"
      /\ snd.ret = "resource" /\ snd' = Idle
      /\ snd.gone => wmm' = wmm /\ done' = Completed({snd.pkt}, "failure")
      /\ ~snd.gone => wmm' = Requeue /\ done' = done
  BY DEF SettleBack
<1>2. ASSUME wmm' = Requeue PROVE PutBack
  <2> DEFINE n == IF snd.proc THEN 0 ELSE 1
             l == <<snd.prio, snd.sta>>
             p == snd.prio
             k == snd.pkt
             b == <<k>>
  <2>1. wmm' = [wmm EXCEPT !.buf[l] = b \o @, !.total[l] = @ + n,
                  !.queued[p] = @ + n, !.tx_pkts_queued = @ + n,
                  !.requeued = @ \cup {k}]
    BY <1>2 DEF Requeue
  <2> HIDE DEF n, l, p, k, b
  <2>2. /\ DOMAIN wmm' = WmmF
        /\ wmm'.buf = [wmm.buf EXCEPT ![l] = b \o @]
        /\ wmm'.total = [wmm.total EXCEPT ![l] = @ + n]
        /\ wmm'.live = wmm.live /\ wmm'.paused = wmm.paused
        /\ wmm'.requeued = wmm.requeued \cup {k} /\ wmm'.short = wmm.short
        /\ wmm'.queued = [wmm.queued EXCEPT ![p] = @ + n]
        /\ wmm'.held = wmm.held
        /\ wmm'.tx_pkts_queued = wmm.tx_pkts_queued + n
        /\ wmm'.highest = wmm.highest
    BY <2>1 DEF WmmTypes, WmmF
  <2> QED BY <2>2 DEF n, l, p, k, b, PutBack
<1> QED BY <1>1, <1>2

\* The counters of a packet that is gone.
TakenOff ==
  LET l == <<snd.prio, snd.sta>>
  IN  /\ DOMAIN wmm' = WmmF
      /\ wmm'.buf = wmm.buf
      /\ wmm'.total = IF snd.gone THEN wmm.total ELSE [wmm.total EXCEPT ![l] = @ - 1]
      /\ wmm'.live = wmm.live /\ wmm'.paused = wmm.paused
      /\ wmm'.requeued = wmm.requeued
      /\ wmm'.queued = [wmm.queued EXCEPT ![snd.prio] = @ - 1]
      /\ wmm'.held = wmm.held
      /\ wmm'.tx_pkts_queued = wmm.tx_pkts_queued - 1
      /\ wmm'.highest = wmm.highest
      /\ wmm'.short = IF snd.gone THEN [wmm.short EXCEPT ![snd.prio] = @ + 1] ELSE wmm.short

\* What Settle does.
LEMMA SettleIs ==
  ASSUME WmmTypes, Settle
  PROVE  /\ UNCHANGED <<load, sent, done, left>> /\ pc = "settle" /\ pc' = "again"
         /\ snd.ret # "resource" /\ snd' = Idle
         /\ snd.proc => TakenOff
         /\ ~snd.proc => wmm' = wmm
<1>1. /\ UNCHANGED <<load, sent, done, left>> /\ pc = "settle" /\ pc' = "again"
      /\ snd.ret # "resource" /\ snd' = Idle
      /\ ~snd.proc => wmm' = wmm
  BY DEF Settle
<1>2. ASSUME snd.proc PROVE TakenOff
  <2> DEFINE l == <<snd.prio, snd.sta>>
             p == snd.prio
             g == snd.gone
  <2>1. wmm' = [wmm EXCEPT
                     !.total[l] = IF g THEN @ ELSE @ - 1,
                     !.queued[p] = @ - 1, !.tx_pkts_queued = @ - 1,
                     !.short[p] = IF g THEN @ + 1 ELSE @]
    BY <1>2 DEF Settle
  <2> HIDE DEF l, p, g
  <2>2. /\ DOMAIN wmm' = WmmF
        /\ wmm'.buf = wmm.buf
        /\ wmm'.total = [wmm.total EXCEPT ![l] = IF g THEN @ ELSE @ - 1]
        /\ wmm'.live = wmm.live /\ wmm'.paused = wmm.paused
        /\ wmm'.requeued = wmm.requeued
        /\ wmm'.queued = [wmm.queued EXCEPT ![p] = @ - 1]
        /\ wmm'.held = wmm.held
        /\ wmm'.tx_pkts_queued = wmm.tx_pkts_queued - 1
        /\ wmm'.highest = wmm.highest
        /\ wmm'.short = [wmm.short EXCEPT ![p] = IF g THEN @ + 1 ELSE @]
    BY <2>1 DEF WmmTypes, WmmF
  <2>3. wmm'.total = IF g THEN wmm.total ELSE [wmm.total EXCEPT ![l] = @ - 1]
    BY <2>2 DEF WmmTypes
  <2>4. wmm'.short = IF g THEN [wmm.short EXCEPT ![p] = @ + 1] ELSE wmm.short
    BY <2>2 DEF WmmTypes
  <2> QED BY <2>2, <2>3, <2>4 DEF l, p, g, TakenOff
<1> QED BY <1>1, <1>2

--------------------------------------------------------------------------------
(* The steps.                                                                *)

\* The steps.
LEMMA Steps ==
  ASSUME SdioNext
  PROVE  \/ (AddBuf \/ DropTxPkt \/ DeletePeer \/ UpdateTxPause) /\ UNCHANGED <<txvars, rxvars, intvars>>
         \/ (PickNone \/ Pick \/ SettleBack \/ Settle) /\ UNCHANGED <<txvars, rxvars, intvars>>
         \/ (GetPortFails \/ GetPort \/ TransferAggr \/ TransferCur \/ Transferred) /\ UNCHANGED <<rxvars, intvars>>
         \/ TakeInts \/ Status \/ StartTx \/ NoTx \/ Again \/ YieldToCmd
         \/ RxNext(regs.rd) /\ UNCHANGED intvars
         \/ IrqRead \/ IrqNote \/ CardGrants \/ CardSends \/ CardAnswers
  BY Zenon DEF SdioNext, MainStep, QueueStep, TxMain, PortMain, Queueing, Card

WmmStep == AddBuf \/ DropTxPkt \/ DeletePeer \/ UpdateTxPause \/ PickNone \/ Pick \/ SettleBack \/ Settle
PortStep == GetPortFails \/ GetPort \/ TransferAggr \/ TransferCur \/ Transferred
LoopStep == TakeInts \/ Status \/ StartTx \/ NoTx \/ Again
CardStep == IrqRead \/ IrqNote \/ CardGrants \/ CardSends \/ CardAnswers

\* The steps by what they can change.
LEMMA StepKinds ==
  ASSUME [SdioNext]_allvars
  PROVE  /\ load' = load
         /\ \/ WmmStep /\ UNCHANGED <<txvars, rxvars, intvars>>
            \/ PortStep /\ UNCHANGED <<wmm, rxvars, intvars>>
            \/ LoopStep /\ UNCHANGED <<wmm, snd, done, left, mpa_tx, card>>
            \/ YieldToCmd /\ UNCHANGED <<wmm, snd, wr, rxvars, intvars>>
            \/ RxNext(regs.rd) /\ UNCHANGED <<wmm, snd, sent, done, txvars, intvars>>
            \/ CardStep /\ UNCHANGED <<wmm, snd, pc, sent, done, wr, mpa_tx>>
            \/ UNCHANGED allvars
<1>1. CASE UNCHANGED allvars
  BY <1>1 DEF allvars, wmmvars
<1>2. CASE WmmStep /\ UNCHANGED <<txvars, rxvars, intvars>>
  <2>1. WmmStep => load' = load
    BY DEF WmmStep, AddBuf, DropTxPkt, DeletePeer, UpdateTxPause, PickNone, Pick, SettleBack, Settle
  <2> QED BY <1>2, <2>1
<1>3. CASE PortStep /\ UNCHANGED <<rxvars, intvars>>
  <2>1. PortStep => UNCHANGED <<load, wmm>>
    BY DEF PortStep, GetPortFails, GetPort, TransferAggr, TransferCur, Transferred
  <2> QED BY <1>3, <2>1
<1>4. CASE LoopStep
  <2>1. UNCHANGED <<load, wmm, snd, done, left, mpa_tx, card>>
    BY <1>4 DEF LoopStep, TakeInts, Status, StartTx, NoTx, Again, txvars
  <2> QED BY <1>4, <2>1
<1>5. CASE YieldToCmd
  <2>1. UNCHANGED <<load, wmm, snd, wr, rxvars, intvars>>
    BY <1>5 DEF YieldToCmd
  <2> QED BY <1>5, <2>1
<1>6. CASE RxNext(regs.rd) /\ UNCHANGED intvars
  <2>1. UNCHANGED <<load, wmm, snd, sent, done, txvars>>
    BY <1>6 DEF RxNext, RxGet, RxGetNoBuf, RxGetNone, ReadAggr, ReadAggrFails, ReadAggrFailsIgnored,
                ReadCur, ReadCurFails, ReadAndDrop, RxEnd, RxOnly
  <2> QED BY <1>6, <2>1
<1>7. CASE CardStep
  <2>1. UNCHANGED <<load, wmm, snd, pc, sent, done, wr, mpa_tx>>
    BY <1>7 DEF CardStep, IrqRead, IrqNote, CardGrants, CardSends, CardAnswers, wmmvars, txvars
  <2> QED BY <1>7, <2>1
<1> QED BY Zenon, Steps, <1>1, <1>2, <1>3, <1>4, <1>5, <1>6, <1>7 DEF WmmStep, PortStep, LoopStep, CardStep

--------------------------------------------------------------------------------
(* What the steps of the write path do.                                      *)

WrF == {"map", "curr"}
MpaF == {"pkts", "start"}
CardF == {"free", "next", "got", "missed"}

TxTypes ==
  /\ DOMAIN wr = WrF /\ wr.map \subseteq WrPort /\ wr.curr \in WrPort
  /\ DOMAIN mpa_tx = MpaF /\ mpa_tx.pkts \in Ids /\ mpa_tx.start \in WrPort
  /\ DOMAIN card = CardF /\ card.free \subseteq WrPort /\ card.next \in WrPort
  /\ card.got \in Ids /\ card.missed \in BOOLEAN

Busy == {"getport", "transfer", "settle"}
Labels == {"loop", "status", "upload", "read", "send", "pick", "again"} \cup Busy
PcTypes ==
  /\ pc \in Labels /\ sent \in BOOLEAN
  /\ pc \in Busy => snd.pkt \in PktId /\ snd.sta \in Sta
  /\ pc \notin Busy => snd.pkt = 0 /\ snd.sta = None
  /\ pc = "transfer" => snd.ret \in {"success", "failure"}
DoneTypes == done \in [PktId -> Answers]
IntTypes ==
  /\ DOMAIN regs = {"wr", "rd"} /\ regs.wr \subseteq WrPort
  /\ raised \subseteq Interrupts /\ irq \subseteq Interrupts
  /\ ireg \subseteq Interrupts /\ ints \subseteq Interrupts
TxSide ==
  /\ load \in Loads /\ WmmTypes /\ SndTypes /\ LeftTypes /\ TxTypes /\ PcTypes /\ DoneTypes
  /\ IntTypes

\* The ports further on are ports.
LEMMA PortClosed ==
  ASSUME NEW p \in Nat, NEW i \in Nat
  PROVE  WrNext(p, i) \in WrPort
  BY SdioTxAssumption DEF WrNext, WrPort

SameOwner ==
  /\ snd'.pkt = snd.pkt /\ snd'.prio = snd.prio /\ snd'.sta = snd.sta /\ snd'.next = snd.next
  /\ snd'.proc = snd.proc /\ snd'.gone = snd.gone

\* What GetPortFails does.
LEMMA GetPortFailsIs ==
  ASSUME SndTypes, GetPortFails
  PROVE  /\ pc = "getport" /\ wr.curr \notin wr.map /\ pc' = "settle" /\ sent' = TRUE
         /\ UNCHANGED <<load, wmm, done, left, txvars>>
         /\ DOMAIN snd' = SndF /\ SameOwner /\ snd'.ret = "resource" /\ snd'.port = snd.port
         /\ snd'.todo = snd.todo /\ snd'.put = snd.put
  BY DEF GetPortFails, SndTypes, SndF, SameOwner

Plan == TxPlan(SizeOf(snd.pkt), snd.next, wr'.curr \in wr'.map)

\* What GetPort does.
LEMMA GetPortIs ==
  ASSUME SndTypes, TxTypes, GetPort
  PROVE  /\ pc = "getport" /\ wr.curr \in wr.map /\ pc' = "transfer"
         /\ UNCHANGED <<load, wmm, sent, done, left, card>>
         /\ wr' = [map |-> wr.map \ {wr.curr}, curr |-> WrNext(wr.curr, 1)]
         /\ DOMAIN wr' = WrF /\ wr'.map = wr.map \ {wr.curr} /\ wr'.curr = WrNext(wr.curr, 1)
         /\ DOMAIN snd' = SndF /\ SameOwner /\ snd'.ret = "success" /\ snd'.port = wr.curr
         /\ snd'.todo = Plan \ {"pre"} /\ snd'.put = ("pre" \in Plan) /\ snd'.put \in BOOLEAN
         /\ mpa_tx' = IF "pre" \in Plan THEN TxPut(snd.pkt, wr.curr) ELSE mpa_tx
<1>1. /\ pc = "getport" /\ wr.curr \in wr.map /\ pc' = "transfer"
      /\ UNCHANGED <<load, wmm, sent, done, left, card>>
      /\ wr' = [map |-> wr.map \ {wr.curr}, curr |-> WrNext(wr.curr, 1)]
      /\ snd' = [snd EXCEPT !.ret = "success", !.port = wr.curr,
                            !.todo = Plan \ {"pre"}, !.put = "pre" \in Plan]
      /\ mpa_tx' = IF "pre" \in Plan THEN TxPut(snd.pkt, wr.curr) ELSE mpa_tx
  BY DEF GetPort, Plan
<1> DEFINE plan == Plan
           m == wr.map \ {wr.curr}
           c == wr.curr
           d == WrNext(wr.curr, 1)
<1>2. /\ wr' = [map |-> m, curr |-> d]
      /\ snd' = [snd EXCEPT !.ret = "success", !.port = c,
                            !.todo = plan \ {"pre"}, !.put = "pre" \in plan]
  BY <1>1
<1> HIDE DEF plan, m, c, d
<1>3. DOMAIN wr' = WrF /\ wr'.map = m /\ wr'.curr = d
  BY <1>2 DEF WrF
<1>4. /\ DOMAIN snd' = SndF /\ SameOwner /\ snd'.ret = "success" /\ snd'.port = c
      /\ snd'.todo = plan \ {"pre"} /\ snd'.put = ("pre" \in plan) /\ snd'.put \in BOOLEAN
  BY <1>2 DEF SndTypes, SndF, SameOwner
<1> QED BY <1>1, <1>3, <1>4 DEF plan, m, c, d

\* What wlan_host_to_card_mp_aggr decides.
LEMMA PlanIs ==
  /\ Plan \subseteq TxSteps
  /\ "pre" \in Plan => TxRoom(SizeOf(snd.pkt)) /\ "cur" \notin Plan /\ "post" \notin Plan
  /\ "pre" \notin Plan => "cur" \in Plan \/ "post" \in Plan
  /\ "cur" \in Plan => "post" \notin Plan
  /\ "aggr" \in Plan => TxInProgress \/ "pre" \in Plan
  /\ "pre" \notin Plan /\ TxInProgress => "aggr" \in Plan
  /\ "pre" \in Plan /\ "aggr" \notin Plan => Len(mpa_tx.pkts) + 1 # TxPktLimit
  /\ "post" \in Plan => TxInProgress
  BY DEF Plan, TxPlan, TxSteps

\* What CardWrite does.
LEMMA CardWriteIs ==
  ASSUME TxTypes, NEW pkts, NEW port, NEW ok \in BOOLEAN, CardWrite(pkts, port, ok)
  PROVE  LET ports == {WrNext(port, i - 1) : i \in DOMAIN pkts}
         IN  /\ DOMAIN card' = CardF
             /\ card'.free = card.free \ ports /\ card'.next = card.next
             /\ card'.got = IF ok THEN card.got \o pkts ELSE card.got
             /\ card'.missed = (card.missed \/ ~(ports \subseteq card.free))
<1> DEFINE ports == {WrNext(port, i - 1) : i \in DOMAIN pkts}
           f == card.free
<1>1. card' = [card EXCEPT !.free = @ \ ports,
                           !.got = IF ok THEN @ \o pkts ELSE @,
                           !.missed = @ \/ ~(ports \subseteq f)]
  BY DEF CardWrite
<1> HIDE DEF ports, f
<1>2. /\ DOMAIN card' = CardF
      /\ card'.free = card.free \ ports /\ card'.next = card.next
      /\ card'.got = IF ok THEN card.got \o pkts ELSE card.got
      /\ card'.missed = (card.missed \/ ~(ports \subseteq f))
  BY <1>1 DEF TxTypes, CardF
<1> QED BY <1>2 DEF ports, f

\* What a write does to the card and the load.
LEMMA WriteIs ==
  ASSUME LeftTypes, load' = load, NEW ok \in BOOLEAN, WriteOutcome(ok)
  PROVE  /\ LeftTypes' /\ left'.tx = left.tx /\ left'.del = left.del /\ left'.drop = left.drop
         /\ left'.rfail = left.rfail /\ left'.norxbuf = left.norxbuf
<1>1. CASE ok
  BY <1>1 DEF WriteOutcome, LeftTypes
<1>2. CASE ~ok
  <2>1. Spend("wfail") /\ "wfail" \in LeftF
    BY <1>2 DEF WriteOutcome, LeftF
  <2> QED BY <2>1, SpendIs DEF LeftF
<1> QED BY <1>1, <1>2

\* What sending the aggregation buffer does.
Flushed(ok) ==
  LET pkts == mpa_tx.pkts
      ports == {WrNext(mpa_tx.start, i - 1) : i \in DOMAIN pkts}
  IN  /\ DOMAIN card' = CardF
      /\ card'.free = card.free \ ports /\ card'.next = card.next
      /\ card'.got = IF ok THEN card.got \o pkts ELSE card.got
      /\ card'.missed = (card.missed \/ ~(ports \subseteq card.free))
      /\ done' = (IF load.sg THEN Completed(ToSet(pkts), "success") ELSE done)
      /\ DOMAIN mpa_tx' = MpaF /\ mpa_tx'.pkts = <<>> /\ mpa_tx'.start = 0

\* What SendAggr does.
LEMMA SendAggrIs ==
  ASSUME TxTypes, LeftTypes, load' = load, NEW ok \in BOOLEAN, SendAggr(ok)
  PROVE  /\ Flushed(ok)
         /\ LeftTypes' /\ left'.tx = left.tx /\ left'.del = left.del /\ left'.drop = left.drop
         /\ left'.rfail = left.rfail /\ left'.norxbuf = left.norxbuf
<1>1. WriteOutcome(ok) /\ CardWrite(mpa_tx.pkts, mpa_tx.start, ok) /\ mpa_tx' = NoAggr
      /\ done' = (IF load.sg THEN Completed(ToSet(mpa_tx.pkts), "success") ELSE done)
  BY DEF SendAggr
<1>2. DOMAIN mpa_tx' = MpaF /\ mpa_tx'.pkts = <<>> /\ mpa_tx'.start = 0
  BY <1>1 DEF NoAggr, MpaF
<1> QED BY <1>1, <1>2, CardWriteIs, WriteIs DEF Flushed

\* What TransferAggr does.
LEMMA TransferAggrIs ==
  ASSUME TxTypes, LeftTypes, SndTypes, TransferAggr
  PROVE  /\ pc = "transfer" /\ "aggr" \in snd.todo /\ UNCHANGED <<load, wmm, sent, pc, wr>>
         /\ DOMAIN snd' = SndF /\ SameOwner /\ snd'.ret \in {"success", "failure"}
         /\ snd'.port = snd.port /\ snd'.put = snd.put /\ snd'.todo = snd.todo \ {"aggr"}
         /\ (\E ok \in BOOLEAN : Flushed(ok))
         /\ LeftTypes' /\ left'.tx = left.tx /\ left'.del = left.del /\ left'.drop = left.drop
         /\ left'.rfail = left.rfail /\ left'.norxbuf = left.norxbuf
<1>1. pc = "transfer" /\ "aggr" \in snd.todo /\ UNCHANGED <<load, wmm, sent, pc, wr>>
  BY DEF TransferAggr
<1>2. PICK ok \in BOOLEAN : SendAggr(ok) /\ snd' = [snd EXCEPT !.todo = @ \ {"aggr"}, !.ret = Result(ok)]
  BY DEF TransferAggr
<1>3. DOMAIN snd' = SndF /\ SameOwner /\ snd'.ret = Result(ok)
      /\ snd'.port = snd.port /\ snd'.put = snd.put /\ snd'.todo = snd.todo \ {"aggr"}
  BY <1>2 DEF SndTypes, SndF, SameOwner
<1> QED BY <1>1, <1>2, <1>3, SendAggrIs DEF Result

\* What sending one packet alone does.
Written(ok) ==
  LET ports == {snd.port}
  IN  /\ DOMAIN card' = CardF
      /\ card'.free = card.free \ ports /\ card'.next = card.next
      /\ card'.got = IF ok THEN Append(card.got, snd.pkt) ELSE card.got
      /\ card'.missed = (card.missed \/ ~(ports \subseteq card.free))

\* What TransferCur does.
LEMMA TransferCurIs ==
  ASSUME TxTypes, LeftTypes, SndTypes, snd.pkt \in PktId, TransferCur
  PROVE  /\ pc = "transfer" /\ "cur" \in snd.todo /\ "aggr" \notin snd.todo
         /\ UNCHANGED <<load, wmm, sent, done, pc, wr, mpa_tx>>
         /\ DOMAIN snd' = SndF /\ SameOwner /\ snd'.ret \in {"success", "failure"}
         /\ snd'.port = snd.port /\ snd'.put = snd.put /\ snd'.todo = snd.todo \ {"cur"}
         /\ (\E ok \in BOOLEAN : Written(ok))
         /\ LeftTypes' /\ left'.tx = left.tx /\ left'.del = left.del /\ left'.drop = left.drop
         /\ left'.rfail = left.rfail /\ left'.norxbuf = left.norxbuf
<1>1. /\ pc = "transfer" /\ "cur" \in snd.todo /\ "aggr" \notin snd.todo
      /\ UNCHANGED <<load, wmm, sent, done, pc, wr, mpa_tx>>
  BY DEF TransferCur
<1>2. PICK ok \in BOOLEAN :
        /\ WriteOutcome(ok) /\ CardWrite(<<snd.pkt>>, snd.port, ok)
        /\ snd' = [snd EXCEPT !.todo = @ \ {"cur"}, !.ret = Result(ok)]
  BY DEF TransferCur
<1>3. DOMAIN snd' = SndF /\ SameOwner /\ snd'.ret = Result(ok)
      /\ snd'.port = snd.port /\ snd'.put = snd.put /\ snd'.todo = snd.todo \ {"cur"}
  BY <1>2 DEF SndTypes, SndF, SameOwner
<1>4. {WrNext(snd.port, i - 1) : i \in DOMAIN <<snd.pkt>>} = {snd.port}
  <2>1. DOMAIN <<snd.pkt>> = {1}
    OBVIOUS
  <2>2. WrNext(snd.port, 1 - 1) = snd.port
    BY SdioTxAssumption DEF WrNext, SndTypes, WrPort
  <2> QED BY <2>1, <2>2
<1>5. card.got \o <<snd.pkt>> = Append(card.got, snd.pkt)
  BY DEF TxTypes, Ids
<1>6. Written(ok)
  <2> DEFINE ports == {WrNext(snd.port, i - 1) : i \in DOMAIN <<snd.pkt>>}
  <2>1. /\ DOMAIN card' = CardF
        /\ card'.free = card.free \ ports /\ card'.next = card.next
        /\ card'.got = IF ok THEN card.got \o <<snd.pkt>> ELSE card.got
        /\ card'.missed = (card.missed \/ ~(ports \subseteq card.free))
    BY <1>2, CardWriteIs
  <2>2. ports = {snd.port}
    BY <1>4
  <2> HIDE DEF ports
  <2> QED BY <2>1, <2>2, <1>5 DEF Written
<1> QED BY <1>1, <1>2, <1>3, <1>6, WriteIs DEF Result

\* What Transferred does.
LEMMA TransferredIs ==
  ASSUME SndTypes, Transferred
  PROVE  LET late == "post" \in snd.todo
             ret == IF load.sg /\ (snd.put \/ late) THEN "pending" ELSE snd.ret
         IN  /\ pc = "transfer" /\ snd.todo \subseteq {"post"} /\ pc' = "settle"
             /\ UNCHANGED <<load, wmm, left, wr, card>>
             /\ mpa_tx' = (IF late THEN TxPut(snd.pkt, snd.port) ELSE mpa_tx)
             /\ sent' \in BOOLEAN
             /\ done' = (IF ret = "pending" THEN done ELSE Completed({snd.pkt}, ret))
             /\ DOMAIN snd' = SndF /\ SameOwner /\ snd'.ret = ret /\ snd'.todo = {}
             /\ snd'.port = snd.port /\ snd'.put = snd.put
<1> DEFINE late == "post" \in snd.todo
           ret == IF load.sg /\ (snd.put \/ late) THEN "pending" ELSE snd.ret
<1>1. /\ pc = "transfer" /\ snd.todo \subseteq {"post"} /\ pc' = "settle"
      /\ UNCHANGED <<load, wmm, left, wr, card>>
      /\ mpa_tx' = (IF late THEN TxPut(snd.pkt, snd.port) ELSE mpa_tx)
      /\ sent' = (ret # "failure" /\ wr.curr \notin wr.map)
      /\ done' = (IF ret = "pending" THEN done ELSE Completed({snd.pkt}, ret))
      /\ snd' = [snd EXCEPT !.ret = ret, !.todo = {}]
  BY DEF Transferred
<1> HIDE DEF ret, late
<1>2. /\ DOMAIN snd' = SndF /\ SameOwner /\ snd'.ret = ret /\ snd'.todo = {}
      /\ snd'.port = snd.port /\ snd'.put = snd.put
  BY <1>1 DEF SndTypes, SndF, SameOwner
<1> QED BY <1>1, <1>2 DEF ret, late

--------------------------------------------------------------------------------
(* Types of the queues are preserved.                                        *)

\* The other priority of an access category is a priority.
LEMMA SameAcIn ==
  ASSUME NEW p \in Prio
  PROVE  SameAc(p) \in Prio /\ SameAc(p) # p
<1>1. HIGH_PRIO_TID \in Nat /\ HIGH_PRIO_TID % 2 = 1 /\ p \in Nat /\ p <= HIGH_PRIO_TID
  BY WmmAssumption DEF Prio
<1>2. CASE p % 2 = 1
  <2>1. p # 0
    BY <1>1, <1>2
  <2> QED BY <1>1, <1>2, <2>1 DEF SameAc, Prio
<1>3. CASE p % 2 # 1
  <2>1. p # HIGH_PRIO_TID
    BY <1>1, <1>3
  <2> QED BY <1>1, <1>3, <2>1 DEF SameAc, Prio
<1> QED BY <1>2, <1>3

\* NextHighest is a priority.
LEMMA NextHighestIn ==
  ASSUME WmmTypes, NEW p \in Prio, p <= wmm.highest
  PROVE  NextHighest(p) \in Prio
<1>1. SameAc(p) \in Prio
  BY SameAcIn
<1>2. Min2(wmm.highest, p) \in Prio
  BY WmmAssumption DEF Min2, WmmTypes, Highest, Prio, NO_PKT_PRIO_TID
<1> QED BY <1>1, <1>2 DEF NextHighest

\* Completed keeps the type of done.
LEMMA CompletedIn ==
  ASSUME DoneTypes, NEW ks, NEW st \in {"success", "failure"}
  PROVE  Completed(ks, st) \in [PktId -> Answers]
<1>1. \A k \in PktId : done[k] \in Answers /\ Append(done[k], st) \in Answers
  BY DEF DoneTypes, Answers
<1> QED BY <1>1 DEF Completed

\* What a list holds.
LEMMA BufIs ==
  ASSUME WmmTypes, NEW l \in Lists
  PROVE  /\ wmm.buf[l] \in Ids /\ Len(wmm.buf[l]) \in Nat
         /\ Tail(wmm.buf[l]) \in Ids \/ wmm.buf[l] = <<>>
         /\ wmm.buf[l] # <<>> => Head(wmm.buf[l]) \in PktId /\ Tail(wmm.buf[l]) \in Ids
                                 /\ Len(wmm.buf[l]) > 0
  BY DEF WmmTypes, Ids

\* A step of the queues keeps their types.
LEMMA WmmTypesStep ==
  ASSUME TxSide, load' = load, WmmStep
  PROVE  WmmTypes'
<1>0. WmmTypes /\ LeftTypes /\ SndTypes /\ PcTypes /\ load \in Loads
  BY DEF TxSide
<1>9. PktId' = PktId /\ Ids' = Ids
  BY DEF PktId, Ids
<1>1. CASE AddBuf
  <2> DEFINE k == Len(load.tx) - left.tx + 1
             s == P(k).sta
             p == P(k).prio
  <2>1. /\ k \in PktId /\ p \in Prio /\ s \in Sta /\ <<p, s>> \in Lists
        /\ DOMAIN wmm' = WmmF
        /\ wmm'.buf = [wmm.buf EXCEPT ![<<p, s>>] = Append(@, k)]
        /\ wmm'.total = [wmm.total EXCEPT ![<<p, s>>] = @ + 1]
        /\ wmm'.live = [wmm.live EXCEPT ![s] = TRUE]
        /\ wmm'.paused = wmm.paused /\ wmm'.requeued = wmm.requeued /\ wmm'.short = wmm.short
        /\ wmm'.queued = [wmm.queued EXCEPT ![p] = @ + 1]
        /\ wmm'.held = wmm.held \/ wmm'.held = [wmm.held EXCEPT ![p] = @ + 1]
        /\ wmm'.tx_pkts_queued \in {wmm.tx_pkts_queued, wmm.tx_pkts_queued + 1}
        /\ wmm'.highest \in {wmm.highest, p}
    BY <1>0, <1>1, AddBufIs DEF ListOf
  <2> HIDE DEF k, s, p
  <2>2. wmm.buf[<<p, s>>] \in Ids /\ Append(wmm.buf[<<p, s>>], k) \in Ids
    BY <2>1, <1>0, BufIs DEF Ids
  <2>3. wmm'.buf \in [Lists -> Ids]
    <3>1. wmm.buf \in [Lists -> Ids]
      BY <1>0 DEF WmmTypes
    <3> QED BY <2>1, <2>2, <3>1
  <2>4. wmm'.total \in [Lists -> Int]
    <3>1. wmm'.total = [wmm.total EXCEPT ![<<p, s>>] = @ + 1] /\ <<p, s>> \in Lists
      BY <2>1
    <3>2. wmm.total \in [Lists -> Int]
      BY <1>0 DEF WmmTypes
    <3> QED BY <3>1, <3>2
  <2>5. wmm'.queued \in [Prio -> Int]
    <3>1. wmm'.queued = [wmm.queued EXCEPT ![p] = @ + 1] /\ p \in Prio
      BY <2>1
    <3>2. wmm.queued \in [Prio -> Int]
      BY <1>0 DEF WmmTypes
    <3> QED BY <3>1, <3>2
  <2>6. wmm'.held \in [Prio -> Int]
    <3>1. wmm'.held = wmm.held \/ wmm'.held = [wmm.held EXCEPT ![p] = @ + 1]
      BY <2>1
    <3>2. wmm.held \in [Prio -> Int] /\ p \in Prio
      BY <2>1, <1>0 DEF WmmTypes
    <3> QED BY <3>1, <3>2
  <2>7. wmm'.tx_pkts_queued \in Int /\ wmm'.highest \in Highest
    <3>1. wmm'.tx_pkts_queued \in {wmm.tx_pkts_queued, wmm.tx_pkts_queued + 1} /\ p \in Prio /\ wmm'.highest \in {wmm.highest, p}
      BY <2>1
    <3>2. wmm.tx_pkts_queued \in Int /\ wmm.highest \in Highest
      BY <1>0 DEF WmmTypes
    <3> QED BY <3>1, <3>2 DEF Highest
  <2>8. wmm'.live \in [Sta -> BOOLEAN]
    <3>1. wmm'.live = [wmm.live EXCEPT ![s] = TRUE] /\ s \in Sta
      BY <2>1
    <3> QED BY <3>1, <1>0 DEF WmmTypes
  <2> QED BY <2>1, <2>3, <2>4, <2>5, <2>6, <2>7, <2>8, <1>0, <1>9 DEF WmmTypes
<1>2. CASE DropTxPkt
  <2>1. PICK p \in Prio, s \in Sta :
              /\ <<p, s>> \in Lists /\ wmm.buf[<<p, s>>] # <<>>
              /\ DOMAIN wmm' = WmmF
              /\ wmm'.buf = [wmm.buf EXCEPT ![<<p, s>>] = Tail(@)]
              /\ wmm'.total = [wmm.total EXCEPT ![<<p, s>>] = @ - 1]
              /\ wmm'.live = wmm.live /\ wmm'.paused = wmm.paused
              /\ wmm'.requeued = wmm.requeued /\ wmm'.short = wmm.short
              /\ wmm'.queued = [wmm.queued EXCEPT ![p] = @ - 1]
              /\ wmm'.held = wmm.held \/ wmm'.held = [wmm.held EXCEPT ![p] = @ - 1]
              /\ wmm'.tx_pkts_queued \in {wmm.tx_pkts_queued, wmm.tx_pkts_queued - 1}
              /\ wmm'.highest = wmm.highest
    BY <1>0, <1>2, DropIs
  <2>2. Tail(wmm.buf[<<p, s>>]) \in Ids
    BY <2>1, <1>0, BufIs
  <2>3. wmm'.buf \in [Lists -> Ids]
    <3>1. wmm.buf \in [Lists -> Ids]
      BY <1>0 DEF WmmTypes
    <3> QED BY <2>1, <2>2, <3>1
  <2>4. wmm'.total \in [Lists -> Int]
    <3>1. wmm'.total = [wmm.total EXCEPT ![<<p, s>>] = @ - 1] /\ <<p, s>> \in Lists
      BY <2>1
    <3>2. wmm.total \in [Lists -> Int]
      BY <1>0 DEF WmmTypes
    <3> QED BY <3>1, <3>2
  <2>5. wmm'.queued \in [Prio -> Int]
    <3>1. wmm'.queued = [wmm.queued EXCEPT ![p] = @ - 1] /\ p \in Prio
      BY <2>1
    <3>2. wmm.queued \in [Prio -> Int]
      BY <1>0 DEF WmmTypes
    <3> QED BY <3>1, <3>2
  <2>6. wmm'.held \in [Prio -> Int]
    <3>1. wmm'.held = wmm.held \/ wmm'.held = [wmm.held EXCEPT ![p] = @ - 1]
      BY <2>1
    <3>2. wmm.held \in [Prio -> Int] /\ p \in Prio
      BY <2>1, <1>0 DEF WmmTypes
    <3> QED BY <3>1, <3>2
  <2>7. wmm'.tx_pkts_queued \in Int /\ wmm'.highest \in Highest
    <3>1. wmm'.tx_pkts_queued \in {wmm.tx_pkts_queued, wmm.tx_pkts_queued - 1} /\ p \in Prio /\ wmm'.highest = wmm.highest
      BY <2>1
    <3>2. wmm.tx_pkts_queued \in Int /\ wmm.highest \in Highest
      BY <1>0 DEF WmmTypes
    <3> QED BY <3>1, <3>2 DEF Highest
  <2>8. wmm'.live \in [Sta -> BOOLEAN]
    <3>1. wmm'.live = wmm.live
      BY <2>1
    <3> QED BY <3>1, <1>0 DEF WmmTypes
  <2> QED BY <2>1, <2>3, <2>4, <2>5, <2>6, <2>7, <2>8, <1>0, <1>9 DEF WmmTypes
<1>3. CASE DeletePeer
  <2>1. PICK s \in Sta, n \in Int :
                  /\ DOMAIN wmm' = WmmF
                  /\ wmm'.buf = [l \in Lists |-> IF l[2] = s THEN <<>> ELSE wmm.buf[l]]
                  /\ wmm'.total = [l \in Lists |-> IF l[2] = s THEN 0 ELSE wmm.total[l]]
                  /\ wmm'.live = [wmm.live EXCEPT ![s] = FALSE]
                  /\ wmm'.paused = wmm.paused
                  /\ wmm'.requeued = wmm.requeued /\ wmm'.short = wmm.short
                  /\ wmm'.queued = [p \in Prio |-> wmm.queued[p] - wmm.total[<<p, s>>]]
                  /\ wmm'.held = [p \in Prio |-> IF wmm.paused[s] THEN wmm.held[p] - wmm.total[<<p, s>>]
                                                                 ELSE wmm.held[p]]
                  /\ wmm'.tx_pkts_queued = wmm.tx_pkts_queued - n
                  /\ wmm'.highest \in {HIGH_PRIO_TID, wmm.highest}
    <3>1. PICK s \in Sta :
              LET n == IF wmm.paused[s] THEN 0 ELSE CountOf(wmm, s)
              IN  /\ wmm.live[s] /\ n \in Int
                  /\ DOMAIN wmm' = WmmF
                  /\ wmm'.buf = [l \in Lists |-> IF l[2] = s THEN <<>> ELSE wmm.buf[l]]
                  /\ wmm'.total = [l \in Lists |-> IF l[2] = s THEN 0 ELSE wmm.total[l]]
                  /\ wmm'.live = [wmm.live EXCEPT ![s] = FALSE]
                  /\ wmm'.paused = wmm.paused
                  /\ wmm'.requeued = wmm.requeued /\ wmm'.short = wmm.short
                  /\ wmm'.queued = [p \in Prio |-> wmm.queued[p] - wmm.total[<<p, s>>]]
                  /\ wmm'.held = [p \in Prio |-> IF wmm.paused[s] THEN wmm.held[p] - wmm.total[<<p, s>>]
                                                                 ELSE wmm.held[p]]
                  /\ wmm'.tx_pkts_queued = wmm.tx_pkts_queued - n
                  /\ wmm'.highest = IF n > 0 THEN HIGH_PRIO_TID ELSE wmm.highest
      BY <1>0, <1>3, DeleteIs
    <3> DEFINE n == IF wmm.paused[s] THEN 0 ELSE CountOf(wmm, s)
    <3>2. /\ n \in Int /\ DOMAIN wmm' = WmmF
          /\ wmm'.highest \in {HIGH_PRIO_TID, wmm.highest}
      BY <3>1
    <3>3. wmm'.tx_pkts_queued = wmm.tx_pkts_queued - n
      BY <3>1
    <3> HIDE DEF n
    <3> n \in Int
      BY <3>2
    <3> WITNESS s \in Sta, n \in Int
    <3> QED BY <3>1, <3>2, <3>3
  <2>2. wmm'.buf \in [Lists -> Ids]
    <3>1. <<>> \in Ids
      BY DEF Ids
    <3> QED BY <2>1, <3>1, <1>0 DEF WmmTypes
  <2>3. \A p \in Prio : <<p, s>> \in Lists
    BY DEF Lists
  <2>4. wmm'.total \in [Lists -> Int] /\ wmm'.queued \in [Prio -> Int] /\ wmm'.held \in [Prio -> Int]
    BY <2>1, <2>3, <1>0 DEF WmmTypes
  <2>5. HIGH_PRIO_TID \in Prio
    BY WmmAssumption DEF Prio
  <2> QED BY <2>1, <2>2, <2>4, <2>5, <1>0, <1>9 DEF WmmTypes, Highest
<1>4. CASE UpdateTxPause
  <2>0. PICK s \in Sta :
              LET n == CountOf(wmm, s)
                  d == IF wmm.paused[s] THEN -1 ELSE 1
              IN  /\ DOMAIN wmm' = WmmF /\ n \in Int
                  /\ wmm'.buf = wmm.buf /\ wmm'.total = wmm.total /\ wmm'.live = wmm.live
                  /\ wmm'.paused = [wmm.paused EXCEPT ![s] = ~@]
                  /\ wmm'.requeued = wmm.requeued /\ wmm'.short = wmm.short /\ wmm'.queued = wmm.queued
                  /\ wmm'.held = [p \in Prio |-> wmm.held[p] + d * wmm.total[<<p, s>>]]
                  /\ wmm'.tx_pkts_queued = wmm.tx_pkts_queued - d * n
                  /\ wmm'.highest = IF n > 0 THEN HIGH_PRIO_TID ELSE wmm.highest
    BY <1>0, <1>4, PauseIs
  <2> DEFINE n == CountOf(wmm, s)
             d == IF wmm.paused[s] THEN -1 ELSE 1
  <2>1. /\ DOMAIN wmm' = WmmF
        /\ wmm'.buf = wmm.buf /\ wmm'.total = wmm.total /\ wmm'.live = wmm.live
        /\ wmm'.paused = [wmm.paused EXCEPT ![s] = ~@]
        /\ wmm'.requeued = wmm.requeued /\ wmm'.short = wmm.short /\ wmm'.queued = wmm.queued
    BY <2>0
  <2>2. n \in Int /\ d \in {-1, 1} /\ wmm'.highest \in {HIGH_PRIO_TID, wmm.highest}
    BY <2>0
  <2>6. /\ wmm'.held = [p \in Prio |-> wmm.held[p] + d * wmm.total[<<p, s>>]]
        /\ wmm'.tx_pkts_queued = wmm.tx_pkts_queued - d * n
    BY <2>0, Zenon
  <2> HIDE DEF n, d
  <2>3. \A p \in Prio : <<p, s>> \in Lists
    BY DEF Lists
  <2>4. wmm'.held \in [Prio -> Int] /\ wmm'.tx_pkts_queued \in Int
    BY <2>2, <2>3, <2>6, <1>0 DEF WmmTypes
  <2>5. HIGH_PRIO_TID \in Prio
    BY WmmAssumption DEF Prio
  <2> QED BY <2>1, <2>2, <2>4, <2>5, <1>0, <1>9 DEF WmmTypes, Highest
<1>5. CASE PickNone
  <2>5. HIGH_PRIO_TID \in Prio
    BY WmmAssumption DEF Prio
  <2> QED BY <1>5, <2>5, <1>0, <1>9, PickNoneIs DEF WmmTypes, Highest, Ids
<1>6. CASE Pick
  <2>1. PICK p \in Prio, s \in Sta : Picked(p, s)
    BY <1>0, <1>6, PickIs
  <2>2. PICK n \in {0, 1} :
           /\ p <= wmm.highest /\ wmm.buf[<<p, s>>] # <<>>
           /\ DOMAIN wmm' = WmmF
           /\ wmm'.buf = [wmm.buf EXCEPT ![<<p, s>>] = Tail(@)]
           /\ wmm'.total = [wmm.total EXCEPT ![<<p, s>>] = @ - n]
           /\ wmm'.live = wmm.live /\ wmm'.paused = wmm.paused /\ wmm'.requeued = wmm.requeued /\ wmm'.short = wmm.short
           /\ wmm'.queued = [wmm.queued EXCEPT ![p] = @ - n]
           /\ wmm'.held = wmm.held
           /\ wmm'.tx_pkts_queued = wmm.tx_pkts_queued - n
           /\ wmm'.highest = NextHighest(p)
    BY <2>1 DEF Picked, Sendable
  <2>3. <<p, s>> \in Lists
    BY DEF Lists
  <2>4. Tail(wmm.buf[<<p, s>>]) \in Ids
    BY <2>2, <2>3, <1>0, BufIs
  <2>5. wmm'.buf \in [Lists -> Ids]
    BY <2>2, <2>3, <2>4, <1>0 DEF WmmTypes
  <2>6. wmm'.total \in [Lists -> Int] /\ wmm'.queued \in [Prio -> Int] /\ wmm'.tx_pkts_queued \in Int
    BY SMTT(30), <2>2, <2>3, <1>0 DEF WmmTypes
  <2>7. wmm'.highest \in Highest
    BY <2>2, <1>0, NextHighestIn DEF Highest
  <2> QED BY <2>2, <2>5, <2>6, <2>7, <1>0, <1>9 DEF WmmTypes
<1>7. CASE SettleBack
  <2>1. CASE snd.gone
    BY <2>1, <1>0, <1>7, <1>9, SettleBackIs DEF WmmTypes
  <2>2. CASE ~snd.gone
    <3>1. snd.pkt \in PktId /\ snd.sta \in Sta /\ snd.prio \in Prio
      BY <1>0, <1>7 DEF SettleBack, PcTypes, Busy, SndTypes
    <3>2. <<snd.prio, snd.sta>> \in Lists
      BY <3>1 DEF Lists
    <3>3. PutBack
      BY <1>0, <1>7, <2>2, SettleBackIs
    <3>4. <<snd.pkt>> \o wmm.buf[<<snd.prio, snd.sta>>] \in Ids
      BY <3>1, <3>2, <1>0, BufIs DEF Ids
    <3>5. wmm'.buf \in [Lists -> Ids]
      BY <3>2, <3>3, <3>4, <1>0 DEF WmmTypes, PutBack
    <3>6. PICK n \in {0, 1} :
            /\ wmm'.total = [wmm.total EXCEPT ![<<snd.prio, snd.sta>>] = @ + n]
            /\ wmm'.queued = [wmm.queued EXCEPT ![snd.prio] = @ + n]
            /\ wmm'.tx_pkts_queued = wmm.tx_pkts_queued + n
      <4> DEFINE n == IF snd.proc THEN 0 ELSE 1
      <4>1. n \in {0, 1}
        OBVIOUS
      <4> WITNESS n \in {0, 1}
      <4> QED BY <3>3 DEF PutBack
    <3>7. wmm.total \in [Lists -> Int] /\ wmm.queued \in [Prio -> Int] /\ wmm.tx_pkts_queued \in Int
      BY <1>0 DEF WmmTypes
    <3>8. wmm'.total \in [Lists -> Int] /\ wmm'.queued \in [Prio -> Int] /\ wmm'.tx_pkts_queued \in Int
      <4>1. n \in Int
        OBVIOUS
      <4>2. wmm'.total \in [Lists -> Int]
        <5>1. wmm'.total = [wmm.total EXCEPT ![<<snd.prio, snd.sta>>] = @ + n] /\ wmm.total \in [Lists -> Int]
          BY <3>6, <3>7
        <5> QED BY <4>1, <5>1, <3>2
      <4>3. wmm'.queued \in [Prio -> Int]
        <5>1. wmm'.queued = [wmm.queued EXCEPT ![snd.prio] = @ + n] /\ wmm.queued \in [Prio -> Int]
          BY <3>6, <3>7
        <5> QED BY <4>1, <5>1, <3>1
      <4>4. wmm'.tx_pkts_queued \in Int
        <5>1. wmm'.tx_pkts_queued = wmm.tx_pkts_queued + n /\ wmm.tx_pkts_queued \in Int
          BY <3>6, <3>7
        <5> QED BY <4>1, <5>1
      <4> QED BY <4>2, <4>3, <4>4
    <3>9. /\ DOMAIN wmm' = WmmF /\ wmm'.live = wmm.live /\ wmm'.paused = wmm.paused
          /\ wmm'.requeued = wmm.requeued \cup {snd.pkt} /\ wmm'.short = wmm.short
          /\ wmm'.held = wmm.held /\ wmm'.highest = wmm.highest
      BY <3>3 DEF PutBack
    <3> QED BY <3>1, <3>5, <3>8, <3>9, <1>0, <1>9 DEF WmmTypes
  <2> QED BY <2>1, <2>2
<1>8. CASE Settle
  <2>1. CASE ~snd.proc
    BY <2>1, <1>0, <1>8, <1>9, SettleIs DEF WmmTypes
  <2>2. CASE snd.proc
    <3>1. snd.pkt \in PktId /\ snd.sta \in Sta /\ snd.prio \in Prio
      BY <1>0, <1>8 DEF Settle, PcTypes, Busy, SndTypes
    <3>2. <<snd.prio, snd.sta>> \in Lists
      BY <3>1 DEF Lists
    <3>3. TakenOff
      BY <1>0, <1>8, <2>2, SettleIs
    <3>6. wmm'.total \in [Lists -> Int] /\ wmm'.queued \in [Prio -> Int] /\ wmm'.tx_pkts_queued \in Int
          /\ wmm'.short \in [Prio -> Nat]
      BY <3>1, <3>2, <3>3, <1>0 DEF WmmTypes, TakenOff
    <3> QED BY <3>1, <3>3, <3>6, <1>0, <1>9 DEF WmmTypes, TakenOff
  <2> QED BY <2>1, <2>2
<1> QED BY <1>1, <1>2, <1>3, <1>4, <1>5, <1>6, <1>7, <1>8 DEF WmmStep

--------------------------------------------------------------------------------
(* Types of the load, the locals and the control are preserved.              *)

LeftSame == left'.tx = left.tx /\ left'.del = left.del /\ left'.drop = left.drop

\* What YieldToCmd does.
LEMMA YieldIs ==
  ASSUME TxTypes, LeftTypes, load' = load, YieldToCmd
  PROVE  /\ pc = "again" /\ pc' = "loop" /\ LeftTypes' /\ LeftSame
         /\ left'.rfail = left.rfail /\ left'.norxbuf = left.norxbuf
         /\ \/ TxInProgress /\ \E ok \in BOOLEAN : Flushed(ok)
            \/ ~TxInProgress /\ UNCHANGED <<done, mpa_tx, card>>
<1>1. pc = "again" /\ pc' = "loop"
  BY DEF YieldToCmd
<1>2. CASE TxInProgress
  <2>1. PICK ok \in BOOLEAN : SendAggr(ok)
    BY <1>2 DEF YieldToCmd
  <2> QED BY <1>1, <1>2, <2>1, SendAggrIs DEF LeftSame
<1>3. CASE ~TxInProgress
  BY <1>1, <1>3 DEF YieldToCmd, LeftTypes, LeftSame
<1> QED BY <1>2, <1>3

\* A step keeps the type of left, and only AddBuf takes a packet of the load.
LEMMA LeftTypesStep ==
  ASSUME TxSide, [SdioNext]_allvars
  PROVE  LeftTypes' /\ (left'.tx = left.tx \/ AddBuf)
<1>0. WmmTypes /\ LeftTypes /\ SndTypes /\ PcTypes /\ TxTypes /\ load \in Loads /\ load' = load
  BY StepKinds DEF TxSide
<1>1. CASE left' = left
  BY <1>0, <1>1 DEF LeftTypes
<1>2. CASE WmmStep
  BY <1>0, <1>1, <1>2, AddBufIs, DropIs, DeleteIs, PauseIs DEF WmmStep, PickNone, Pick, SettleBack, Settle
<1>3. CASE PortStep
  <2>1. pc = "transfer" => snd.pkt \in PktId
    BY <1>0 DEF PcTypes, Busy
  <2>2. TransferCur => pc = "transfer"
    BY DEF TransferCur
  <2> QED BY <1>0, <1>1, <1>3, <2>1, <2>2, TransferAggrIs, TransferCurIs
          DEF PortStep, GetPortFails, GetPort, Transferred
<1>4. CASE YieldToCmd
  BY <1>0, <1>4, YieldIs DEF LeftSame
<1>5. CASE RxNext(regs.rd)
  <2>1. left' = left \/ Spend("norxbuf") \/ Spend("rfail")
    BY <1>5 DEF RxNext, RxGet, RxGetNoBuf, RxGetNone, ReadAggr, ReadAggrFails, ReadAggrFailsIgnored,
                ReadCur, ReadCurFails, ReadAndDrop, RxEnd, ReadFails
  <2> QED BY <1>0, <1>1, <2>1, SpendIs DEF LeftF
<1>6. CASE CardStep
  <2>1. left' = left \/ Spend("cmd")
    BY <1>6 DEF CardStep, IrqRead, IrqNote, CardGrants, CardSends, CardAnswers, wmmvars
  <2> QED BY <1>0, <1>1, <2>1, SpendIs DEF LeftF
<1> QED BY <1>1, <1>2, <1>3, <1>4, <1>5, <1>6, StepKinds DEF allvars, wmmvars

\* What LoopStep does.
LEMMA LoopIs ==
  ASSUME LoopStep
  PROVE  pc \notin Busy /\ pc' \in Labels \ Busy
  BY DEF LoopStep, TakeInts, Status, StartTx, NoTx, Again, Labels, Busy

\* The read path is not the sending one.
LEMMA RxPcIs ==
  ASSUME RxNext(regs.rd), pc \in Labels
  PROVE  pc \notin Busy /\ pc' \in Labels \ Busy
  BY DEF RxNext, RxGet, RxGetNoBuf, RxGetNone, ReadAggr, ReadAggrFails, ReadAggrFailsIgnored,
         ReadCur, ReadCurFails, ReadAndDrop, RxEnd, Labels, Busy

\* A step keeps the types of the locals and of the control.
LEMMA SndStep ==
  ASSUME TxSide, [SdioNext]_allvars
  PROVE  SndTypes' /\ PcTypes'
<1>0. /\ WmmTypes /\ LeftTypes /\ SndTypes /\ PcTypes /\ TxTypes /\ load \in Loads /\ load' = load
      /\ PktId' = PktId
  BY StepKinds DEF TxSide, PktId
<1>1. CASE snd' = snd /\ pc' = pc /\ sent' \in BOOLEAN
  BY <1>0, <1>1 DEF SndTypes, PcTypes
<1>2. CASE WmmStep
  <2>1. CASE AddBuf \/ DropTxPkt \/ UpdateTxPause \/ PickNone
    BY <2>1, <1>0 DEF AddBuf, DropTxPkt, UpdateTxPause, PickNone, SndTypes, PcTypes, Labels, Busy
  <2>2. CASE DeletePeer
    <3>1. PICK s \in Sta : snd' = [snd EXCEPT !.gone = @ \/ snd.sta = s] /\ pc' = pc /\ sent' = sent
      BY <2>2 DEF DeletePeer
    <3> QED BY <3>1, <1>0 DEF SndTypes, SndF, PcTypes
  <2>3. CASE Pick
    <3>1. PICK p \in Prio, s \in Sta : Picked(p, s)
      BY <1>0, <2>3, PickIs
    <3>2. <<p, s>> \in Lists /\ wmm.buf[<<p, s>>] # <<>>
      BY <3>1 DEF Picked, Sendable, Lists
    <3>3. Head(wmm.buf[<<p, s>>]) \in PktId /\ Tail(wmm.buf[<<p, s>>]) \in Ids
      BY <3>2, <1>0, BufIs
    <3>4. Tail(wmm.buf[<<p, s>>]) # <<>> => SizeOf(Head(Tail(wmm.buf[<<p, s>>]))) \in Nat
      <4> SUFFICES ASSUME Tail(wmm.buf[<<p, s>>]) # <<>>
                   PROVE  Head(Tail(wmm.buf[<<p, s>>])) \in PktId
        BY LoadIs, <1>0
      <4> QED BY <3>3 DEF Ids
    <3>5. SndTypes'
      <4>1. 0 \in WrPort
        BY SdioTxAssumption DEF WrPort
      <4> DEFINE t == Tail(wmm.buf[<<p, s>>])
                 x == SizeOf(Head(t))
      <4>3. snd'.next = IF t = <<>> THEN 0 ELSE x
        BY <3>1 DEF Picked
      <4>4. t # <<>> => x \in Nat
        BY <3>4
      <4> HIDE DEF x, t
      <4>2. snd'.next \in Nat
        BY <4>3, <4>4
      <4> QED BY <3>1, <3>3, <4>1, <4>2, <1>0 DEF SndTypes, Picked, Returns
    <3>6. PcTypes'
      BY <2>3, <3>1, <3>3, <1>0 DEF Pick, PcTypes, Picked, Labels, Busy
    <3> QED BY <3>5, <3>6
  <2>4. CASE SettleBack \/ Settle
    <3>1. snd' = Idle /\ pc' = "again" /\ sent' = sent
      BY <2>4 DEF SettleBack, Settle
    <3>2. IdleSnd'
      BY <3>1 DEF Idle, IdleSnd, SndF
    <3>3. 0 \in WrPort /\ 0 \in Prio
      BY SdioTxAssumption, WmmAssumption DEF WrPort, Prio
    <3>4. SndTypes'
      BY <3>2, <3>3 DEF IdleSnd, SndTypes, Returns
    <3>5. PcTypes'
      BY <3>1, <3>2, <1>0 DEF IdleSnd, PcTypes, Labels, Busy
    <3> QED BY <3>4, <3>5
  <2> QED BY <1>2, <2>1, <2>2, <2>3, <2>4 DEF WmmStep
<1>3. CASE PortStep
  <2>0. pc = "transfer" => snd.pkt \in PktId
    BY <1>0 DEF PcTypes, Busy
  <2>1. CASE GetPortFails
    BY <2>1, <1>0, GetPortFailsIs DEF SameOwner, SndTypes, PcTypes, Labels, Busy, Returns
  <2>2. CASE GetPort
    <3>1. Plan \subseteq TxSteps
      BY PlanIs
    <3>2. SndTypes'
      BY <2>2, <3>1, <1>0, GetPortIs DEF SameOwner, SndTypes, Returns, TxTypes
    <3>3. PcTypes'
      BY <2>2, <1>0, GetPortIs DEF SameOwner, PcTypes, Labels, Busy
    <3> QED BY <3>2, <3>3
  <2>3. CASE TransferAggr
    BY <2>3, <1>0, TransferAggrIs DEF SameOwner, SndTypes, PcTypes, Labels, Busy, Returns
  <2>4. CASE TransferCur
    <3>1. pc = "transfer"
      BY <2>4 DEF TransferCur
    <3> QED BY <2>4, <3>1, <1>0, <2>0, TransferCurIs DEF SameOwner, SndTypes, PcTypes, Labels, Busy, Returns
  <2>5. CASE Transferred
    BY <2>5, <1>0, TransferredIs DEF SameOwner, SndTypes, PcTypes, Labels, Busy, Returns
  <2> QED BY <1>3, <2>1, <2>2, <2>3, <2>4, <2>5 DEF PortStep
<1>4. CASE LoopStep /\ UNCHANGED snd
  <2>1. sent' \in BOOLEAN
    BY <1>4, <1>0 DEF LoopStep, TakeInts, Status, StartTx, NoTx, Again, PcTypes
  <2> QED BY <2>1, <1>4, <1>0, LoopIs DEF SndTypes, PcTypes, Busy
<1>5. CASE YieldToCmd /\ UNCHANGED snd
  BY <1>5, <1>0 DEF YieldToCmd, SndTypes, PcTypes, Labels, Busy
<1>6. CASE RxNext(regs.rd) /\ UNCHANGED <<snd, sent>>
  BY <1>6, <1>0, RxPcIs DEF SndTypes, PcTypes, Busy
<1> QED BY <1>0, <1>1, <1>2, <1>3, <1>4, <1>5, <1>6, StepKinds DEF allvars, wmmvars, PcTypes

--------------------------------------------------------------------------------
(* The types the proofs use are an invariant.                                *)

\* A step keeps the type of done.
LEMMA DoneStep ==
  ASSUME TxSide, [SdioNext]_allvars
  PROVE  DoneTypes'
<1>0. /\ WmmTypes /\ LeftTypes /\ SndTypes /\ PcTypes /\ TxTypes /\ DoneTypes
      /\ load' = load /\ PktId' = PktId
  BY StepKinds DEF TxSide, PktId
<1>1. CASE done' = done
  BY <1>0, <1>1 DEF DoneTypes, Answers
<1>2. ASSUME NEW ks, NEW st \in {"success", "failure"}, done' = Completed(ks, st)
      PROVE  DoneTypes'
  BY <1>0, <1>2, CompletedIn DEF DoneTypes, Answers
<1>3. CASE WmmStep
  <2>1. CASE done' = done
    BY <2>1, <1>1
  <2>2. CASE DropTxPkt
    <3>1. PICK ks : done' = Completed(ks, "failure")
      BY <2>2 DEF DropTxPkt
    <3> QED BY <3>1, <1>2
  <2>3. CASE DeletePeer
    <3>1. PICK ks : done' = Completed(ks, "failure")
      BY <2>3 DEF DeletePeer
    <3> QED BY <3>1, <1>2
  <2>4. CASE SettleBack
    <3>1. done' = done \/ done' = Completed({snd.pkt}, "failure")
      BY <2>4 DEF SettleBack
    <3> QED BY <3>1, <1>1, <1>2
  <2> QED BY <1>3, <2>1, <2>2, <2>3, <2>4 DEF WmmStep, AddBuf, UpdateTxPause, PickNone, Pick, Settle
<1>4. ASSUME NEW ok \in BOOLEAN, Flushed(ok) PROVE DoneTypes'
  <2>1. done' = done \/ done' = Completed(ToSet(mpa_tx.pkts), "success")
    BY <1>4 DEF Flushed
  <2> QED BY <2>1, <1>1, <1>2
<1>5. CASE PortStep
  <2>1. CASE TransferAggr
    BY <2>1, <1>0, <1>4, TransferAggrIs
  <2>2. CASE Transferred
    <3>1. snd.ret \in {"success", "failure"}
      BY <2>2, <1>0 DEF Transferred, PcTypes
    <3>2. done' = done \/ done' = Completed({snd.pkt}, snd.ret)
      BY <2>2 DEF Transferred
    <3> QED BY <3>1, <3>2, <1>1, <1>2
  <2>3. CASE done' = done
    BY <2>3, <1>1
  <2> QED BY <1>5, <2>1, <2>2, <2>3 DEF PortStep, GetPortFails, GetPort, TransferCur
<1>6. CASE YieldToCmd
  BY <1>6, <1>0, <1>1, <1>4, YieldIs
<1> QED BY <1>1, <1>3, <1>5, <1>6, StepKinds DEF allvars, wmmvars

\* What is put into the aggregation buffer.
LEMMA PutIs ==
  ASSUME TxTypes, NEW k \in PktId, NEW port \in WrPort, mpa_tx' = TxPut(k, port), load' = load
  PROVE  /\ DOMAIN mpa_tx' = MpaF /\ mpa_tx'.pkts = Append(mpa_tx.pkts, k)
         /\ mpa_tx'.start = (IF TxInProgress THEN mpa_tx.start ELSE port)
         /\ mpa_tx'.pkts \in Ids /\ mpa_tx'.start \in WrPort
         /\ Len(mpa_tx'.pkts) = Len(mpa_tx.pkts) + 1 /\ Len(mpa_tx.pkts) \in Nat
  BY DEF TxPut, MpaF, TxTypes, Ids

\* A step keeps the types of the write path.
LEMMA TxTypesStep ==
  ASSUME TxSide, [SdioNext]_allvars
  PROVE  TxTypes'
<1>0. /\ WmmTypes /\ LeftTypes /\ SndTypes /\ PcTypes /\ TxTypes /\ IntTypes
      /\ load' = load /\ PktId' = PktId /\ Ids' = Ids
  BY StepKinds DEF TxSide, PktId, Ids
<1>1. CASE UNCHANGED txvars
  BY <1>0, <1>1 DEF TxTypes, txvars
<1>a. 0 \in WrPort /\ <<>> \in Ids
  BY SdioTxAssumption DEF WrPort, Ids
<1>4. ASSUME NEW ok \in BOOLEAN, Flushed(ok), wr' = wr PROVE TxTypes'
  <2>1. card.got \o mpa_tx.pkts \in Ids
    BY <1>0 DEF TxTypes, Ids
  <2>2. card'.missed \in BOOLEAN
    BY <1>4 DEF Flushed
  <2> QED BY <1>0, <1>4, <1>a, <2>1, <2>2 DEF Flushed, TxTypes
<1>5. CASE PortStep
  <2>0. pc \in Busy => snd.pkt \in PktId
    BY <1>0 DEF PcTypes
  <2>1. CASE GetPortFails
    BY <2>1, <1>1 DEF GetPortFails
  <2>2. CASE GetPort
    <3>1. snd.pkt \in PktId /\ wr.curr \in WrPort /\ wr.curr \in Nat
      BY <2>0, <2>2, <1>0 DEF GetPort, Busy, TxTypes, WrPort
    <3>2. DOMAIN mpa_tx' = MpaF /\ mpa_tx'.pkts \in Ids /\ mpa_tx'.start \in WrPort
      <4>1. mpa_tx' = mpa_tx \/ mpa_tx' = TxPut(snd.pkt, wr.curr)
        BY <2>2, <1>0, GetPortIs
      <4>2. CASE mpa_tx' = mpa_tx
        BY <4>2, <1>0 DEF TxTypes
      <4>3. CASE mpa_tx' = TxPut(snd.pkt, wr.curr)
        BY <4>3, <3>1, <1>0, PutIs
      <4> QED BY <4>1, <4>2, <4>3
    <3>3. DOMAIN wr' = WrF /\ wr'.map \subseteq WrPort /\ wr'.curr \in WrPort /\ card' = card
      BY <2>2, <1>0, <3>1, GetPortIs, PortClosed DEF TxTypes
    <3> QED BY <3>2, <3>3, <1>0 DEF TxTypes
  <2>3. CASE TransferAggr
    BY <2>3, <1>0, <1>4, TransferAggrIs
  <2>4. CASE TransferCur
    <3>0. snd.pkt \in PktId
      BY <2>0, <2>4 DEF TransferCur, Busy
    <3>1. PICK ok \in BOOLEAN : Written(ok) /\ UNCHANGED <<wr, mpa_tx>>
      BY <3>0, <2>4, <1>0, TransferCurIs
    <3>2. Append(card.got, snd.pkt) \in Ids
      BY <3>0, <1>0 DEF TxTypes, Ids
    <3>3. card'.missed \in BOOLEAN
      BY <3>1 DEF Written
    <3> QED BY <3>1, <3>2, <3>3, <1>0 DEF Written, TxTypes
  <2>5. CASE Transferred
    <3>1. snd.pkt \in PktId /\ snd.port \in WrPort
      BY <2>0, <2>5, <1>0 DEF Transferred, Busy, SndTypes
    <3>2. DOMAIN mpa_tx' = MpaF /\ mpa_tx'.pkts \in Ids /\ mpa_tx'.start \in WrPort
      <4>1. mpa_tx' = mpa_tx \/ mpa_tx' = TxPut(snd.pkt, snd.port)
        BY <2>5, <1>0, TransferredIs
      <4>2. CASE mpa_tx' = mpa_tx
        BY <4>2, <1>0 DEF TxTypes
      <4>3. CASE mpa_tx' = TxPut(snd.pkt, snd.port)
        BY <4>3, <3>1, <1>0, PutIs
      <4> QED BY <4>1, <4>2, <4>3
    <3>3. UNCHANGED <<wr, card>>
      BY <2>5 DEF Transferred
    <3> QED BY <3>2, <3>3, <1>0 DEF TxTypes
  <2> QED BY <1>5, <2>1, <2>2, <2>3, <2>4, <2>5 DEF PortStep
<1>6. CASE YieldToCmd
  BY <1>6, <1>0, <1>1, <1>4, YieldIs, StepKinds DEF YieldToCmd, txvars
<1>7. CASE LoopStep /\ UNCHANGED <<mpa_tx, card>>
  <2>1. CASE wr' = wr
    BY <2>1, <1>7, <1>1 DEF txvars
  <2>2. CASE wr' = [wr EXCEPT !.map = regs.wr]
    BY <2>2, <1>7, <1>0 DEF TxTypes, IntTypes, WrF
  <2>3. wr' = wr \/ wr' = [wr EXCEPT !.map = regs.wr]
    BY <1>7 DEF LoopStep, TakeInts, Status, StartTx, NoTx, Again, txvars
  <2> QED BY <2>1, <2>2, <2>3
<1>8. CASE CardStep /\ UNCHANGED <<wr, mpa_tx>>
  <2>1. CASE card' = card
    BY <2>1, <1>8, <1>1 DEF txvars
  <2>2. CASE CardGrants
    <3>1. PICK n \in Batches : card' = [card EXCEPT !.free = @ \cup Granted(n), !.next = WrNext(@, n)]
      BY <2>2 DEF CardGrants
    <3>2. n \in Nat /\ card.next \in Nat
      BY BatchesAssumption, <1>0 DEF TxTypes, WrPort
    <3>3. Granted(n) \subseteq WrPort /\ WrNext(card.next, n) \in WrPort
      BY <3>2, PortClosed DEF Granted
    <3> QED BY <3>1, <3>3, <1>8, <1>0 DEF TxTypes, CardF
  <2> QED BY <2>1, <2>2, <1>8 DEF CardStep, IrqRead, IrqNote, CardSends, CardAnswers, txvars
<1> QED BY <1>1, <1>5, <1>6, <1>7, <1>8, StepKinds DEF allvars, txvars

\* A step keeps the types of the interrupts.
LEMMA IntTypesStep ==
  ASSUME TxSide, [SdioNext]_allvars
  PROVE  IntTypes'
<1>0. IntTypes /\ TxTypes
  BY DEF TxSide
<1>1. CASE UNCHANGED intvars
  BY <1>1, <1>0 DEF IntTypes, intvars
<1>2. CASE LoopStep
  BY <1>2, <1>0 DEF LoopStep, TakeInts, Status, StartTx, NoTx, Again, IntTypes, intvars
<1>3. CASE CardStep
  <2>1. CASE IrqRead
    BY <2>1, <1>0 DEF IrqRead, IntTypes, TxTypes
  <2> QED BY <1>3, <1>0, <2>1 DEF CardStep, IrqNote, CardGrants, CardSends, CardAnswers, IntTypes, Interrupts
<1> QED BY <1>1, <1>2, <1>3, StepKinds DEF allvars

\* TxSide is preserved.
LEMMA TxSideStep ==
  ASSUME TxSide, [SdioNext]_allvars
  PROVE  TxSide'
<1>1. load' = load /\ load \in Loads
  BY StepKinds DEF TxSide
<1>2. WmmTypes'
  <2>1. CASE wmm' = wmm
    <3>1. PktId' = PktId /\ Ids' = Ids
      BY <1>1 DEF PktId, Ids
    <3> QED BY <2>1, <3>1 DEF TxSide, WmmTypes
  <2> QED BY <2>1, <1>1, WmmTypesStep, StepKinds DEF allvars, wmmvars
<1> QED BY <1>1, <1>2, SndStep, LeftTypesStep, DoneStep, TxTypesStep, IntTypesStep DEF TxSide

\* TxSide holds initially.
LEMMA TxSideInit ==
  ASSUME SdioInit
  PROVE  TxSide
<1>1. /\ SdioTxInit /\ WmmInit /\ load \in Loads
      /\ raised = {} /\ irq = {} /\ ireg = {} /\ ints = {}
      /\ regs = [wr |-> {}, rd |-> [p \in RdPort |-> 0]]
  BY DEF SdioInit, SdioRxInit, SdioTxInit, WmmInit
<1>2. WmmTypes
  <2>1. <<>> \in Ids
    BY DEF Ids
  <2> QED BY <1>1, <2>1 DEF WmmInit, WmmTypes, WmmF, Highest
<1>3. SndTypes /\ PcTypes
  <2>1. 0 \in WrPort /\ 0 \in Prio
    BY SdioTxAssumption, WmmAssumption DEF WrPort, Prio
  <2>2. IdleSnd /\ pc = "loop" /\ sent = TRUE
    BY <1>1, IdleIs DEF WmmInit
  <2>3. sent \in BOOLEAN
    BY <1>1 DEF WmmInit
  <2> QED BY <2>1, <2>2, <2>3 DEF IdleSnd, SndTypes, PcTypes, Returns, Labels, Busy
<1>4. LeftTypes
  <2>1. load \in Load /\ Len(load.tx) \in Nat
    BY <1>1, LoadIs
  <2> QED BY <1>1, <2>1 DEF WmmInit, LeftTypes, LeftF, Load
<1>5. DoneTypes
  BY <1>1 DEF WmmInit, DoneTypes, Answers
<1>6. TxTypes
  <2>1. load.at \in WrPort
    BY <1>1, LoadIs, SdioTxAssumption DEF WrPort, Load
  <2>2. 0 \in WrPort /\ <<>> \in Ids
    BY SdioTxAssumption DEF WrPort, Ids
  <2> QED BY <1>1, <2>1, <2>2 DEF SdioTxInit, TxTypes, NoAggr, WrF, MpaF, CardF
<1>7. IntTypes
  BY <1>1 DEF IntTypes
<1> QED BY <1>1, <1>2, <1>3, <1>4, <1>5, <1>6, <1>7 DEF TxSide

--------------------------------------------------------------------------------
(* The write ports.                                                          *)

\* One port further on.
LEMMA NextPort ==
  ASSUME NEW s \in Nat, NEW n \in Nat
  PROVE  WrNext(WrNext(s, n), 1) = WrNext(s, n + 1)
<1> DEFINE e == MpEndPort
           q == (s + n) \div e
           r == (s + n) % e
<1>1. e \in Nat \ {0}
  BY SdioTxAssumption
<1>2. q \in Nat /\ r \in 0 .. e - 1 /\ s + n = e * q + r
  BY <1>1
<1>3. e * q \in Nat /\ e * (q + 1) = e * q + e
  BY <1>1, <1>2
<1>4. ASSUME NEW i \in Nat, NEW j \in 0 .. e - 1 PROVE (e * i + j) % e = j
  BY <1>1
<1> SUFFICES (r + 1) % e = (s + (n + 1)) % e
  BY DEF WrNext
<1> HIDE DEF e, q, r
<1>5. CASE r + 1 < e
  <2>1. s + (n + 1) = e * q + (r + 1)
    BY <1>1, <1>2, <1>3
  <2>2. r + 1 \in 0 .. e - 1 /\ (e * q + (r + 1)) % e = r + 1
    BY SMTT(30), <1>1, <1>2, <1>4, <1>5
  <2>3. (r + 1) % e = r + 1
    BY <1>1, <2>2
  <2> QED BY <2>1, <2>2, <2>3
<1>6. CASE ~(r + 1 < e)
  <2>1. r + 1 = e /\ s + (n + 1) = e * (q + 1) + 0
    BY <1>1, <1>2, <1>3, <1>6
  <2>2. 0 \in 0 .. e - 1 /\ q + 1 \in Nat
    BY <1>1, <1>2
  <2>3. (e * (q + 1) + 0) % e = 0
    BY <2>2, <1>4
  <2>4. e % e = 0
    BY <1>1
  <2> QED BY <2>1, <2>3, <2>4
<1> QED BY <1>5, <1>6

\* No port further on is the port.
LEMMA SamePort == ASSUME NEW p \in WrPort PROVE WrNext(p, 0) = p
  BY SdioTxAssumption DEF WrNext, WrPort

\* The ports of the aggregation buffer when a packet is put into it.
LEMMA HeldPut ==
  ASSUME TxTypes, NEW k \in PktId, NEW port \in WrPort, load' = load, mpa_tx' = TxPut(k, port),
         TxInProgress => port = WrNext(mpa_tx.start, Len(mpa_tx.pkts))
  PROVE  /\ HeldPorts' = HeldPorts \cup {port} /\ TxInProgress'
         /\ WrNext(mpa_tx'.start, Len(mpa_tx'.pkts)) = WrNext(port, 1)
<1> DEFINE n == Len(mpa_tx.pkts)
           s == mpa_tx'.start
<1>1. /\ mpa_tx'.pkts = Append(mpa_tx.pkts, k) /\ n \in Nat /\ Len(mpa_tx'.pkts) = n + 1
      /\ s = (IF TxInProgress THEN mpa_tx.start ELSE port) /\ s \in WrPort /\ s \in Nat
      /\ mpa_tx.pkts \in Ids
  BY PutIs DEF TxTypes, WrPort
<1>2. WrNext(s, n) = port
  <2>1. CASE TxInProgress
    BY <2>1, <1>1
  <2>2. CASE ~TxInProgress
    <3>1. n = 0 /\ s = port
      BY <2>2, <1>1 DEF TxInProgress
    <3> HIDE DEF n, s
    <3> QED BY <3>1, SamePort
  <2> QED BY <2>1, <2>2
<1>3. DOMAIN mpa_tx.pkts = 1 .. n /\ DOMAIN mpa_tx'.pkts = 1 .. n + 1
  BY <1>1 DEF Ids
<1>4. HeldPorts = {WrNext(s, i - 1) : i \in 1 .. n}
  <2>1. CASE TxInProgress
    BY <2>1, <1>1, <1>3 DEF HeldPorts
  <2>2. CASE ~TxInProgress
    <3>1. n = 0 /\ 1 .. n = {}
      BY <2>2, <1>1 DEF TxInProgress
    <3>2. HeldPorts = {WrNext(mpa_tx.start, i - 1) : i \in 1 .. n}
      BY <1>3 DEF HeldPorts
    <3> QED BY <3>1, <3>2
  <2> QED BY <2>1, <2>2
<1>5. HeldPorts' = {WrNext(s, i - 1) : i \in 1 .. n + 1}
  BY <1>3 DEF HeldPorts
<1>6. WrNext(s, n + 1) = WrNext(port, 1)
  BY <1>1, <1>2, NextPort
<1>7. TxInProgress'
  BY <1>1 DEF TxInProgress, Ids
<1>8. HeldPorts' = HeldPorts \cup {port}
  <2> HIDE DEF s, n
  <2>1. 1 .. n + 1 = (1 .. n) \cup {n + 1} /\ (n + 1) - 1 = n
    BY <1>1
  <2> QED BY <2>1, <1>2, <1>4, <1>5
<1> QED BY <1>1, <1>6, <1>7, <1>8

\* And when it is sent.
LEMMA HeldFlushed ==
  ASSUME NEW ok \in BOOLEAN, Flushed(ok)
  PROVE  /\ HeldPorts' = {} /\ ~TxInProgress' /\ card'.free = card.free \ HeldPorts
         /\ card'.next = card.next
         /\ card'.missed = (card.missed \/ ~(HeldPorts \subseteq card.free))
  BY DEF Flushed, HeldPorts, TxInProgress

\* The aggregation buffer holds ports if it is in use.
LEMMA HeldNone == ASSUME TxTypes PROVE HeldPorts = {} <=> ~TxInProgress
<1>1. mpa_tx.pkts \in Ids
  BY DEF TxTypes
<1>2. DOMAIN mpa_tx.pkts = {} <=> mpa_tx.pkts = <<>>
  <2>1. DOMAIN mpa_tx.pkts = 1 .. Len(mpa_tx.pkts) /\ Len(mpa_tx.pkts) \in Nat
    BY <1>1 DEF Ids
  <2>2. DOMAIN mpa_tx.pkts = {} <=> Len(mpa_tx.pkts) = 0
    BY <2>1
  <2>3. Len(mpa_tx.pkts) = 0 <=> mpa_tx.pkts = <<>>
    BY <1>1, EmptySeq DEF Ids
  <2> QED BY <2>2, <2>3
<1> QED BY <1>2 DEF HeldPorts, TxInProgress

\* The ports the driver believes in, and the run that is in the buffer.
Ports ==
  /\ ~card.missed
  /\ wr.map \cap HeldPorts = {} /\ (wr.map \cup HeldPorts) \subseteq card.free
  /\ (TxInProgress /\ (pc # "transfer" \/ snd.put)) =>
        wr.curr = WrNext(mpa_tx.start, Len(mpa_tx.pkts))

\* What is to be done before wlan_host_to_card_mp_aggr returns.
Transferring ==
  pc = "transfer" =>
    /\ "pre" \notin snd.todo /\ ("cur" \in snd.todo => "post" \notin snd.todo)
    /\ "aggr" \in snd.todo => TxInProgress
    /\ (~snd.put /\ TxInProgress) => "aggr" \in snd.todo
    /\ ("cur" \in snd.todo \/ "post" \in snd.todo) =>
         /\ ~snd.put /\ snd.port \in card.free /\ snd.port \notin wr.map
         /\ snd.port \notin HeldPorts /\ wr.curr = WrNext(snd.port, 1)

Pending == raised \cup irq \cup ireg \cup ints
\* A download interrupt that is on its way: the driver has no port, and the
\* register will show, or has shown, what the card has granted.
Granting ==
  /\ ints # {} => pc = "status"
  /\ "DN_LD" \in Pending =>
       wr.map = {} /\ ~TxInProgress /\ card.free # {} /\ (pc = "transfer" => snd.todo = {})
  /\ "DN_LD" \in raised => "DN_LD" \notin irq \cup ireg \cup ints
  /\ "DN_LD" \in irq => "DN_LD" \notin ireg \cup ints
  /\ "DN_LD" \in ireg => "DN_LD" \notin ints
  /\ "DN_LD" \in irq \cup ireg \cup ints => regs.wr = card.free

PortInv == Ports /\ Transferring /\ Granting

\* PortInv holds initially.
LEMMA PortInvInit == ASSUME SdioInit PROVE PortInv
<1>1. /\ SdioTxInit /\ pc = "loop" /\ snd.put = FALSE
      /\ raised = {} /\ irq = {} /\ ireg = {} /\ ints = {}
  BY DEF SdioInit, SdioRxInit, SdioTxInit, WmmInit, Idle
<1>2. HeldPorts = {} /\ ~TxInProgress /\ wr.map = {} /\ ~card.missed /\ card.free = {}
  BY <1>1 DEF SdioTxInit, HeldPorts, TxInProgress, NoAggr
<1> QED BY <1>1, <1>2 DEF PortInv, Ports, Transferring, Granting, Pending

\* Taking a port, with the decision of wlan_host_to_card_mp_aggr.
LEMMA GetPortInv ==
  ASSUME TxSide, PortInv, GetPort, UNCHANGED intvars
  PROVE  PortInv'
<1>0. /\ TxTypes /\ SndTypes /\ PcTypes /\ load' = load
  BY DEF TxSide, GetPort
<1> DEFINE p == wr.curr
           plan == Plan
<1>1. /\ pc = "getport" /\ p \in wr.map /\ pc' = "transfer" /\ card' = card
      /\ wr'.map = wr.map \ {p} /\ wr'.curr = WrNext(p, 1)
      /\ snd'.port = p /\ snd'.todo = plan \ {"pre"} /\ snd'.put = ("pre" \in plan)
      /\ mpa_tx' = IF "pre" \in plan THEN TxPut(snd.pkt, p) ELSE mpa_tx
  BY <1>0, GetPortIs
<1>2. p \in WrPort /\ snd.pkt \in PktId /\ p \notin HeldPorts /\ p \in card.free
      /\ (TxInProgress => p = WrNext(mpa_tx.start, Len(mpa_tx.pkts)))
  BY <1>0, <1>1 DEF TxTypes, PcTypes, Busy, PortInv, Ports
<1>p. /\ "pre" \in plan => "cur" \notin plan /\ "post" \notin plan
      /\ "cur" \in plan => "post" \notin plan
      /\ "aggr" \in plan => TxInProgress \/ "pre" \in plan
      /\ ("pre" \notin plan /\ TxInProgress) => "aggr" \in plan
  BY PlanIs
<1> HIDE DEF p, plan
<1>3. /\ "pre" \in plan => /\ HeldPorts' = HeldPorts \cup {p} /\ TxInProgress'
                           /\ WrNext(mpa_tx'.start, Len(mpa_tx'.pkts)) = WrNext(p, 1)
      /\ "pre" \notin plan => HeldPorts' = HeldPorts /\ TxInProgress' = TxInProgress
  <2>1. CASE "pre" \in plan
    BY <2>1, <1>0, <1>1, <1>2, HeldPut
  <2>2. CASE "pre" \notin plan
    BY <2>2, <1>1 DEF HeldPorts, TxInProgress
  <2> QED BY <2>1, <2>2
<1>4. Ports'
  <2>1. ~card'.missed /\ (TxInProgress' /\ (pc' # "transfer" \/ snd'.put)) =>
                            wr'.curr = WrNext(mpa_tx'.start, Len(mpa_tx'.pkts))
    BY <1>1, <1>3 DEF PortInv, Ports
  <2>2. ~card'.missed
    BY <1>1 DEF PortInv, Ports
  <2>3. wr'.map \cap HeldPorts' = {} /\ (wr'.map \cup HeldPorts') \subseteq card'.free
    BY <1>1, <1>2, <1>3 DEF PortInv, Ports
  <2> QED BY <2>1, <2>2, <2>3 DEF Ports
<1>5. Transferring'
  BY <1>1, <1>2, <1>3, <1>p DEF Transferring
<1>6. Granting'
  <2>1. "DN_LD" \notin Pending
    BY <1>1 DEF PortInv, Granting
  <2>2. ints = {}
    BY <1>1 DEF PortInv, Granting
  <2> QED BY <2>1, <2>2 DEF Granting, Pending, intvars
<1> QED BY <1>4, <1>5, <1>6 DEF PortInv

\* Sending the aggregation buffer, alone or before the next step.
LEMMA FlushInv ==
  ASSUME TxSide, PortInv, NEW ok \in BOOLEAN, Flushed(ok), UNCHANGED <<wr, intvars>>, TxInProgress,
         \/ /\ pc = "transfer" /\ pc' = pc /\ snd'.port = snd.port /\ snd'.put = snd.put
            /\ snd'.todo = snd.todo \ {"aggr"}
         \/ pc = "again" /\ pc' = "loop"
  PROVE  PortInv'
<1>1. /\ HeldPorts' = {} /\ ~TxInProgress' /\ card'.free = card.free \ HeldPorts
      /\ card'.missed = (card.missed \/ ~(HeldPorts \subseteq card.free))
  BY HeldFlushed
<1>2. Ports'
  BY <1>1 DEF PortInv, Ports
<1>3. Transferring'
  BY <1>1 DEF PortInv, Transferring
<1>4. "DN_LD" \notin Pending /\ ints = {} 
  BY DEF PortInv, Granting
<1>5. Granting'
  BY <1>4 DEF Granting, Pending, intvars
<1> QED BY <1>2, <1>3, <1>5 DEF PortInv

\* Sending one packet alone.
LEMMA CurInv ==
  ASSUME TxSide, PortInv, TransferCur, UNCHANGED intvars
  PROVE  PortInv'
<1>0. /\ TxTypes /\ SndTypes /\ LeftTypes /\ PcTypes
  BY DEF TxSide
<1>1. pc = "transfer" /\ snd.pkt \in PktId
  BY <1>0 DEF TransferCur, PcTypes, Busy
<1>2. /\ "cur" \in snd.todo /\ "aggr" \notin snd.todo /\ UNCHANGED <<pc, wr, mpa_tx>>
      /\ snd'.port = snd.port /\ snd'.put = snd.put /\ snd'.todo = snd.todo \ {"cur"}
  BY <1>0, <1>1, TransferCurIs
<1>3. PICK ok \in BOOLEAN : Written(ok)
  BY <1>0, <1>1, TransferCurIs
<1>4. /\ card'.free = card.free \ {snd.port} /\ HeldPorts' = HeldPorts /\ TxInProgress' = TxInProgress
      /\ card'.missed = (card.missed \/ ~({snd.port} \subseteq card.free))
  BY <1>2, <1>3 DEF Written, HeldPorts, TxInProgress
<1>5. "post" \notin snd.todo /\ "pre" \notin snd.todo /\ ~snd.put /\ snd.port \in card.free
      /\ snd.port \notin wr.map /\ snd.port \notin HeldPorts /\ ~TxInProgress
  BY <1>1, <1>2 DEF PortInv, Transferring
<1>6. Ports'
  BY <1>2, <1>4, <1>5 DEF PortInv, Ports
<1>7. Transferring'
  BY <1>2, <1>4, <1>5 DEF Transferring
<1>8. "DN_LD" \notin Pending /\ ints = {}
  BY <1>1, <1>2 DEF PortInv, Granting
<1>9. Granting'
  BY <1>8 DEF Granting, Pending, intvars
<1> QED BY <1>6, <1>7, <1>9 DEF PortInv

\* The end of wlan_host_to_card_mp_aggr.
LEMMA TransferredInv ==
  ASSUME TxSide, PortInv, Transferred, UNCHANGED intvars
  PROVE  PortInv'
<1>0. /\ TxTypes /\ SndTypes /\ LeftTypes /\ PcTypes
  BY DEF TxSide
<1>1. /\ pc = "transfer" /\ snd.todo \subseteq {"post"} /\ pc' = "settle"
      /\ UNCHANGED <<load, wmm, left, wr, card>>
      /\ mpa_tx' = (IF "post" \in snd.todo THEN TxPut(snd.pkt, snd.port) ELSE mpa_tx)
  BY <1>0, TransferredIs
<1>2. snd.pkt \in PktId /\ snd.port \in WrPort
  BY <1>0, <1>1 DEF PcTypes, Busy, SndTypes
<1>3. ints = {} /\ Transferring'
  BY <1>1 DEF PortInv, Granting, Transferring
<1>4. CASE "post" \in snd.todo
  <2>1. /\ ~snd.put /\ ~TxInProgress /\ snd.port \in card.free /\ snd.port \notin wr.map
        /\ wr.curr = WrNext(snd.port, 1) /\ HeldPorts = {}
    BY <1>0, <1>1, <1>4, HeldNone DEF PortInv, Transferring
  <2>2. /\ HeldPorts' = HeldPorts \cup {snd.port} /\ TxInProgress'
        /\ WrNext(mpa_tx'.start, Len(mpa_tx'.pkts)) = WrNext(snd.port, 1)
    BY <1>0, <1>1, <1>2, <1>4, <2>1, HeldPut
  <2>3. Ports'
    BY <1>1, <2>1, <2>2 DEF PortInv, Ports
  <2>4. "DN_LD" \notin Pending
    BY <1>1, <1>4 DEF PortInv, Granting
  <2>5. Granting'
    BY <1>3, <2>4 DEF Granting, Pending, intvars
  <2> QED BY <1>3, <2>3, <2>5 DEF PortInv
<1>5. CASE "post" \notin snd.todo
  <2>1. HeldPorts' = HeldPorts /\ TxInProgress' = TxInProgress /\ mpa_tx' = mpa_tx
    BY <1>1, <1>5 DEF HeldPorts, TxInProgress
  <2>2. TxInProgress => snd.put
    BY <1>1 DEF PortInv, Transferring
  <2>3. Ports'
    BY <1>1, <2>1, <2>2 DEF PortInv, Ports
  <2>5. Granting'
    BY <1>1, <1>3, <2>1 DEF PortInv, Granting, Pending, intvars
  <2> QED BY <1>3, <2>3, <2>5 DEF PortInv
<1> QED BY <1>4, <1>5

\* The steps of the card and of the interrupt handler.
LEMMA CardInv ==
  ASSUME TxSide, PortInv, CardStep, UNCHANGED <<snd, pc, wr, mpa_tx>>
  PROVE  PortInv'
<1>0. TxTypes /\ IntTypes
  BY DEF TxSide
<1>1. HeldPorts' = HeldPorts /\ TxInProgress' = TxInProgress
  BY DEF HeldPorts, TxInProgress
<1>2. CASE IrqRead
  <2>1. card' = card /\ regs'.wr = card.free /\ irq' = raised /\ raised' = {} /\ irq = {}
        /\ UNCHANGED <<ireg, ints>>
    BY <1>2 DEF IrqRead, txvars
  <2>2. Granting'
    BY <2>1, <1>1 DEF PortInv, Granting, Pending
  <2> QED BY <2>1, <2>2, <1>1 DEF PortInv, Ports, Transferring
<1>3. CASE IrqNote
  <2>1. card' = card /\ regs' = regs /\ raised' = raised /\ ireg' = ireg \cup irq /\ irq' = {}
        /\ UNCHANGED ints
    BY <1>3 DEF IrqNote, txvars
  <2>2. Granting'
    BY <2>1, <1>1 DEF PortInv, Granting, Pending
  <2> QED BY <2>1, <2>2, <1>1 DEF PortInv, Ports, Transferring
<1>4. CASE CardSends \/ CardAnswers
  <2>1. PICK x \in {"UP_LD", "CMD"} : raised' = raised \cup {x}
    BY <1>4 DEF CardSends, CardAnswers
  <2>2. card' = card /\ UNCHANGED <<regs, irq, ireg, ints>>
    BY <1>4 DEF CardSends, CardAnswers, txvars
  <2>3. "DN_LD" \in raised' <=> "DN_LD" \in raised
    BY <2>1
  <2>4. "DN_LD" \in Pending' <=> "DN_LD" \in Pending
    BY <2>2, <2>3 DEF Pending
  <2>5. Granting'
    BY <2>2, <2>3, <2>4, <1>1 DEF PortInv, Granting
  <2> QED BY <2>2, <2>5, <1>1 DEF PortInv, Ports, Transferring
<1>5. CASE CardGrants
  <2>1. PICK n \in Batches : card' = [card EXCEPT !.free = @ \cup Granted(n), !.next = WrNext(@, n)]
    BY <1>5 DEF CardGrants
  <2>2. card.free = {} /\ raised' = raised \cup {"DN_LD"} /\ UNCHANGED <<regs, irq, ireg, ints>>
    BY <1>5 DEF CardGrants
  <2>3. card'.free = Granted(n) /\ card'.missed = card.missed
    BY <2>1, <2>2, <1>0 DEF TxTypes, CardF
  <2>4. Granted(n) # {}
    <3>1. n \in Nat \ {0}
      BY BatchesAssumption
    <3>2. 0 \in 0 .. n - 1
      BY <3>1
    <3> QED BY <3>2 DEF Granted
  <2>5. wr.map = {} /\ HeldPorts = {} /\ ~TxInProgress
    BY <2>2, <1>0, HeldNone DEF PortInv, Ports
  <2>6. pc = "transfer" => snd.todo = {}
    <3>1. pc = "transfer" => snd.todo \subseteq TxSteps /\ "pre" \notin snd.todo /\ "aggr" \notin snd.todo
                             /\ "cur" \notin snd.todo /\ "post" \notin snd.todo
      BY <2>2, <2>5 DEF PortInv, Transferring, TxSide, SndTypes
    <3> QED BY <3>1 DEF TxSteps
  <2>7. "DN_LD" \notin Pending
    BY <2>2 DEF PortInv, Granting
  <2>8. Granting'
    BY <2>2, <2>3, <2>4, <2>5, <2>6, <2>7, <1>1 DEF PortInv, Granting, Pending
  <2>9. Ports'
    BY <2>3, <2>5, <1>1 DEF PortInv, Ports
  <2>10. Transferring'
    BY <2>5, <2>6, <1>1 DEF Transferring
  <2> QED BY <2>8, <2>9, <2>10 DEF PortInv
<1> QED BY <1>2, <1>3, <1>4, <1>5 DEF CardStep

\* The loop of the main process.
LEMMA LoopInv ==
  ASSUME TxSide, PortInv, LoopStep, UNCHANGED <<snd, mpa_tx, card>>
  PROVE  PortInv'
<1>0. TxTypes /\ IntTypes
  BY DEF TxSide
<1>1. HeldPorts' = HeldPorts /\ TxInProgress' = TxInProgress
  BY DEF HeldPorts, TxInProgress
<1>p. pc # "transfer" /\ pc' # "transfer"
  BY LoopIs DEF Busy
<1>2. CASE TakeInts
  <2>1. /\ wr' = wr /\ ints' = ireg /\ ireg' = {} /\ pc' = "status" /\ pc = "loop"
        /\ UNCHANGED <<raised, regs, irq>>
    BY <1>2 DEF TakeInts, txvars
  <2>2. ints = {}
    BY <2>1 DEF PortInv, Granting
  <2>3. Granting'
    BY <2>1, <2>2, <1>1 DEF PortInv, Granting, Pending
  <2> QED BY <2>1, <2>3, <1>1 DEF PortInv, Ports, Transferring
<1>3. CASE Status
  <2>1. /\ ints' = {} /\ UNCHANGED <<raised, regs, irq, ireg>>
    BY <1>3 DEF Status
  <2>2. CASE "DN_LD" \in ints
    <3>1. wr'.map = regs.wr /\ wr'.curr = wr.curr
      BY <1>3, <2>2, <1>0 DEF Status, TxTypes, WrF
    <3>2. regs.wr = card.free /\ ~TxInProgress /\ HeldPorts = {}
      BY <2>2, <1>0, HeldNone DEF PortInv, Granting, Pending
    <3>3. Ports'
      BY <3>1, <3>2, <1>1 DEF PortInv, Ports
    <3>4. "DN_LD" \notin Pending'
      BY <2>1, <2>2 DEF PortInv, Granting, Pending
    <3>5. Granting'
      BY <2>1, <3>4 DEF Granting, Pending
    <3> QED BY <3>3, <3>5, <1>p DEF PortInv, Transferring
  <2>3. CASE "DN_LD" \notin ints
    <3>1. wr' = wr
      BY <1>3, <2>3 DEF Status
    <3>2. Granting'
      BY <2>1, <2>3, <3>1, <1>1, <1>p DEF PortInv, Granting, Pending
    <3> QED BY <3>1, <3>2, <1>1, <1>p DEF PortInv, Ports, Transferring
  <2> QED BY <2>2, <2>3
<1>4. CASE StartTx \/ NoTx \/ Again
  <2>1. UNCHANGED <<wr, raised, regs, irq, ireg, ints>> /\ pc # "status"
    BY <1>4 DEF StartTx, NoTx, Again, txvars, intvars
  <2>2. Granting'
    BY <2>1, <1>1, <1>p DEF PortInv, Granting, Pending
  <2> QED BY <2>1, <2>2, <1>1, <1>p DEF PortInv, Ports, Transferring
<1> QED BY <1>2, <1>3, <1>4 DEF LoopStep

\* Steps that leave the ports alone.
LEMMA PortInvSame ==
  ASSUME PortInv, UNCHANGED <<wr, mpa_tx, card, intvars>>, pc # "status" \/ pc' = pc,
         \/ pc' # "transfer" /\ pc # "transfer"
         \/ pc' = pc /\ snd'.put = snd.put /\ snd'.todo = snd.todo /\ snd'.port = snd.port
  PROVE  PortInv'
<1>1. HeldPorts' = HeldPorts /\ TxInProgress' = TxInProgress
  BY DEF HeldPorts, TxInProgress
<1>2. Ports'
  BY <1>1 DEF PortInv, Ports
<1>3. Transferring'
  BY <1>1 DEF PortInv, Transferring
<1>4. Granting'
  BY <1>1 DEF PortInv, Granting, Pending, intvars
<1> QED BY <1>2, <1>3, <1>4 DEF PortInv

\* PortInv is preserved.
LEMMA PortInvStep ==
  ASSUME TxSide, PortInv, [SdioNext]_allvars
  PROVE  PortInv'
<1>0. /\ TxTypes /\ SndTypes /\ LeftTypes /\ PcTypes /\ WmmTypes /\ load' = load
  BY StepKinds DEF TxSide
<1>1. CASE WmmStep /\ UNCHANGED <<txvars, intvars>>
  <2>0. UNCHANGED <<wr, mpa_tx, card>>
    BY <1>1 DEF txvars
  <2>1. CASE AddBuf \/ DropTxPkt \/ UpdateTxPause
    BY <2>0, <2>1, <1>1, PortInvSame DEF AddBuf, DropTxPkt, UpdateTxPause
  <2>2. CASE DeletePeer
    <3>1. pc' = pc /\ snd'.put = snd.put /\ snd'.todo = snd.todo /\ snd'.port = snd.port
      BY <2>2, <1>0 DEF DeletePeer, SndTypes, SndF
    <3> QED BY <3>1, <2>0, <1>1, PortInvSame
  <2>3. CASE PickNone \/ Pick \/ SettleBack \/ Settle
    <3>1. pc \notin {"status", "transfer"} /\ pc' # "transfer"
      BY <2>3 DEF PickNone, Pick, SettleBack, Settle
    <3> QED BY <3>1, <2>0, <1>1, PortInvSame
  <2> QED BY <2>1, <2>2, <2>3, <1>1 DEF WmmStep
<1>2. CASE PortStep /\ UNCHANGED intvars
  <2>1. CASE GetPortFails
    <3>1. pc \notin {"status", "transfer"} /\ pc' # "transfer" /\ UNCHANGED <<wr, mpa_tx, card>>
      BY <2>1 DEF GetPortFails, txvars
    <3> QED BY <3>1, <1>2, PortInvSame
  <2>2. CASE GetPort
    BY <2>2, <1>2, GetPortInv
  <2>3. CASE TransferAggr
    <3>1. /\ pc = "transfer" /\ "aggr" \in snd.todo /\ UNCHANGED <<pc, wr>>
          /\ snd'.port = snd.port /\ snd'.put = snd.put /\ snd'.todo = snd.todo \ {"aggr"}
      BY <2>3, <1>0, TransferAggrIs
    <3>2. PICK ok \in BOOLEAN : Flushed(ok)
      BY <2>3, <1>0, TransferAggrIs
    <3>3. TxInProgress
      BY <3>1 DEF PortInv, Transferring
    <3> QED BY <3>1, <3>2, <3>3, <1>2, FlushInv
  <2>4. CASE TransferCur
    BY <2>4, <1>2, CurInv
  <2>5. CASE Transferred
    BY <2>5, <1>2, TransferredInv
  <2> QED BY <1>2, <2>1, <2>2, <2>3, <2>4, <2>5 DEF PortStep
<1>3. CASE LoopStep /\ UNCHANGED <<snd, mpa_tx, card>>
  BY <1>3, LoopInv
<1>4. CASE YieldToCmd /\ UNCHANGED <<wr, snd, intvars>>
  <2>1. pc = "again" /\ pc' = "loop"
    BY <1>4 DEF YieldToCmd
  <2>2. CASE TxInProgress
    <3>1. PICK ok \in BOOLEAN : Flushed(ok)
      BY <2>2, <1>4, <1>0, YieldIs
    <3> QED BY <2>1, <2>2, <3>1, <1>4, FlushInv
  <2>3. CASE ~TxInProgress
    <3>1. UNCHANGED <<mpa_tx, card>>
      BY <2>3, <1>4, <1>0, YieldIs
    <3> QED BY <2>1, <3>1, <1>4, PortInvSame
  <2> QED BY <2>2, <2>3
<1>5. CASE RxNext(regs.rd) /\ UNCHANGED <<snd, txvars, intvars>>
  <2>1. pc \notin {"status", "transfer"} /\ pc' # "transfer"
    <3>1. pc \notin Busy /\ pc' \in Labels \ Busy
      BY <1>5, <1>0, RxPcIs DEF PcTypes
    <3>2. pc \in {"upload", "read"}
      BY <1>5 DEF RxNext, RxGet, RxGetNoBuf, RxGetNone, ReadAggr, ReadAggrFails, ReadAggrFailsIgnored,
                  ReadCur, ReadCurFails, ReadAndDrop, RxEnd
    <3> QED BY <3>1, <3>2 DEF Busy
  <2> QED BY <2>1, <1>5, PortInvSame DEF txvars
<1>6. CASE CardStep /\ UNCHANGED <<snd, pc, wr, mpa_tx>>
  BY <1>6, CardInv
<1>7. CASE UNCHANGED allvars
  BY <1>7, PortInvSame DEF allvars, wmmvars, txvars
<1> QED BY <1>1, <1>2, <1>3, <1>4, <1>5, <1>6, <1>7, StepKinds

\* The write ports in the bitmap of the driver, and those of the packets in its
\* aggregation buffer, have buffers of the card behind them, and no write meets a port
\* without one: the bitmaps that wlan_sdio_interrupt reads and
\* wlan_process_sdio_int_status takes over later are never out of date in a way that
\* wlan_get_wr_port_data could see (mlan_sdio.c).
THEOREM PortsHaveBuffers == SdioSpec => []WritePortsAgree
<1>1. SdioInit => TxSide /\ PortInv
  BY TxSideInit, PortInvInit
<1>2. (TxSide /\ PortInv) /\ [SdioNext]_allvars => (TxSide /\ PortInv)'
  BY TxSideStep, PortInvStep
<1>3. PortInv => WritePortsAgree
  BY DEF PortInv, Ports, WritePortsAgree
<1> QED BY <1>1, <1>2, <1>3, PTL DEF SdioSpec

--------------------------------------------------------------------------------
(* Sequences of packets.                                                     *)

Sorted(q) == \A i, j \in DOMAIN q : i < j => q[i] < q[j]
InOrder(w) == \A i, j \in DOMAIN w : (i < j /\ ListOf(w[i]) = ListOf(w[j])) => w[i] < w[j]

\* What is known of a sequence of packets.
LEMMA IdsIs ==
  ASSUME NEW q \in Ids
  PROVE  /\ DOMAIN q = 1 .. Len(q) /\ Len(q) \in Nat /\ ToSet(q) \subseteq PktId
         /\ \A i \in DOMAIN q : q[i] \in PktId /\ q[i] \in Nat
         /\ PktId \subseteq Nat
<1>1. PktId \subseteq Nat
  BY DEF PktId
<1>2. DOMAIN q = 1 .. Len(q) /\ Len(q) \in Nat /\ \A i \in DOMAIN q : q[i] \in PktId
  BY DEF Ids
<1> QED BY <1>1, <1>2 DEF ToSet

\* A packet behind the others.
LEMMA BehindIs ==
  ASSUME NEW q \in Ids, NEW k \in PktId
  PROVE  /\ Append(q, k) \in Ids /\ ToSet(Append(q, k)) = ToSet(q) \cup {k}
         /\ (Sorted(q) /\ \A j \in ToSet(q) : j < k) => Sorted(Append(q, k))
         /\ (InOrder(q) /\ \A j \in ToSet(q) : ListOf(j) = ListOf(k) => j < k)
              => InOrder(Append(q, k))
<1> DEFINE r == Append(q, k)
           n == Len(q)
<1>1. n \in Nat /\ DOMAIN q = 1 .. n /\ \A i \in 1 .. n : q[i] \in ToSet(q)
  BY IdsIs DEF ToSet
<1>2. r \in Ids /\ DOMAIN r = 1 .. n + 1 /\ r[n + 1] = k /\ \A i \in 1 .. n : r[i] = q[i]
  BY DEF Ids
<1> HIDE DEF r, n
<1>3. ToSet(r) = ToSet(q) \cup {k}
  <2>1. 1 .. n + 1 = (1 .. n) \cup {n + 1}
    BY <1>1
  <2>2. ToSet(r) \subseteq ToSet(q) \cup {k}
    BY <2>1, <1>1, <1>2 DEF ToSet
  <2>3. ToSet(q) \subseteq ToSet(r) /\ k \in ToSet(r)
    BY <2>1, <1>1, <1>2 DEF ToSet
  <2> QED BY <2>2, <2>3
<1>4. ASSUME Sorted(q), \A j \in ToSet(q) : j < k PROVE Sorted(r)
  <2> SUFFICES ASSUME NEW i \in 1 .. n + 1, NEW j \in 1 .. n + 1, i < j PROVE r[i] < r[j]
    BY <1>2 DEF Sorted
  <2>1. i \in 1 .. n /\ (j \in 1 .. n \/ j = n + 1)
    BY <1>1
  <2> QED BY <2>1, <1>1, <1>2, <1>4 DEF Sorted
<1>5. ASSUME InOrder(q), \A j \in ToSet(q) : ListOf(j) = ListOf(k) => j < k PROVE InOrder(r)
  <2> SUFFICES ASSUME NEW i \in 1 .. n + 1, NEW j \in 1 .. n + 1, i < j, ListOf(r[i]) = ListOf(r[j])
               PROVE  r[i] < r[j]
    BY <1>2 DEF InOrder
  <2>1. i \in 1 .. n /\ (j \in 1 .. n \/ j = n + 1)
    BY <1>1
  <2> QED BY <2>1, <1>1, <1>2, <1>5 DEF InOrder
<1> QED BY <1>2, <1>3, <1>4, <1>5 DEF r

\* What is left when the first packet is taken.
LEMMA FirstIs ==
  ASSUME NEW q \in Ids, q # <<>>, Sorted(q)
  PROVE  /\ Head(q) \in ToSet(q) /\ Tail(q) \in Ids /\ ToSet(Tail(q)) = ToSet(q) \ {Head(q)}
         /\ Sorted(Tail(q)) /\ \A j \in ToSet(Tail(q)) : Head(q) < j
<1> DEFINE r == Tail(q)
           n == Len(q)
           h == Head(q)
<1>1. n \in Nat /\ n > 0 /\ DOMAIN q = 1 .. n /\ h = q[1]
  <2>1. q \in Seq(PktId)
    BY DEF Ids
  <2>2. Len(q) > 0 /\ Head(q) = q[1]
    BY <2>1
  <2> QED BY <2>2, IdsIs
<1>2. r \in Ids /\ DOMAIN r = 1 .. n - 1 /\ \A i \in 1 .. n - 1 : r[i] = q[i + 1]
  BY DEF Ids
<1>n. \A i \in DOMAIN q : q[i] \in Nat
  BY IdsIs
<1> HIDE DEF r, n, h
<1>3. 1 .. n = {1} \cup {i + 1 : i \in 1 .. n - 1}
  <2>1. 1 .. n \subseteq {1} \cup {i + 1 : i \in 1 .. n - 1}
    <3> SUFFICES ASSUME NEW x \in 1 .. n, x # 1 PROVE x \in {i + 1 : i \in 1 .. n - 1}
      OBVIOUS
    <3>1. x - 1 \in 1 .. n - 1 /\ x = (x - 1) + 1
      BY <1>1
    <3> QED BY <3>1
  <2> QED BY <2>1, <1>1
<1>4. \A j \in ToSet(r) : h < j
  <2> SUFFICES ASSUME NEW i \in 1 .. n - 1 PROVE h < r[i]
    BY <1>2 DEF ToSet
  <2>1. 1 \in 1 .. n /\ i + 1 \in 1 .. n /\ 1 < i + 1
    BY <1>1
  <2> QED BY <2>1, <1>1, <1>2 DEF Sorted
<1>5. ToSet(q) = {h} \cup ToSet(r)
  <2>1. ToSet(q) \subseteq {h} \cup ToSet(r)
    <3> SUFFICES ASSUME NEW i \in 1 .. n PROVE q[i] \in {h} \cup ToSet(r)
      BY <1>1 DEF ToSet
    <3>1. i = 1 \/ \E j \in 1 .. n - 1 : i = j + 1
      BY <1>3
    <3> QED BY <3>1, <1>1, <1>2 DEF ToSet
  <2>2. h \in ToSet(q)
    BY <1>1 DEF ToSet
  <2>3. ToSet(r) \subseteq ToSet(q)
    <3> SUFFICES ASSUME NEW i \in 1 .. n - 1 PROVE r[i] \in ToSet(q)
      BY <1>2 DEF ToSet
    <3>1. i + 1 \in 1 .. n
      BY <1>1
    <3> QED BY <3>1, <1>1, <1>2 DEF ToSet
  <2> QED BY <2>1, <2>2, <2>3
<1>6. h \notin ToSet(r) /\ h \in ToSet(q)
  <2>1. h \in Nat
    BY <1>1, <1>n
  <2> QED BY <2>1, <1>4, <1>5
<1>7. Sorted(r)
  <2> SUFFICES ASSUME NEW i \in 1 .. n - 1, NEW j \in 1 .. n - 1, i < j PROVE r[i] < r[j]
    BY <1>2 DEF Sorted
  <2>1. i + 1 \in 1 .. n /\ j + 1 \in 1 .. n /\ i + 1 < j + 1
    BY <1>1
  <2> QED BY <2>1, <1>1, <1>2 DEF Sorted
<1> QED BY <1>2, <1>4, <1>5, <1>6, <1>7 DEF r, h

\* A packet before the others.
LEMMA AheadIs ==
  ASSUME NEW q \in Ids, NEW k \in PktId
  PROVE  /\ <<k>> \o q \in Ids /\ ToSet(<<k>> \o q) = ToSet(q) \cup {k}
         /\ (Sorted(q) /\ \A j \in ToSet(q) : k < j) => Sorted(<<k>> \o q)
<1> DEFINE r == <<k>> \o q
           n == Len(q)
<1>1. n \in Nat /\ DOMAIN q = 1 .. n /\ \A i \in 1 .. n : q[i] \in ToSet(q)
  BY IdsIs DEF ToSet
<1>2. r \in Ids /\ DOMAIN r = 1 .. n + 1 /\ r[1] = k /\ \A i \in 2 .. n + 1 : r[i] = q[i - 1]
  <2>1. q \in Seq(PktId) /\ <<k>> \in Seq(PktId)
    BY DEF Ids
  <2>2. r \in Seq(PktId) /\ Len(r) = n + 1
    BY <2>1
  <2> QED BY <2>1, <2>2 DEF Ids
<1> HIDE DEF r, n
<1>3. \A i \in 1 .. n + 1 : i = 1 \/ (i \in 2 .. n + 1 /\ i - 1 \in 1 .. n)
  BY <1>1
<1>4. ToSet(r) = ToSet(q) \cup {k}
  <2>1. ToSet(r) \subseteq ToSet(q) \cup {k}
    <3> SUFFICES ASSUME NEW i \in 1 .. n + 1 PROVE r[i] \in ToSet(q) \cup {k}
      BY <1>2 DEF ToSet
    <3> QED BY <1>1, <1>2, <1>3
  <2>2. k \in ToSet(r)
    BY <1>1, <1>2 DEF ToSet
  <2>3. ASSUME NEW i \in 1 .. n PROVE q[i] \in ToSet(r)
    <3>1. i + 1 \in 2 .. n + 1 /\ i + 1 \in 1 .. n + 1 /\ (i + 1) - 1 = i
      BY <1>1
    <3>2. r[i + 1] = q[i]
      BY <3>1, <1>2
    <3> QED BY <3>1, <3>2, <1>2 DEF ToSet
  <2>4. ToSet(q) \subseteq ToSet(r)
    BY <2>3, <1>1 DEF ToSet
  <2> QED BY <2>1, <2>2, <2>4
<1>5. ASSUME Sorted(q), \A j \in ToSet(q) : k < j PROVE Sorted(r)
  <2> SUFFICES ASSUME NEW i \in 1 .. n + 1, NEW j \in 1 .. n + 1, i < j PROVE r[i] < r[j]
    BY <1>2 DEF Sorted
  <2>1. j \in 2 .. n + 1 /\ j - 1 \in 1 .. n
    BY <1>1
  <2>2. CASE i = 1
    BY <2>1, <2>2, <1>1, <1>2, <1>5
  <2>3. CASE i # 1
    <3>1. i \in 2 .. n + 1 /\ i - 1 \in 1 .. n /\ i - 1 < j - 1
      BY <2>3, <1>1
    <3> QED BY <2>1, <3>1, <1>1, <1>2, <1>5 DEF Sorted
  <2> QED BY <2>2, <2>3
<1> QED BY <1>2, <1>4, <1>5 DEF r

\* The empty sequence.
LEMMA NoneIs == <<>> \in Ids /\ ToSet(<<>>) = {} /\ Sorted(<<>>) /\ InOrder(<<>>)
  BY DEF Ids, ToSet, Sorted, InOrder

\* The front of what the card got and what the buffer holds.
LEMMA FrontInOrder ==
  ASSUME NEW v \in Ids, NEW w \in Ids, InOrder(v \o w)
  PROVE  InOrder(v)
<1>1. v \in Seq(PktId) /\ w \in Seq(PktId)
  BY DEF Ids
<1>2. \A i \in DOMAIN v : i \in DOMAIN (v \o w) /\ (v \o w)[i] = v[i]
  BY <1>1
<1> QED BY <1>2 DEF InOrder

\* Two sequences of packets, one behind the other.
LEMMA JoinIs ==
  ASSUME NEW v \in Ids, NEW w \in Ids
  PROVE  v \o w \in Ids /\ ToSet(v \o w) = ToSet(v) \cup ToSet(w) /\ v \o <<>> = v
<1>1. v \in Seq(PktId) /\ w \in Seq(PktId)
  BY DEF Ids
<1>2. v \o w \in Ids /\ v \o <<>> = v
  BY <1>1 DEF Ids
<1>3. ToSet(v) \subseteq ToSet(v \o w)
  <2>1. \A i \in DOMAIN v : i \in DOMAIN (v \o w) /\ (v \o w)[i] = v[i]
    BY <1>1
  <2> QED BY <2>1 DEF ToSet
<1>4. ToSet(w) \subseteq ToSet(v \o w)
  <2>1. ASSUME NEW i \in DOMAIN w PROVE w[i] \in ToSet(v \o w)
    <3>1. Len(v) + i \in DOMAIN (v \o w) /\ (v \o w)[Len(v) + i] = w[i]
      BY <1>1
    <3> QED BY <3>1 DEF ToSet
  <2> QED BY <2>1 DEF ToSet
<1>5. ToSet(v \o w) \subseteq ToSet(v) \cup ToSet(w)
  <2>1. ASSUME NEW i \in DOMAIN (v \o w) PROVE (v \o w)[i] \in ToSet(v) \cup ToSet(w)
    <3>1. i \in 1 .. Len(v) + Len(w) /\ Len(v) \in Nat /\ Len(w) \in Nat
      BY <1>1
    <3>2. CASE i <= Len(v)
      <4>1. i \in DOMAIN v /\ (v \o w)[i] = v[i]
        BY <1>1, <3>1, <3>2
      <4> QED BY <4>1 DEF ToSet
    <3>3. CASE ~(i <= Len(v))
      <4>1. i - Len(v) \in DOMAIN w /\ (v \o w)[i] = w[i - Len(v)]
        BY <1>1, <3>1, <3>3
      <4> QED BY <4>1 DEF ToSet
    <3> QED BY <3>2, <3>3
  <2> QED BY <2>1 DEF ToSet
<1> QED BY <1>2, <1>3, <1>4, <1>5

\* A packet put behind what the buffer holds.
LEMMA JoinAppend ==
  ASSUME NEW v \in Ids, NEW w \in Ids, NEW k \in PktId
  PROVE  v \o Append(w, k) = Append(v \o w, k)
<1>1. v \in Seq(PktId) /\ w \in Seq(PktId)
  BY DEF Ids
<1> DEFINE x == v \o Append(w, k)
           y == Append(v \o w, k)
<1>2. x \in Seq(PktId) /\ y \in Seq(PktId) /\ Len(x) = Len(y)
  BY <1>1
<1>3. \A i \in 1 .. Len(x) : x[i] = y[i]
  BY <1>1
<1> HIDE DEF x, y
<1>4. x = y
  BY <1>2, <1>3, SeqEqual
<1> QED BY <1>4 DEF x, y

--------------------------------------------------------------------------------
(* Where a packet is.                                                        *)

Added == Len(load.tx) - left.tx
\* What the card got, and behind it what the aggregation buffer holds.
Wire == card.got \o mpa_tx.pkts
Waits(k) == k \in ToSet(wmm.buf[ListOf(k)])
Before(k) == \A j \in ToSet(Wire) : ListOf(j) = ListOf(k) => j < k
InHand ==
  \/ pc = "getport"
  \/ pc = "transfer" /\ ("cur" \in snd.todo \/ "post" \in snd.todo)
  \/ pc = "settle" /\ snd.ret = "resource"

BufInv ==
  \A l \in Lists : Sorted(wmm.buf[l]) /\ \A k \in ToSet(wmm.buf[l]) : ListOf(k) = l
HandInv(k) ==
  /\ ListOf(k) = <<snd.prio, snd.sta>>
  /\ InHand => Before(k) /\ done[k] = <<>>
  /\ (pc = "transfer" /\ ~snd.put) => ~Held(k)
  /\ (pc = "transfer" /\ ~(load.sg /\ snd.put)) => done[k] = <<>>
  /\ (pc = "transfer" /\ load.sg /\ snd.put) => (done[k] # <<>> \/ Held(k))
  /\ (pc = "settle" /\ snd.ret # "resource") => (done[k] # <<>> \/ Held(k))
PacketInv(k) ==
  /\ Len(done[k]) <= 1
  /\ k > Added => ~Waits(k) /\ k \notin ToSet(Wire) /\ snd.pkt # k /\ done[k] = <<>>
  /\ Waits(k) => /\ done[k] = <<>> /\ Before(k)
                 /\ (snd.pkt # 0 => (ListOf(snd.pkt) = ListOf(k) => snd.pkt < k))
  /\ (Held(k) /\ load.sg) => done[k] = <<>>
  /\ (Held(k) /\ ~load.sg) => (done[k] # <<>> \/ (pc = "transfer" /\ snd.put /\ snd.pkt = k))
  /\ (k <= Added /\ done[k] = <<>>) => Waits(k) \/ Held(k) \/ snd.pkt = k
  /\ snd.pkt = k => HandInv(k)

OnceInv == BufInv /\ InOrder(Wire) /\ \A k \in PktId : PacketInv(k)

\* What depends on the load only does not change.
LEMMA LoadSame ==
  ASSUME load' = load
  PROVE  /\ PktId' = PktId /\ Ids' = Ids /\ \A k : ListOf(k)' = ListOf(k)
         /\ \A w : InOrder(w)' <=> InOrder(w)
         /\ \A w : Sorted(w)' <=> Sorted(w)
  BY DEF PktId, Ids, ListOf, P, InOrder, Sorted

\* A packet that was not completed is completed once.
LEMMA CompletedIs ==
  ASSUME NEW ks, NEW st, done' = Completed(ks, st), NEW k \in PktId, done[k] = <<>>
  PROVE  k \in ks => done'[k] # <<>> /\ Len(done'[k]) = 1
  BY DEF Completed

\* Completed leaves the other packets alone.
LEMMA CompletedOther ==
  ASSUME NEW ks, NEW st, done' = Completed(ks, st), NEW k \in PktId
  PROVE  k \notin ks => done'[k] = done[k]
  BY DEF Completed

\* What the card got is a part of the wire, and so is what the buffer holds.
LEMMA WireIs ==
  ASSUME TxTypes
  PROVE  /\ Wire \in Ids /\ ToSet(Wire) = ToSet(card.got) \cup ToSet(mpa_tx.pkts)
         /\ \A k : Held(k) => k \in ToSet(Wire)
         /\ ToSet(Wire) \subseteq PktId /\ PktId \subseteq Nat
<1>1. card.got \in Ids /\ mpa_tx.pkts \in Ids
  BY DEF TxTypes
<1>2. Wire \in Ids /\ ToSet(Wire) = ToSet(card.got) \cup ToSet(mpa_tx.pkts)
  BY <1>1, JoinIs DEF Wire
<1> QED BY <1>2, IdsIs DEF Held

\* Where the packets are when only other things change.
SameHand ==
  \/ UNCHANGED pc /\ snd'.pkt = snd.pkt /\ snd'.prio = snd.prio /\ snd'.sta = snd.sta
     /\ snd'.put = snd.put /\ snd'.ret = snd.ret /\ snd'.todo = snd.todo
  \/ pc \notin Busy /\ pc' \notin Busy /\ snd.pkt = 0 /\ snd'.pkt = 0

\* A step that touches none of the packets preserves OnceInv.
LEMMA OnceSame ==
  ASSUME OnceInv, load' = load, wmm'.buf = wmm.buf, done' = done, card'.got = card.got,
         mpa_tx' = mpa_tx, left'.tx = left.tx, SameHand
  PROVE  OnceInv'
<1>1. PktId' = PktId /\ Wire' = Wire /\ (\A k : ListOf(k)' = ListOf(k)) /\ Added' = Added
  BY LoadSame DEF Wire, Added
<1>2. BufInv'
  BY <1>1 DEF OnceInv, BufInv, Sorted
<1>3. InOrder(Wire)'
  BY <1>1 DEF OnceInv, InOrder
<1>4. ASSUME NEW k \in PktId PROVE PacketInv(k)'
  <2>1. /\ Waits(k)' = Waits(k) /\ Held(k)' = Held(k) /\ Before(k)' = Before(k)
        /\ k # 0 /\ ListOf(snd.pkt)' = ListOf(snd'.pkt) /\ ListOf(k)' = ListOf(k)
    BY <1>1 DEF Waits, Held, Before, PktId, ListOf, P
  <2>2. PacketInv(k)
    BY DEF OnceInv
  <2>3. CASE UNCHANGED pc /\ snd'.pkt = snd.pkt /\ snd'.prio = snd.prio /\ snd'.sta = snd.sta
             /\ snd'.put = snd.put /\ snd'.ret = snd.ret /\ snd'.todo = snd.todo
    <3>1. HandInv(k) => HandInv(k)'
      BY <2>1, <2>3 DEF HandInv, InHand
    <3> QED BY <2>1, <2>2, <2>3, <3>1, <1>1 DEF PacketInv
  <2>4. CASE pc \notin Busy /\ pc' \notin Busy /\ snd.pkt = 0 /\ snd'.pkt = 0
    BY <2>1, <2>2, <2>4, <1>1 DEF PacketInv, Busy
  <2> QED BY <2>3, <2>4 DEF SameHand
<1> QED BY <1>1, <1>2, <1>3, <1>4 DEF OnceInv

\* OnceInv holds initially.
LEMMA OnceInit == ASSUME SdioInit PROVE OnceInv
<1>1. /\ SdioTxInit /\ WmmInit
  BY DEF SdioInit, SdioRxInit, SdioTxInit
<1>2. /\ load \in Loads /\ wmm.buf = [l \in Lists |-> <<>>] /\ snd.pkt = 0 /\ done = [k \in PktId |-> <<>>]
      /\ Added = 0 /\ Wire = <<>> /\ mpa_tx.pkts = <<>>
  <2>1. load \in Loads /\ wmm.buf = [l \in Lists |-> <<>>] /\ done = [k \in PktId |-> <<>>] /\ snd = Idle
    BY <1>1 DEF WmmInit
  <2>2. snd.pkt = 0
    BY <2>1 DEF Idle
  <2>3. Len(load.tx) \in Nat
    BY <2>1, LoadIs
  <2>4. left.tx = Len(load.tx)
    BY <1>1 DEF WmmInit
  <2>5. Wire = <<>> /\ mpa_tx.pkts = <<>>
    BY <1>1 DEF SdioTxInit, NoAggr, Wire
  <2> QED BY <2>1, <2>2, <2>3, <2>4, <2>5 DEF Added
<1>3. BufInv
  BY <1>2, NoneIs DEF BufInv
<1>4. InOrder(Wire)
  BY <1>2, NoneIs
<1>5. ASSUME NEW k \in PktId PROVE PacketInv(k)
  <2>1. k \in Nat /\ k > 0 /\ ListOf(k) \in Lists
    BY <1>2, LoadIs DEF PktId
  <2>2. ~Waits(k) /\ ~Held(k) /\ k \notin ToSet(Wire) /\ done[k] = <<>>
    BY <1>2, <2>1, NoneIs DEF Waits, Held
  <2>3. Len(done[k]) = 0
    BY <2>2
  <2> QED BY <1>2, <2>1, <2>2, <2>3 DEF PacketInv
<1> QED BY <1>3, <1>4, <1>5 DEF OnceInv

\* A packet of the stack.
LEMMA AddBufOnce ==
  ASSUME TxSide, OnceInv, AddBuf, UNCHANGED txvars
  PROVE  OnceInv'
<1>0. TxTypes /\ WmmTypes /\ LeftTypes /\ load \in Loads /\ PcTypes
  BY DEF TxSide
<1> DEFINE n == Len(load.tx) - left.tx + 1
           m == ListOf(n)
<1>1. /\ n \in PktId /\ m \in Lists /\ left'.tx = left.tx - 1 /\ load' = load
      /\ wmm'.buf = [wmm.buf EXCEPT ![m] = Append(@, n)]
      /\ UNCHANGED <<snd, pc, done>>
  BY <1>0, AddBufIs DEF AddBuf
<1>2. n = Added + 1 /\ Added' = n /\ left.tx \in Nat /\ Len(load.tx) \in Nat /\ Added \in Nat
  BY SMTT(30), <1>0, <1>1, LoadIs DEF Added, LeftTypes, LeftF
<1> HIDE DEF n, m
<1>3. /\ PktId' = PktId /\ Wire' = Wire /\ mpa_tx' = mpa_tx /\ (\A k : ListOf(k)' = ListOf(k))
      /\ PktId \subseteq Nat
  BY <1>1, LoadSame DEF Wire, txvars, PktId
<1>4. /\ wmm.buf \in [Lists -> Ids] /\ wmm.buf[m] \in Ids
      /\ wmm'.buf[m] = Append(wmm.buf[m], n)
      /\ \A l \in Lists \ {m} : wmm'.buf[l] = wmm.buf[l]
  BY <1>0, <1>1 DEF WmmTypes
<1>5. \A l \in Lists : \A k \in ToSet(wmm.buf[l]) : k \in PktId /\ k < n /\ ListOf(k) = l
  <2> SUFFICES ASSUME NEW l \in Lists, NEW k \in ToSet(wmm.buf[l]) PROVE k \in PktId /\ k < n /\ ListOf(k) = l
    OBVIOUS
  <2>1. k \in PktId
    BY <1>4, IdsIs
  <2>2. ListOf(k) = l
    BY DEF OnceInv, BufInv
  <2>3. Waits(k)
    BY <2>2 DEF Waits
  <2> QED BY <2>1, <2>2, <2>3, <1>2, <1>3 DEF OnceInv, PacketInv
<1>6. /\ ToSet(wmm'.buf[m]) = ToSet(wmm.buf[m]) \cup {n} /\ Sorted(wmm'.buf[m])
  BY <1>1, <1>4, <1>5, BehindIs DEF OnceInv, BufInv
<1>7. BufInv'
  <2> SUFFICES ASSUME NEW l \in Lists PROVE Sorted(wmm'.buf[l]) /\ \A k \in ToSet(wmm'.buf[l]) : ListOf(k) = l
    BY <1>3 DEF BufInv, Sorted
  <2> QED BY <1>4, <1>5, <1>6 DEF OnceInv, BufInv, m
<1>8. InOrder(Wire)'
  BY <1>3 DEF OnceInv, InOrder
<1>9. ASSUME NEW k \in PktId PROVE PacketInv(k)'
  <2>1. ListOf(k) \in Lists
    BY <1>0, LoadIs
  <2>2. Waits(k)' <=> Waits(k) \/ k = n
    BY <2>1, <1>3, <1>4, <1>5, <1>6 DEF Waits, m
  <2>3. /\ Held(k)' = Held(k) /\ Before(k)' = Before(k) /\ ListOf(snd.pkt)' = ListOf(snd.pkt)
        /\ ListOf(k)' = ListOf(k)
    BY <1>1, <1>3 DEF Held, Before, ListOf, P
  <2>4. PacketInv(k)
    BY DEF OnceInv
  <2>5. HandInv(k) => HandInv(k)'
    BY <2>3, <1>1 DEF HandInv, InHand
  <2>6. ASSUME k = n PROVE k > Added /\ Before(k) /\ (snd.pkt # 0 => snd.pkt < k)
    <3>1. k > Added /\ k \in Nat
      BY <2>6, <1>2
    <3>2. \A j \in ToSet(Wire) : j < k
      <4> SUFFICES ASSUME NEW j \in ToSet(Wire) PROVE j < k
        OBVIOUS
      <4>1. j \in PktId
        BY <1>0, WireIs
      <4>2. ~(j > Added) /\ j \in Nat
        BY <4>1, <1>3 DEF OnceInv, PacketInv
      <4> QED BY <4>2, <3>1, <1>2
    <3>3. snd.pkt # 0 => snd.pkt < k
      <4>1. snd.pkt # 0 => snd.pkt \in PktId
        BY <1>0 DEF TxSide, SndTypes
      <4>2. snd.pkt # 0 => ~(snd.pkt > Added) /\ snd.pkt \in Nat
        BY <4>1, <1>3 DEF OnceInv, PacketInv
      <4> QED BY <4>2, <3>1, <1>2
    <3> QED BY <3>1, <3>2, <3>3 DEF Before
  <2>7. k \in Nat /\ (k > Added' => k > Added) /\ (k <= Added' => k <= Added \/ k = n)
    BY <1>2, <1>3
  <2> QED BY <2>2, <2>3, <2>4, <2>5, <2>6, <2>7, <1>1, <1>2, <1>3 DEF PacketInv
<1> QED BY <1>3, <1>7, <1>8, <1>9 DEF OnceInv

--------------------------------------------------------------------------------
(* Packets, and the steps of the queues.                                     *)

\* What the invariant says of a packet that waits.
LEMMA WaitingIs ==
  ASSUME TxSide, OnceInv, NEW l \in Lists, NEW k \in ToSet(wmm.buf[l])
  PROVE  k \in PktId /\ ListOf(k) = l /\ Waits(k) /\ done[k] = <<>> /\ Before(k) /\ ~Held(k) /\ snd.pkt # k
<1>0. TxTypes /\ WmmTypes
  BY DEF TxSide
<1>1. k \in PktId
  BY <1>0, IdsIs DEF WmmTypes
<1>2. ListOf(k) = l /\ Waits(k)
  BY DEF OnceInv, BufInv, Waits
<1>3. done[k] = <<>> /\ Before(k) /\ (snd.pkt # 0 => (ListOf(snd.pkt) = ListOf(k) => snd.pkt < k))
  BY <1>1, <1>2 DEF OnceInv, PacketInv
<1>4. k \in Nat /\ k # 0
  BY <1>1 DEF PktId
<1>5. ~Held(k)
  BY <1>0, <1>3, <1>4, WireIs DEF Before
<1>6. snd.pkt # k
  BY <1>3, <1>4
<1> QED BY <1>1, <1>2, <1>3, <1>5, <1>6

\* The receive path drops the first packet of a list.
LEMMA DropOnce ==
  ASSUME TxSide, OnceInv, DropTxPkt, UNCHANGED txvars
  PROVE  OnceInv'
<1>0. TxTypes /\ WmmTypes /\ LeftTypes /\ load \in Loads
  BY DEF TxSide
<1>1. left'.tx = left.tx /\ UNCHANGED <<load, snd, pc, sent>>
  BY <1>0, DropIs
<1>2. PICK p \in Prio, s \in Sta :
        LET l == <<p, s>>
        IN  /\ l \in Lists /\ wmm.buf[l] # <<>>
            /\ done' = Completed({Head(wmm.buf[l])}, "failure")
            /\ wmm'.buf = [wmm.buf EXCEPT ![l] = Tail(@)]
  BY <1>0, DropIs
<1> DEFINE m == <<p, s>>
           h == Head(wmm.buf[m])
<1>3. /\ m \in Lists /\ wmm.buf[m] # <<>> /\ done' = Completed({h}, "failure")
      /\ wmm'.buf = [wmm.buf EXCEPT ![m] = Tail(@)]
  BY <1>2
<1>4. /\ h \in ToSet(wmm.buf[m]) /\ ToSet(Tail(wmm.buf[m])) = ToSet(wmm.buf[m]) \ {h}
      /\ Sorted(Tail(wmm.buf[m]))
  BY <1>0, <1>3, FirstIs DEF OnceInv, BufInv, WmmTypes
<1> HIDE DEF h, m
<1>5. /\ wmm'.buf[m] = Tail(wmm.buf[m]) /\ \A l \in Lists \ {m} : wmm'.buf[l] = wmm.buf[l]
  BY <1>0, <1>3 DEF WmmTypes
<1>6. /\ PktId' = PktId /\ Wire' = Wire /\ Added' = Added /\ mpa_tx' = mpa_tx
      /\ (\A k : ListOf(k)' = ListOf(k))
  BY <1>1, LoadSame DEF Wire, txvars, Added
<1>7. h \in PktId /\ ListOf(h) = m /\ Waits(h) /\ done[h] = <<>> /\ ~Held(h) /\ snd.pkt # h
  BY <1>3, <1>4, WaitingIs
<1>8. BufInv'
  <2> SUFFICES ASSUME NEW l \in Lists PROVE Sorted(wmm'.buf[l]) /\ \A k \in ToSet(wmm'.buf[l]) : ListOf(k) = l
    BY <1>6 DEF BufInv, Sorted
  <2> QED BY <1>4, <1>5 DEF OnceInv, BufInv
<1>9. InOrder(Wire)'
  BY <1>6 DEF OnceInv, InOrder
<1>10. ASSUME NEW k \in PktId PROVE PacketInv(k)'
  <2>1. ListOf(k) \in Lists
    BY <1>0, LoadIs
  <2>2. Waits(k)' <=> Waits(k) /\ k # h
    BY <2>1, <1>4, <1>5, <1>6, <1>7 DEF Waits
  <2>3. /\ Held(k)' = Held(k) /\ Before(k)' = Before(k) /\ ListOf(snd.pkt)' = ListOf(snd.pkt)
        /\ ListOf(k)' = ListOf(k)
    BY <1>1, <1>6 DEF Held, Before, ListOf, P
  <2>4. PacketInv(k)
    BY DEF OnceInv
  <2>5. CASE k # h
    <3>0. k \notin {h}
      BY <2>5
    <3>1. done'[k] = done[k]
      BY <3>0, <1>3, CompletedOther
    <3>2. HandInv(k) => HandInv(k)'
      BY <2>3, <3>1, <1>1 DEF HandInv, InHand
    <3> QED BY <2>2, <2>3, <2>4, <2>5, <3>1, <3>2, <1>1, <1>6 DEF PacketInv
  <2>6. CASE k = h
    <3>1. done'[k] # <<>> /\ Len(done'[k]) = 1
      BY <2>6, <1>3, <1>7, CompletedIs
    <3> QED BY <2>2, <2>3, <2>4, <2>6, <3>1, <1>1, <1>6, <1>7 DEF PacketInv
  <2> QED BY <2>5, <2>6
<1> QED BY <1>6, <1>8, <1>9, <1>10 DEF OnceInv

\* The lists of a station are deleted.
LEMMA DeleteOnce ==
  ASSUME TxSide, OnceInv, DeletePeer, UNCHANGED txvars
  PROVE  OnceInv'
<1>0. TxTypes /\ WmmTypes /\ LeftTypes /\ SndTypes /\ load \in Loads
  BY DEF TxSide
<1>1. left'.tx = left.tx /\ UNCHANGED <<load, pc, sent>>
  BY <1>0, DeleteIs
<1>2. PICK s \in Sta :
        /\ done' = Completed(UNION {ToSet(wmm.buf[l]) : l \in ListsOf(s)}, "failure")
        /\ snd' = [snd EXCEPT !.gone = @ \/ snd.sta = s]
        /\ wmm'.buf = [l \in Lists |-> IF l[2] = s THEN <<>> ELSE wmm.buf[l]]
  BY <1>0, DeleteIs
<1>3. /\ snd'.pkt = snd.pkt /\ snd'.prio = snd.prio /\ snd'.sta = snd.sta
      /\ snd'.put = snd.put /\ snd'.ret = snd.ret /\ snd'.todo = snd.todo
  BY <1>0, <1>2 DEF SndTypes, SndF
<1> DEFINE ks == UNION {ToSet(wmm.buf[l]) : l \in ListsOf(s)}
<1>4. /\ done' = Completed(ks, "failure")
      /\ \A l \in Lists : wmm'.buf[l] = IF l[2] = s THEN <<>> ELSE wmm.buf[l]
  BY <1>2
<1>5. \A k \in PktId : k \in ks <=> Waits(k) /\ ListOf(k)[2] = s
  <2> SUFFICES ASSUME NEW k \in PktId PROVE k \in ks <=> Waits(k) /\ ListOf(k)[2] = s
    OBVIOUS
  <2>1. \A l \in Lists : l \in ListsOf(s) <=> l[2] = s
    BY DEF Lists, ListsOf
  <2>2. ListOf(k) \in Lists /\ ListsOf(s) \subseteq Lists
    BY <1>0, LoadIs DEF Lists, ListsOf
  <2>3. \A l \in Lists : k \in ToSet(wmm.buf[l]) <=> l = ListOf(k) /\ Waits(k)
    BY <2>2, WaitingIs DEF Waits
  <2> QED BY <2>1, <2>2, <2>3
<1> HIDE DEF ks
<1>6. /\ PktId' = PktId /\ Wire' = Wire /\ Added' = Added /\ mpa_tx' = mpa_tx
      /\ (\A k : ListOf(k)' = ListOf(k))
  BY <1>1, LoadSame DEF Wire, txvars, Added
<1>8. BufInv'
  <2> SUFFICES ASSUME NEW l \in Lists PROVE Sorted(wmm'.buf[l]) /\ \A k \in ToSet(wmm'.buf[l]) : ListOf(k) = l
    BY <1>6 DEF BufInv, Sorted
  <2> QED BY <1>4, NoneIs DEF OnceInv, BufInv
<1>9. InOrder(Wire)'
  BY <1>6 DEF OnceInv, InOrder
<1>10. ASSUME NEW k \in PktId PROVE PacketInv(k)'
  <2>1. ListOf(k) \in Lists
    BY <1>0, LoadIs
  <2>2. Waits(k)' <=> Waits(k) /\ k \notin ks
    BY <2>1, <1>4, <1>5, <1>6, NoneIs DEF Waits
  <2>3. Held(k)' = Held(k) /\ Before(k)' = Before(k) /\ ListOf(k)' = ListOf(k)
    BY <1>1, <1>3, <1>6 DEF Held, Before, ListOf, P
  <2>a. ListOf(snd.pkt)' = ListOf(snd.pkt)
    BY <1>1, <1>3 DEF ListOf, P
  <2>4. PacketInv(k)
    BY DEF OnceInv
  <2>5. CASE k \notin ks
    <3>1. done'[k] = done[k]
      BY <2>5, <1>4, CompletedOther
    <3>2. HandInv(k) => HandInv(k)'
      BY <2>3, <3>1, <1>1, <1>3 DEF HandInv, InHand
    <3> QED BY <2>2, <2>3, <2>a, <2>4, <2>5, <3>1, <3>2, <1>1, <1>3, <1>6 DEF PacketInv
  <2>6. CASE k \in ks
    <3>0. k \in ToSet(wmm.buf[ListOf(k)]) /\ Waits(k)
      BY <2>6, <1>5 DEF Waits
    <3>1. done[k] = <<>> /\ ~Held(k) /\ snd.pkt # k
      BY <3>0, <2>1, WaitingIs
    <3>2. done'[k] # <<>> /\ Len(done'[k]) = 1
      BY <2>6, <3>1, <1>4, CompletedIs
    <3> QED BY <2>2, <2>3, <2>a, <2>4, <2>6, <3>0, <3>1, <3>2, <1>1, <1>3, <1>6 DEF PacketInv
  <2> QED BY <2>5, <2>6
<1> QED BY <1>6, <1>8, <1>9, <1>10 DEF OnceInv

\* The main process takes the first packet of a list.
LEMMA PickOnce ==
  ASSUME TxSide, OnceInv, Pick, UNCHANGED txvars
  PROVE  OnceInv'
<1>0. TxTypes /\ WmmTypes /\ SndTypes /\ PcTypes /\ load \in Loads
  BY DEF TxSide
<1>1. UNCHANGED <<load, done, left>> /\ pc = "pick" /\ pc' = "getport" /\ snd.pkt = 0
  BY <1>0, PickIs DEF PcTypes, Busy
<1>2. PICK p \in Prio, s \in Sta : Picked(p, s)
  BY <1>0, PickIs
<1> DEFINE m == <<p, s>>
           h == Head(wmm.buf[m])
<1>3. /\ m \in Lists /\ wmm.buf[m] # <<>> /\ snd'.pkt = h /\ snd'.prio = p /\ snd'.sta = s
      /\ wmm'.buf = [wmm.buf EXCEPT ![m] = Tail(@)]
  BY <1>2 DEF Picked, Sendable, Lists
<1>4. /\ h \in ToSet(wmm.buf[m]) /\ ToSet(Tail(wmm.buf[m])) = ToSet(wmm.buf[m]) \ {h}
      /\ Sorted(Tail(wmm.buf[m])) /\ \A j \in ToSet(Tail(wmm.buf[m])) : h < j
  BY <1>0, <1>3, FirstIs DEF OnceInv, BufInv, WmmTypes
<1>a. m = <<snd'.prio, snd'.sta>>
  BY <1>3
<1> HIDE DEF h, m
<1>5. /\ wmm'.buf[m] = Tail(wmm.buf[m]) /\ \A l \in Lists \ {m} : wmm'.buf[l] = wmm.buf[l]
  BY <1>0, <1>3 DEF WmmTypes
<1>6. /\ PktId' = PktId /\ Wire' = Wire /\ Added' = Added /\ mpa_tx' = mpa_tx
      /\ (\A k : ListOf(k)' = ListOf(k))
  BY <1>1, LoadSame DEF Wire, txvars, Added
<1>7. h \in PktId /\ ListOf(h) = m /\ Waits(h) /\ done[h] = <<>> /\ Before(h) /\ ~Held(h)
  BY <1>3, <1>4, WaitingIs
<1>b. ~(h > Added)
  BY <1>7 DEF OnceInv, PacketInv
<1>8. BufInv'
  <2> SUFFICES ASSUME NEW l \in Lists PROVE Sorted(wmm'.buf[l]) /\ \A k \in ToSet(wmm'.buf[l]) : ListOf(k) = l
    BY <1>6 DEF BufInv, Sorted
  <2> QED BY <1>4, <1>5 DEF OnceInv, BufInv
<1>9. InOrder(Wire)'
  BY <1>6 DEF OnceInv, InOrder
<1>10. ASSUME NEW k \in PktId PROVE PacketInv(k)'
  <2>1. ListOf(k) \in Lists
    BY <1>0, LoadIs
  <2>2. (Waits(k)' <=> Waits(k) /\ k # h) /\ (Waits(k)' /\ ListOf(k) = m => h < k)
    BY <2>1, <1>4, <1>5, <1>6, <1>7 DEF Waits
  <2>3. /\ Held(k)' = Held(k) /\ Before(k)' = Before(k) /\ ListOf(snd.pkt)' = m
        /\ ListOf(k)' = ListOf(k)
    BY <1>1, <1>3, <1>6, <1>7 DEF Held, Before, ListOf, P
  <2>4. PacketInv(k) /\ k # 0
    BY DEF OnceInv, PktId
  <2>5. k = h => HandInv(k)'
    BY <2>3, <1>1, <1>3, <1>7, <1>a DEF HandInv, InHand
  <2> QED BY <2>2, <2>3, <2>4, <2>5, <1>1, <1>3, <1>6, <1>7, <1>b DEF PacketInv
<1> QED BY <1>6, <1>8, <1>9, <1>10 DEF OnceInv

\* A packet without a port goes back, or is freed if its list is gone.
LEMMA SettleBackOnce ==
  ASSUME TxSide, OnceInv, SettleBack, UNCHANGED txvars
  PROVE  OnceInv'
<1>0. TxTypes /\ WmmTypes /\ SndTypes /\ PcTypes /\ load \in Loads
  BY DEF TxSide
<1>1. /\ UNCHANGED <<load, left>> /\ pc = "settle" /\ pc' = "again" /\ snd.ret = "resource"
      /\ snd' = Idle
      /\ snd.gone => wmm' = wmm /\ done' = Completed({snd.pkt}, "failure")
      /\ ~snd.gone => PutBack /\ done' = done
  BY <1>0, SettleBackIs
<1>2. snd'.pkt = 0
  BY <1>1 DEF Idle
<1> DEFINE h == snd.pkt
<1>3. h \in PktId /\ HandInv(h) /\ InHand /\ ~(h > Added)
  BY <1>0, <1>1 DEF PcTypes, Busy, OnceInv, PacketInv, InHand
<1>4. done[h] = <<>> /\ Before(h) /\ ListOf(h) = <<snd.prio, snd.sta>>
  BY <1>3 DEF HandInv
<1>5. ListOf(h) \in Lists
  BY <1>0, <1>3, LoadIs
<1>6. /\ PktId' = PktId /\ Wire' = Wire /\ Added' = Added /\ mpa_tx' = mpa_tx
      /\ (\A k : ListOf(k)' = ListOf(k))
  BY <1>1, LoadSame DEF Wire, txvars, Added
<1>7. InOrder(Wire)'
  BY <1>6 DEF OnceInv, InOrder
<1>h. ~Held(h)
  BY <1>0, <1>3, <1>4, WireIs DEF Before
<1> HIDE DEF h
<1>8. ASSUME NEW k \in PktId
      PROVE  /\ Held(k)' = Held(k) /\ Before(k)' = Before(k) /\ ListOf(k)' = ListOf(k)
             /\ PacketInv(k) /\ k # 0 /\ ListOf(k) \in Lists
  BY <1>0, <1>1, <1>6, LoadIs DEF Held, Before, ListOf, P, OnceInv, PktId
<1>9. CASE snd.gone
  <2>1. wmm' = wmm /\ done' = Completed({h}, "failure")
    BY <1>1, <1>9 DEF h
  <2>2. BufInv'
    BY <2>1, <1>6 DEF OnceInv, BufInv, Sorted
  <2>3. ASSUME NEW k \in PktId PROVE PacketInv(k)'
    <3>1. Waits(k)' = Waits(k)
      BY <2>1, <1>6 DEF Waits
    <3>2. CASE k = h
      <4>1. done'[k] # <<>> /\ Len(done'[k]) = 1
        BY <2>1, <3>2, <1>4, CompletedIs
      <4>2. ~Waits(k)
        <5>1. Waits(k) => snd.pkt # k
          BY <1>8, WaitingIs DEF Waits
        <5> QED BY <5>1, <3>2 DEF h
      <4> QED BY <3>1, <3>2, <4>1, <4>2, <1>h, <1>1, <1>2, <1>3, <1>6, <1>8 DEF PacketInv
    <3>3. CASE k # h
      <4>1. done'[k] = done[k]
        BY <2>1, <3>3, CompletedOther
      <4> QED BY <3>1, <3>3, <4>1, <1>1, <1>2, <1>6, <1>8 DEF PacketInv, h
    <3> QED BY <3>2, <3>3
  <2> QED BY <1>6, <1>7, <2>2, <2>3 DEF OnceInv
<1>10. CASE ~snd.gone
  <2> DEFINE m == ListOf(h)
  <2>1. wmm'.buf = [wmm.buf EXCEPT ![m] = <<h>> \o @] /\ done' = done
    BY <1>1, <1>4, <1>10 DEF PutBack, h
  <2>2. wmm.buf[m] \in Ids /\ wmm'.buf[m] = <<h>> \o wmm.buf[m]
        /\ \A l \in Lists \ {m} : wmm'.buf[l] = wmm.buf[l]
    BY <2>1, <1>0, <1>5 DEF WmmTypes
  <2>3. \A j \in ToSet(wmm.buf[m]) : h < j
    <3> SUFFICES ASSUME NEW j \in ToSet(wmm.buf[m]) PROVE h < j
      OBVIOUS
    <3>1. j \in PktId /\ ListOf(j) = m /\ Waits(j)
      BY <1>5, WaitingIs
    <3>2. h # 0
      BY <1>3 DEF PktId
    <3> QED BY <3>1, <3>2 DEF OnceInv, PacketInv, h
  <2>4. Sorted(wmm'.buf[m]) /\ ToSet(wmm'.buf[m]) = ToSet(wmm.buf[m]) \cup {h}
    BY <2>2, <2>3, <1>3, <1>5, AheadIs DEF OnceInv, BufInv
  <2>5. BufInv'
    <3> SUFFICES ASSUME NEW l \in Lists PROVE Sorted(wmm'.buf[l]) /\ \A k \in ToSet(wmm'.buf[l]) : ListOf(k) = l
      BY <1>6 DEF BufInv, Sorted
    <3> QED BY <2>2, <2>4, <1>5 DEF OnceInv, BufInv
  <2>6. ASSUME NEW k \in PktId PROVE PacketInv(k)'
    <3>1. Waits(k)' <=> Waits(k) \/ k = h
      BY <2>2, <2>4, <1>5, <1>6, <1>8 DEF Waits
    <3>2. CASE k = h
      BY <3>1, <3>2, <2>1, <1>1, <1>2, <1>3, <1>4, <1>6, <1>8, <1>h DEF PacketInv
    <3>3. CASE k # h
      BY <3>1, <3>3, <2>1, <1>1, <1>2, <1>6, <1>8 DEF PacketInv, h
    <3> QED BY <3>2, <3>3
  <2> QED BY <1>6, <1>7, <2>5, <2>6 DEF OnceInv
<1> QED BY <1>9, <1>10

\* A packet that was sent, held or refused is settled.
LEMMA SettleOnce ==
  ASSUME TxSide, OnceInv, Settle, UNCHANGED txvars
  PROVE  OnceInv'
<1>0. TxTypes /\ WmmTypes /\ SndTypes /\ PcTypes /\ load \in Loads
  BY DEF TxSide
<1>1. /\ UNCHANGED <<load, left, done>> /\ pc = "settle" /\ pc' = "again" /\ snd.ret # "resource"
      /\ snd' = Idle /\ wmm'.buf = wmm.buf
  BY <1>0, SettleIs DEF TakenOff
<1>2. snd'.pkt = 0
  BY <1>1 DEF Idle
<1>6. /\ PktId' = PktId /\ Wire' = Wire /\ Added' = Added /\ mpa_tx' = mpa_tx
      /\ (\A k : ListOf(k)' = ListOf(k))
  BY <1>1, LoadSame DEF Wire, txvars, Added
<1>7. InOrder(Wire)' /\ BufInv'
  BY <1>1, <1>6 DEF OnceInv, InOrder, BufInv, Sorted
<1>8. ASSUME NEW k \in PktId PROVE PacketInv(k)'
  <2>1. /\ Held(k)' = Held(k) /\ Before(k)' = Before(k) /\ ListOf(k)' = ListOf(k)
        /\ PacketInv(k) /\ k # 0 /\ Waits(k)' = Waits(k)
    BY <1>1, <1>6 DEF Held, Before, ListOf, P, OnceInv, PktId, Waits
  <2>2. snd.pkt = k => done[k] # <<>> \/ Held(k)
    BY <2>1, <1>1 DEF PacketInv, HandInv
  <2> QED BY <2>1, <2>2, <1>1, <1>2, <1>6 DEF PacketInv
<1> QED BY <1>6, <1>7, <1>8 DEF OnceInv

--------------------------------------------------------------------------------
(* Packets, and the steps of the write path.                                 *)

\* What the invariant says of the packet in flight.
LEMMA InFlightIs ==
  ASSUME TxSide, OnceInv, pc \in Busy
  PROVE  /\ snd.pkt \in PktId /\ HandInv(snd.pkt) /\ snd.pkt <= Added
         /\ InHand => ~Held(snd.pkt) /\ snd.pkt \notin ToSet(Wire)
         /\ \A k \in PktId : (Waits(k) /\ ListOf(snd.pkt) = ListOf(k)) => snd.pkt < k
<1>0. TxTypes /\ LeftTypes /\ load \in Loads
  BY DEF TxSide
<1>1. snd.pkt \in PktId /\ snd.pkt \in Nat /\ snd.pkt # 0
  BY DEF TxSide, PcTypes, PktId
<1>2. HandInv(snd.pkt) /\ ~(snd.pkt > Added)
  BY <1>1 DEF OnceInv, PacketInv
<1>3. Added \in Int
  BY <1>0, LoadIs DEF Added, LeftTypes, LeftF
<1>4. InHand => snd.pkt \notin ToSet(Wire)
  BY <1>1, <1>2 DEF HandInv, Before
<1>5. ASSUME NEW k \in PktId, Waits(k), ListOf(snd.pkt) = ListOf(k) PROVE snd.pkt < k
  BY <1>1, <1>5 DEF OnceInv, PacketInv
<1> QED BY <1>0, <1>1, <1>2, <1>3, <1>4, <1>5, WireIs

\* GetPortFails preserves OnceInv.
LEMMA GetPortFailsOnce ==
  ASSUME TxSide, OnceInv, GetPortFails
  PROVE  OnceInv'
<1>0. SndTypes
  BY DEF TxSide
<1>1. /\ pc = "getport" /\ pc' = "settle" /\ UNCHANGED <<load, wmm, done, left, mpa_tx, card>>
      /\ SameOwner /\ snd'.ret = "resource"
  BY <1>0, GetPortFailsIs DEF txvars
<1>2. /\ PktId' = PktId /\ Wire' = Wire /\ Added' = Added /\ (\A k : ListOf(k)' = ListOf(k))
  BY <1>1, LoadSame DEF Wire, Added
<1>3. InOrder(Wire)' /\ BufInv'
  BY <1>1, <1>2 DEF OnceInv, InOrder, BufInv, Sorted
<1>4. ASSUME NEW k \in PktId PROVE PacketInv(k)'
  <2>1. /\ Held(k)' = Held(k) /\ Before(k)' = Before(k) /\ ListOf(k)' = ListOf(k)
        /\ ListOf(snd.pkt)' = ListOf(snd.pkt) /\ PacketInv(k) /\ Waits(k)' = Waits(k)
    BY <1>1, <1>2 DEF Held, Before, ListOf, P, OnceInv, Waits, SameOwner
  <2>2. snd.pkt = k /\ HandInv(k) => HandInv(k)'
    BY <2>1, <1>1 DEF HandInv, InHand, SameOwner
  <2> QED BY <2>1, <2>2, <1>1, <1>2 DEF PacketInv, SameOwner
<1> QED BY <1>2, <1>3, <1>4 DEF OnceInv

\* The packet in flight goes behind the wire, into the buffer or to the card.
LEMMA WireGrows ==
  ASSUME TxSide, OnceInv, pc \in Busy, InHand, load' = load, wmm'.buf = wmm.buf,
         Wire' = Append(Wire, snd.pkt)
  PROVE  /\ InOrder(Wire)' /\ BufInv' /\ ToSet(Wire)' = ToSet(Wire) \cup {snd.pkt}
         /\ \A k \in PktId : Waits(k) => Before(k)'
<1> DEFINE h == snd.pkt
<1>0. TxTypes
  BY DEF TxSide
<1>1. h \in PktId /\ Before(h) /\ Wire \in Ids /\ InOrder(Wire)
  BY <1>0, InFlightIs, WireIs DEF HandInv, OnceInv
<1>2. PktId' = PktId /\ \A k : ListOf(k)' = ListOf(k)
  BY LoadSame
<1>3. InOrder(Append(Wire, h)) /\ ToSet(Append(Wire, h)) = ToSet(Wire) \cup {h}
  BY <1>1, BehindIs DEF Before
<1>4. InOrder(Wire)'
  BY <1>2, <1>3 DEF InOrder
<1>5. BufInv'
  BY <1>2 DEF OnceInv, BufInv, Sorted
<1>6. ToSet(Wire)' = ToSet(Wire) \cup {h}
  <2>1. ToSet(Wire)' = ToSet(Append(Wire, h))
    BY DEF ToSet
  <2> QED BY <2>1, <1>3
<1>7. ASSUME NEW k \in PktId, Waits(k) PROVE Before(k)'
  <2>1. Before(k)
    BY <1>7 DEF OnceInv, PacketInv
  <2>2. ListOf(h) = ListOf(k) => h < k
    BY <1>7, InFlightIs
  <2> SUFFICES ASSUME NEW j \in ToSet(Wire)', ListOf(j)' = ListOf(k)' PROVE j < k
    BY DEF Before
  <2>3. ListOf(j) = ListOf(k)
    BY <1>2
  <2> QED BY <1>6, <2>1, <2>2, <2>3 DEF Before
<1> QED BY <1>4, <1>5, <1>6, <1>7

\* Another packet is in the buffer.
LEMMA HeldGrows ==
  ASSUME TxTypes, NEW k \in PktId, NEW port, mpa_tx' = TxPut(k, port), card'.got = card.got
  PROVE  /\ Wire' = Append(Wire, k) /\ \A j : Held(j)' <=> Held(j) \/ j = k
<1>1. card.got \in Ids /\ mpa_tx.pkts \in Ids /\ mpa_tx'.pkts = Append(mpa_tx.pkts, k)
  BY DEF TxTypes, TxPut
<1>2. Wire' = Append(Wire, k)
  BY <1>1, JoinAppend DEF Wire
<1>3. ToSet(mpa_tx'.pkts) = ToSet(mpa_tx.pkts) \cup {k}
  BY <1>1, BehindIs
<1>4. ASSUME NEW j PROVE Held(j)' <=> Held(j) \/ j = k
  <2>1. Held(j)' <=> j \in ToSet(mpa_tx'.pkts)
    BY DEF Held, ToSet
  <2> QED BY <2>1, <1>3 DEF Held
<1> QED BY <1>2, <1>4

\* GetPort preserves OnceInv.
LEMMA GetPortOnce ==
  ASSUME TxSide, OnceInv, GetPort
  PROVE  OnceInv'
<1>0. SndTypes /\ TxTypes
  BY DEF TxSide
<1> DEFINE plan == Plan
           h == snd.pkt
<1>1. /\ pc = "getport" /\ pc' = "transfer" /\ UNCHANGED <<load, wmm, done, left, card>>
      /\ SameOwner /\ snd'.todo = plan \ {"pre"} /\ snd'.put = ("pre" \in plan) /\ snd'.put \in BOOLEAN
      /\ mpa_tx' = IF "pre" \in plan THEN TxPut(h, wr.curr) ELSE mpa_tx
  BY <1>0, GetPortIs
<1>2. "pre" \in plan => "cur" \notin plan /\ "post" \notin plan
  BY PlanIs
<1>3. pc \in Busy /\ InHand
  BY <1>1 DEF Busy, InHand
<1>4. h \in PktId /\ HandInv(h) /\ h <= Added /\ ~Held(h)
  BY <1>3, InFlightIs
<1>5. done[h] = <<>> /\ Before(h) /\ ListOf(h) = <<snd.prio, snd.sta>>
  BY <1>3, <1>4 DEF HandInv
<1>6. /\ PktId' = PktId /\ Added' = Added /\ (\A k : ListOf(k)' = ListOf(k)) /\ PktId \subseteq Nat
      /\ Added \in Int
  <2>1. Added \in Int
    BY LoadIs DEF Added, LeftTypes, LeftF, TxSide
  <2> QED BY <2>1, <1>1, LoadSame DEF Added, PktId
<1> HIDE DEF plan, h
<1>7. ASSUME NEW k \in PktId
      PROVE  /\ ListOf(k)' = ListOf(k) /\ ListOf(snd.pkt)' = ListOf(h) /\ snd'.pkt = h /\ snd.pkt = h
             /\ PacketInv(k) /\ Waits(k)' = Waits(k)
  BY <1>1, <1>6 DEF ListOf, P, OnceInv, Waits, SameOwner, h
<1>8. CASE "pre" \in plan
  <2>1. mpa_tx' = TxPut(h, wr.curr) /\ snd'.put = TRUE
    BY <1>1, <1>8
  <2>2. Wire' = Append(Wire, snd.pkt) /\ \A j : Held(j)' <=> Held(j) \/ j = h
    BY <2>1, <1>0, <1>1, <1>4, HeldGrows DEF h
  <2>3. /\ InOrder(Wire)' /\ BufInv' /\ ToSet(Wire)' = ToSet(Wire) \cup {h}
        /\ \A k \in PktId : Waits(k) => Before(k)'
    BY <2>2, <1>1, <1>3, WireGrows DEF h
  <2>4. ASSUME NEW k \in PktId PROVE PacketInv(k)'
    <3>1. k = h => HandInv(k)'
      BY <2>1, <2>2, <1>1, <1>2, <1>5, <1>7, <1>8 DEF HandInv, InHand, SameOwner
    <3>2. k > Added => k # h
      BY <1>4, <1>6
    <3> QED BY <3>1, <3>2, <2>1, <2>2, <2>3, <1>1, <1>5, <1>6, <1>7 DEF PacketInv
  <2> QED BY <2>3, <2>4, <1>6 DEF OnceInv
<1>9. CASE "pre" \notin plan
  <2>1. mpa_tx' = mpa_tx /\ snd'.put = FALSE
    BY <1>1, <1>9
  <2>2. Wire' = Wire /\ InOrder(Wire)' /\ BufInv'
    BY <2>1, <1>1, <1>6 DEF OnceInv, InOrder, BufInv, Sorted, Wire
  <2>3. ASSUME NEW k \in PktId PROVE PacketInv(k)'
    <3>1. Held(k)' = Held(k) /\ Before(k)' = Before(k)
      BY <2>1, <2>2, <1>6 DEF Held, Before
    <3>2. k = h => HandInv(k)'
      BY <2>1, <3>1, <1>1, <1>4, <1>5, <1>7 DEF HandInv, InHand, SameOwner
    <3> QED BY <3>1, <3>2, <2>1, <2>2, <1>1, <1>5, <1>6, <1>7 DEF PacketInv
  <2> QED BY <2>2, <2>3, <1>6 DEF OnceInv
<1> QED BY <1>8, <1>9

\* The aggregation buffer is sent.
LEMMA FlushOnce ==
  ASSUME TxSide, OnceInv, NEW ok \in BOOLEAN, Flushed(ok), load' = load, wmm' = wmm, left'.tx = left.tx,
         \/ /\ pc = "transfer" /\ pc' = pc /\ SameOwner /\ snd'.put = snd.put
            /\ snd'.todo = snd.todo \ {"aggr"}
         \/ pc = "again" /\ pc' = "loop" /\ snd' = snd
  PROVE  OnceInv'
<1>0. SndTypes /\ TxTypes /\ PcTypes
  BY DEF TxSide
<1>1. /\ mpa_tx'.pkts = <<>> /\ card'.got = (IF ok THEN card.got \o mpa_tx.pkts ELSE card.got)
      /\ done' = (IF load.sg THEN Completed(ToSet(mpa_tx.pkts), "success") ELSE done)
  BY DEF Flushed
<1>2. card.got \in Ids /\ mpa_tx.pkts \in Ids /\ Wire = card.got \o mpa_tx.pkts /\ Wire \in Ids
  BY <1>0, WireIs DEF TxTypes, Wire
<1>3. Wire' = (IF ok THEN Wire ELSE card.got)
  <2>1. Wire' = card'.got \o <<>>
    BY <1>1 DEF Wire
  <2> QED BY <2>1, <1>1, <1>2, JoinIs
<1>4. /\ PktId' = PktId /\ Added' = Added /\ (\A k : ListOf(k)' = ListOf(k)) /\ PktId \subseteq Nat
  BY LoadSame DEF Added, PktId
<1>5. InOrder(Wire') /\ ToSet(Wire') \subseteq ToSet(Wire)
  BY <1>0, <1>2, <1>3, FrontInOrder, WireIs DEF OnceInv
<1>6. InOrder(Wire)' /\ BufInv'
  BY <1>4, <1>5 DEF OnceInv, InOrder, BufInv, Sorted
<1>7. ASSUME NEW k \in PktId PROVE PacketInv(k)'
  <2>1. ToSet(Wire)' = ToSet(Wire')
    BY DEF ToSet
  <2>2. /\ ~Held(k)' /\ (Before(k) => Before(k)') /\ (k \notin ToSet(Wire) => k \notin ToSet(Wire)')
        /\ Waits(k)' = Waits(k) /\ ListOf(k)' = ListOf(k) /\ PacketInv(k) /\ k \in Nat /\ k # 0
        /\ ListOf(snd.pkt)' = ListOf(snd.pkt) /\ snd'.pkt = snd.pkt
        /\ (Held(k) => k \in ToSet(Wire))
    <3>1. ToSet(mpa_tx.pkts)' = {}
      BY <1>1 DEF ToSet
    <3>2. ~Held(k)'
      BY <3>1 DEF Held
    <3>3. Before(k) => Before(k)'
      BY <2>1, <1>4, <1>5 DEF Before
    <3>4. Waits(k)' = Waits(k) /\ PacketInv(k) /\ k \in Nat /\ k # 0 /\ snd'.pkt = snd.pkt
      BY <1>4 DEF Waits, OnceInv, PktId, SameOwner
    <3>5. ListOf(snd.pkt)' = ListOf(snd.pkt)
      BY <3>4 DEF ListOf, P
    <3>6. Held(k) => k \in ToSet(Wire)
      BY <1>0, WireIs
    <3> QED BY <2>1, <3>2, <3>3, <3>4, <3>5, <3>6, <1>4, <1>5
  <2>3. /\ load.sg /\ Held(k) => done[k] = <<>> /\ done'[k] # <<>> /\ Len(done'[k]) = 1
        /\ ~(load.sg /\ Held(k)) => done'[k] = done[k]
    <3>1. CASE load.sg /\ Held(k)
      <4>1. done[k] = <<>> /\ done' = Completed(ToSet(mpa_tx.pkts), "success") /\ k \in ToSet(mpa_tx.pkts)
        BY <3>1, <2>2, <1>1 DEF PacketInv, Held
      <4>2. done'[k] # <<>> /\ Len(done'[k]) = 1
        BY <4>1, CompletedIs
      <4> QED BY <3>1, <4>1, <4>2
    <3>2. CASE load.sg /\ ~Held(k)
      <4>1. done' = Completed(ToSet(mpa_tx.pkts), "success") /\ k \notin ToSet(mpa_tx.pkts)
        BY <3>2, <1>1 DEF Held
      <4>2. done'[k] = done[k]
        BY <4>1, CompletedOther
      <4> QED BY <3>2, <4>2
    <3>3. CASE ~load.sg
      BY <3>3, <1>1
    <3> QED BY <3>1, <3>2, <3>3
  <2>6. /\ Waits(k) => ~Held(k) /\ done'[k] = <<>> /\ Before(k)'
        /\ k > Added => ~Held(k) /\ done'[k] = <<>> /\ k \notin ToSet(Wire)'
        /\ Len(done'[k]) <= 1
    <3>1. Waits(k) => Before(k) /\ done[k] = <<>>
      BY <2>2 DEF PacketInv
    <3>2. Waits(k) => ~Held(k)
      BY <3>1, <2>2 DEF Before
    <3>3. k > Added => ~Held(k) /\ done[k] = <<>> /\ k \notin ToSet(Wire)
      BY <2>2 DEF PacketInv
    <3>4. Len(done[k]) <= 1
      BY <2>2 DEF PacketInv
    <3>5. Len(done'[k]) <= 1
      <4>1. CASE load.sg /\ Held(k)
        <5> DEFINE n == Len(done'[k])
        <5>1. n = 1
          BY <4>1, <2>3
        <5> HIDE DEF n
        <5>2. n <= 1
          BY <5>1
        <5> QED BY <5>2 DEF n
      <4>2. CASE ~(load.sg /\ Held(k))
        BY <4>2, <2>3, <3>4
      <4> QED BY <4>1, <4>2
    <3> QED BY <3>1, <3>2, <3>3, <3>5, <2>2, <2>3
  <2>4. CASE pc = "transfer" /\ pc' = pc /\ SameOwner /\ snd'.put = snd.put /\ snd'.todo = snd.todo \ {"aggr"}
    <3>1. InHand' <=> InHand
      BY <2>4 DEF InHand
    <3>2. snd.pkt = k /\ HandInv(k) => HandInv(k)'
      <4>1. InHand /\ snd.pkt = k /\ HandInv(k) => ~Held(k)
        BY <2>2, InFlightIs, <2>4 DEF Busy
      <4>2. snd.put \in BOOLEAN /\ snd'.put = snd.put /\ snd'.prio = snd.prio /\ snd'.sta = snd.sta
            /\ pc = "transfer" /\ pc' = "transfer"
        BY <2>4, <1>0 DEF SndTypes, SameOwner
      <4> SUFFICES ASSUME snd.pkt = k, HandInv(k) PROVE HandInv(k)'
        OBVIOUS
      <4>3. InHand => done'[k] = <<>> /\ Before(k)'
        BY <4>1, <2>2, <2>3 DEF HandInv
      <4>4. ~(load.sg /\ snd.put) => done'[k] = <<>>
        BY <4>2, <2>3 DEF HandInv
      <4>5. load.sg /\ snd.put => done'[k] # <<>>
        BY <4>2, <2>3 DEF HandInv
      <4> QED BY <4>2, <4>3, <4>4, <4>5, <3>1, <2>2 DEF HandInv
    <3>3. (k <= Added /\ done'[k] = <<>>) => Waits(k) \/ snd.pkt = k
      BY <2>2, <2>3 DEF PacketInv
    <3> QED BY <3>2, <3>3, <2>2, <2>6, <1>4 DEF PacketInv
  <2>5. CASE pc = "again" /\ pc' = "loop" /\ snd' = snd
    <3>1. snd.pkt = 0
      BY <2>5, <1>0 DEF PcTypes, Busy
    <3>3. (k <= Added /\ done'[k] = <<>>) => Waits(k)
      BY <3>1, <2>2, <2>3, <2>5 DEF PacketInv
    <3> QED BY <3>1, <3>3, <2>2, <2>6, <1>4 DEF PacketInv
  <2> QED BY <2>4, <2>5
<1> QED BY <1>4, <1>6, <1>7 DEF OnceInv

\* The packet is sent alone.
LEMMA CurOnce ==
  ASSUME TxSide, PortInv, OnceInv, TransferCur
  PROVE  OnceInv'
<1>0. SndTypes /\ TxTypes /\ LeftTypes /\ PcTypes
  BY DEF TxSide
<1>1. pc = "transfer" /\ "cur" \in snd.todo /\ "aggr" \notin snd.todo
  BY DEF TransferCur
<1>2. pc \in Busy /\ InHand /\ ~snd.put /\ ~TxInProgress /\ "post" \notin snd.todo
  BY <1>1 DEF Busy, InHand, PortInv, Transferring
<1> DEFINE h == snd.pkt
<1>3. h \in PktId /\ HandInv(h) /\ h <= Added /\ ~Held(h)
  BY <1>2, InFlightIs
<1>4. /\ UNCHANGED <<load, wmm, done, pc, mpa_tx>> /\ SameOwner
      /\ snd'.put = snd.put /\ snd'.todo = snd.todo \ {"cur"} /\ left'.tx = left.tx
  BY <1>0, <1>3, TransferCurIs
<1>5. PICK ok \in BOOLEAN : Written(ok)
  BY <1>0, <1>3, TransferCurIs
<1>6. card.got \in Ids /\ mpa_tx.pkts = <<>> /\ Wire = card.got /\ Wire' = card'.got \o <<>>
  BY <1>0, <1>2, <1>4, JoinIs DEF TxTypes, TxInProgress, Wire
<1>7. Wire' = (IF ok THEN Append(Wire, snd.pkt) ELSE Wire)
  <2>1. CASE ok
    <3>1. card'.got = Append(card.got, snd.pkt) /\ Append(card.got, snd.pkt) \in Ids
      BY <2>1, <1>3, <1>5, <1>6, BehindIs DEF Written
    <3> QED BY <2>1, <3>1, <1>6, JoinIs
  <2>2. CASE ~ok
    <3>1. card'.got = card.got
      BY <2>2, <1>5 DEF Written
    <3> QED BY <2>2, <3>1, <1>6, JoinIs
  <2> QED BY <2>1, <2>2
<1>8. /\ PktId' = PktId /\ Added' = Added /\ (\A k : ListOf(k)' = ListOf(k)) /\ PktId \subseteq Nat
      /\ Added \in Int
  <2>1. Added \in Int
    BY LoadIs DEF Added, LeftTypes, LeftF, TxSide
  <2> QED BY <2>1, <1>4, LoadSame DEF Added, PktId
<1>9. /\ InOrder(Wire)' /\ BufInv' /\ ToSet(Wire)' \subseteq ToSet(Wire) \cup {h}
      /\ \A k \in PktId : Waits(k) => Before(k)'
  <2>1. CASE ok
    BY <2>1, <1>2, <1>4, <1>7, WireGrows
  <2>2. CASE ~ok
    <3>1. Wire' = Wire
      BY <2>2, <1>7
    <3> QED BY <3>1, <1>4, <1>8 DEF OnceInv, InOrder, BufInv, Sorted, PacketInv, Before
  <2> QED BY <2>1, <2>2
<1> HIDE DEF h
<1>10. ASSUME NEW k \in PktId PROVE PacketInv(k)'
  <2>1. /\ Waits(k)' = Waits(k) /\ ListOf(k)' = ListOf(k) /\ PacketInv(k) /\ Held(k)' = Held(k)
        /\ ListOf(snd.pkt)' = ListOf(h) /\ snd'.pkt = h /\ snd.pkt = h
    BY <1>4, <1>8 DEF Waits, OnceInv, SameOwner, Held, ListOf, P, h
  <2>2. k = h => HandInv(k)'
    <3>1. ~InHand' /\ snd'.put = snd.put /\ ~snd'.put /\ pc' = "transfer"
      BY <1>1, <1>2, <1>4 DEF InHand
    <3> QED BY <3>1, <2>1, <1>1, <1>2, <1>3, <1>4 DEF HandInv, SameOwner
  <2>3. k > Added => k # h
    BY <1>3, <1>8
  <2> QED BY <2>1, <2>2, <2>3, <1>1, <1>2, <1>4, <1>8, <1>9 DEF PacketInv
<1> QED BY <1>8, <1>9, <1>10 DEF OnceInv

\* The end of the call of host_to_card.
LEMMA TransferredOnce ==
  ASSUME TxSide, PortInv, OnceInv, Transferred
  PROVE  OnceInv'
<1>0. SndTypes /\ TxTypes /\ LeftTypes /\ PcTypes
  BY DEF TxSide
<1> DEFINE h == snd.pkt
           late == "post" \in snd.todo
           ret == IF load.sg /\ (snd.put \/ late) THEN "pending" ELSE snd.ret
<1>1. /\ pc = "transfer" /\ snd.todo \subseteq {"post"} /\ pc' = "settle"
      /\ UNCHANGED <<load, wmm, left, wr, card>>
      /\ mpa_tx' = (IF late THEN TxPut(h, snd.port) ELSE mpa_tx)
      /\ done' = (IF ret = "pending" THEN done ELSE Completed({h}, ret))
      /\ SameOwner /\ snd'.ret = ret /\ snd'.todo = {} /\ snd'.put = snd.put
  BY <1>0, TransferredIs
<1>2. pc \in Busy /\ snd.ret \in {"success", "failure"} /\ snd.put \in BOOLEAN
  BY <1>1, <1>0 DEF Busy, PcTypes, SndTypes
<1>3. h \in PktId /\ HandInv(h) /\ h <= Added /\ (InHand => ~Held(h))
  BY <1>2, InFlightIs
<1>r. /\ ret # "resource" /\ (ret = "pending" <=> load.sg /\ (snd.put \/ late))
      /\ (late => InHand /\ ~snd.put)
  BY <1>1, <1>2 DEF InHand, PortInv, Transferring
<1> HIDE DEF ret, late, h
<1>d. ~(load.sg /\ snd.put) => done[h] = <<>>
  BY <1>1, <1>3 DEF HandInv
<1>4. /\ PktId' = PktId /\ Added' = Added /\ (\A k : ListOf(k)' = ListOf(k)) /\ PktId \subseteq Nat
      /\ Added \in Int
  <2>1. Added \in Int
    BY LoadIs DEF Added, LeftTypes, LeftF, TxSide
  <2> QED BY <2>1, <1>1, LoadSame DEF Added, PktId
<1>5. /\ InOrder(Wire)' /\ BufInv' /\ ToSet(Wire)' \subseteq ToSet(Wire) \cup {h}
      /\ \A k \in PktId : Waits(k) => Before(k)'
      /\ \A k : Held(k)' <=> Held(k) \/ (late /\ k = h)
  <2>1. CASE late
    <3>1. Wire' = Append(Wire, snd.pkt) /\ \A j : Held(j)' <=> Held(j) \/ j = h
      BY <2>1, <1>0, <1>1, <1>3, HeldGrows DEF h
    <3> QED BY <2>1, <3>1, <1>1, <1>2, <1>r, WireGrows DEF h
  <2>2. CASE ~late
    <3>1. Wire' = Wire /\ mpa_tx' = mpa_tx
      BY <2>2, <1>1 DEF Wire
    <3> QED BY <2>2, <3>1, <1>1, <1>4 DEF OnceInv, InOrder, BufInv, Sorted, PacketInv, Before, Held
  <2> QED BY <2>1, <2>2
<1>6. /\ ret = "pending" => done' = done
      /\ ret # "pending" => done'[h] # <<>> /\ Len(done'[h]) = 1
                            /\ \A k \in PktId \ {h} : done'[k] = done[k]
  <2>1. CASE ret = "pending"
    BY <2>1, <1>1
  <2>2. CASE ret # "pending"
    <3>1. done' = Completed({h}, ret) /\ done[h] = <<>>
      BY <2>2, <1>1, <1>r, <1>d
    <3> QED BY <2>2, <3>1, <1>3, CompletedIs, CompletedOther
  <2> QED BY <2>1, <2>2
<1>7. ASSUME NEW k \in PktId PROVE PacketInv(k)'
  <2>1. /\ Waits(k)' = Waits(k) /\ ListOf(k)' = ListOf(k) /\ PacketInv(k)
        /\ ListOf(snd.pkt)' = ListOf(h) /\ snd'.pkt = h /\ snd.pkt = h
    BY <1>1, <1>4 DEF Waits, OnceInv, SameOwner, ListOf, P, h
  <2>2. ~InHand' /\ pc' = "settle" /\ pc = "transfer"
    BY <1>1, <1>r DEF InHand
  <2>3. CASE k = h
    <3>1. ~Waits(k) /\ ~(k > Added)
      <4>1. k \in Nat
        BY <1>4
      <4>2. ~Waits(k)
        BY <2>1, <2>3, <4>1, <1>2, InFlightIs
      <4> QED BY <4>1, <4>2, <2>3, <1>3, <1>4
    <3>2. Held(k) => snd.put
      BY <2>3, <2>2, <1>3 DEF HandInv
    <3>3. done'[k] # <<>> \/ Held(k)'
      <4>1. CASE ret = "pending"
        <5>1. done' = done /\ load.sg /\ (snd.put \/ late)
          BY <4>1, <1>6, <1>r
        <5>2. snd.put => done[k] # <<>> \/ Held(k)
          BY <5>1, <2>2, <2>3, <1>3 DEF HandInv
        <5> QED BY <5>1, <5>2, <2>3, <1>5
      <4>2. CASE ret # "pending"
        BY <4>2, <2>3, <1>6
      <4> QED BY <4>1, <4>2
    <3>4. HandInv(k)'
      BY <3>3, <2>1, <2>2, <2>3, <1>3, <1>1 DEF HandInv, SameOwner
    <3>5. Held(k)' /\ load.sg => done'[k] = <<>>
      <4>1. Held(k)' /\ load.sg => ret = "pending"
        BY <3>2, <2>3, <1>5, <1>r
      <4>2. late => done[k] = <<>>
        BY <2>3, <1>d, <1>r
      <4> QED BY <4>1, <4>2, <2>1, <1>5, <1>6 DEF PacketInv
    <3>6. ~load.sg => done'[k] # <<>>
      BY <2>3, <1>6, <1>r
    <3>7. Len(done'[k]) <= 1
      <4>1. Len(done[k]) <= 1
        BY <2>1 DEF PacketInv
      <4>2. CASE ret = "pending"
        BY <4>1, <4>2, <1>6
      <4>3. CASE ret # "pending"
        <5> DEFINE n == Len(done'[k])
        <5>1. n = 1
          BY <4>3, <2>3, <1>6
        <5> HIDE DEF n
        <5>2. n <= 1
          BY <5>1
        <5> QED BY <5>2 DEF n
      <4> QED BY <4>2, <4>3
    <3> QED BY <3>1, <3>3, <3>4, <3>5, <3>6, <3>7, <2>1, <2>3, <1>1, <1>4 DEF PacketInv
  <2>4. CASE k # h
    <3>1. done'[k] = done[k]
      BY <2>4, <1>6
    <3> QED BY <3>1, <2>1, <2>2, <2>4, <1>1, <1>4, <1>5 DEF PacketInv
  <2> QED BY <2>3, <2>4
<1> QED BY <1>4, <1>5, <1>7 DEF OnceInv

--------------------------------------------------------------------------------
(* Every packet is sent once.                                                *)

\* The read path and the card leave the count of the packets to come alone.
LEMMA OtherLeft ==
  ASSUME TxSide, load' = load, RxNext(regs.rd) \/ CardStep
  PROVE  left'.tx = left.tx
<1>1. left' = left \/ Spend("norxbuf") \/ Spend("rfail") \/ Spend("cmd")
  BY DEF RxNext, RxGet, RxGetNoBuf, RxGetNone, ReadAggr, ReadAggrFails, ReadAggrFailsIgnored,
         ReadCur, ReadCurFails, ReadAndDrop, RxEnd, ReadFails,
         CardStep, IrqRead, IrqNote, CardGrants, CardSends, CardAnswers, wmmvars
<1> QED BY <1>1, SpendIs DEF TxSide, LeftF

\* OnceInv is preserved.
LEMMA OnceInvStep ==
  ASSUME TxSide, PortInv, OnceInv, [SdioNext]_allvars
  PROVE  OnceInv'
<1>0. /\ TxTypes /\ SndTypes /\ LeftTypes /\ PcTypes /\ WmmTypes /\ load' = load
  BY StepKinds DEF TxSide
<1>1. CASE WmmStep /\ UNCHANGED txvars
  <2>1. CASE UpdateTxPause
    <3>1. wmm'.buf = wmm.buf /\ left'.tx = left.tx /\ UNCHANGED <<snd, pc, done>>
      BY <2>1, <1>0, PauseIs
    <3> QED BY <3>1, <1>0, <1>1, OnceSame DEF SameHand, txvars
  <2>2. CASE PickNone
    <3>1. wmm'.buf = wmm.buf /\ left' = left /\ UNCHANGED <<snd, done>> /\ pc = "pick" /\ pc' = "loop"
      BY <2>2, <1>0, PickNoneIs
    <3>2. pc \notin Busy /\ pc' \notin Busy /\ snd.pkt = 0 /\ snd'.pkt = 0
      BY <3>1, <1>0 DEF PcTypes, Busy
    <3> QED BY <3>1, <3>2, <1>0, <1>1, OnceSame DEF SameHand, txvars
  <2> QED BY <1>1, <2>1, <2>2, AddBufOnce, DropOnce, DeleteOnce, PickOnce, SettleBackOnce, SettleOnce
          DEF WmmStep
<1>2. CASE PortStep /\ wmm' = wmm
  <2>1. CASE TransferAggr
    <3>1. PICK ok \in BOOLEAN : Flushed(ok)
      BY <2>1, <1>0, TransferAggrIs
    <3>2. /\ pc = "transfer" /\ pc' = pc /\ SameOwner /\ snd'.put = snd.put
          /\ snd'.todo = snd.todo \ {"aggr"} /\ left'.tx = left.tx
      BY <2>1, <1>0, TransferAggrIs
    <3> QED BY <3>1, <3>2, <1>0, <1>2, FlushOnce
  <2> QED BY <1>2, <2>1, GetPortFailsOnce, GetPortOnce, CurOnce, TransferredOnce DEF PortStep
<1>3. CASE LoopStep /\ UNCHANGED <<wmm, snd, done, left, mpa_tx, card>>
  <2>1. pc \notin Busy /\ pc' \notin Busy /\ snd.pkt = 0 /\ snd'.pkt = 0
    BY <1>3, <1>0, LoopIs DEF PcTypes
  <2> QED BY <2>1, <1>0, <1>3, OnceSame DEF SameHand
<1>4. CASE YieldToCmd /\ UNCHANGED <<wmm, snd>>
  <2>1. pc = "again" /\ pc' = "loop" /\ left'.tx = left.tx
    BY <1>4, <1>0, YieldIs DEF LeftSame
  <2>2. CASE TxInProgress
    <3>1. PICK ok \in BOOLEAN : Flushed(ok)
      BY <2>2, <1>4, <1>0, YieldIs
    <3> QED BY <2>1, <3>1, <1>0, <1>4, FlushOnce
  <2>3. CASE ~TxInProgress
    <3>1. UNCHANGED <<done, mpa_tx, card>>
      BY <2>3, <1>4, <1>0, YieldIs
    <3>2. pc \notin Busy /\ pc' \notin Busy /\ snd.pkt = 0 /\ snd'.pkt = 0
      BY <2>1, <1>0, <1>4 DEF PcTypes, Busy
    <3> QED BY <2>1, <3>1, <3>2, <1>0, <1>4, OnceSame DEF SameHand
  <2> QED BY <2>2, <2>3
<1>5. CASE RxNext(regs.rd) /\ UNCHANGED <<wmm, snd, done, txvars>>
  <2>1. pc \notin Busy /\ pc' \notin Busy /\ snd.pkt = 0 /\ snd'.pkt = 0
    BY <1>5, <1>0, RxPcIs DEF PcTypes
  <2> QED BY <2>1, <1>0, <1>5, OtherLeft, OnceSame DEF SameHand, txvars
<1>6. CASE CardStep /\ UNCHANGED <<wmm, snd, pc, done, mpa_tx>>
  <2>1. card'.got = card.got
    <3>1. CASE card' = card
      BY <3>1
    <3>2. CASE CardGrants
      <4>1. PICK n \in Batches : card' = [card EXCEPT !.free = @ \cup Granted(n), !.next = WrNext(@, n)]
        BY <3>2 DEF CardGrants
      <4> QED BY <4>1, <1>0 DEF TxTypes, CardF
    <3> QED BY <1>6, <3>1, <3>2 DEF CardStep, IrqRead, IrqNote, CardSends, CardAnswers, txvars
  <2> QED BY <2>1, <1>0, <1>6, OtherLeft, OnceSame DEF SameHand
<1>7. CASE UNCHANGED allvars
  BY <1>7, <1>0, OnceSame DEF allvars, wmmvars, txvars, SameHand
<1> QED BY <1>1, <1>2, <1>3, <1>4, <1>5, <1>6, <1>7, StepKinds DEF allvars, wmmvars

\* OnceInv implies TxExactlyOnce.
LEMMA OnceInvMeans ==
  ASSUME TxSide, OnceInv
  PROVE  TxExactlyOnce
<1>0. TxTypes /\ WmmTypes /\ LeftTypes /\ load \in Loads
  BY DEF TxSide
<1>1. \A k \in PktId : Len(done[k]) <= 1
  BY DEF OnceInv, PacketInv
<1>2. ASSUME NEW k \in 1 .. Len(load.tx) - left.tx
      PROVE  /\ done[k] = <<>> => Queued(k) \/ Held(k) \/ snd.pkt = k
             /\ Queued(k) \/ (load.sg /\ Held(k)) => done[k] = <<>>
  <2>1. k \in PktId /\ k <= Added
    <3>1. Len(load.tx) \in Nat /\ left.tx \in Nat /\ left.tx <= Len(load.tx)
      BY <1>0, LoadIs DEF LeftTypes, LeftF
    <3> QED BY <3>1 DEF PktId, Added
  <2>2. ListOf(k) \in Lists
    BY <1>0, <2>1, LoadIs
  <2>3. Waits(k) => Queued(k)
    BY <2>2 DEF Waits, Queued
  <2>4. Queued(k) => done[k] = <<>>
    BY <1>0, WaitingIs DEF Queued
  <2> QED BY <2>1, <2>3, <2>4 DEF OnceInv, PacketInv
<1>3. InOrder(card.got)
  BY <1>0, FrontInOrder DEF OnceInv, Wire, TxTypes
<1> QED BY <1>1, <1>2, <1>3 DEF TxExactlyOnce, InOrder

\* No packet that was queued is lost or completed twice, and the packets of a list
\* get to the card in the order they were queued and none twice, over all
\* interleavings of queueing, dropping, deleting and pausing with the aggregation of
\* wlan_host_to_card_mp_aggr, failing writes and packets put back for want of a port.
THEOREM SentOnce == SdioSpec => []TxExactlyOnce
<1>1. SdioInit => TxSide /\ PortInv /\ OnceInv
  BY TxSideInit, PortInvInit, OnceInit
<1>2. (TxSide /\ PortInv /\ OnceInv) /\ [SdioNext]_allvars => (TxSide /\ PortInv /\ OnceInv)'
  BY TxSideStep, PortInvStep, OnceInvStep
<1>3. TxSide /\ OnceInv => TxExactlyOnce
  BY OnceInvMeans
<1> QED BY <1>1, <1>2, <1>3, PTL DEF SdioSpec

--------------------------------------------------------------------------------
(* Counters of lists, stations and priorities.                               *)

\* The counts of a priority, of a station, and of the stations.
Counts == [Lists -> Int]
Row(t, p) == [s \in Sta |-> t[<<p, s>>]]
Col(t, s) == Sum([p \in Prio |-> t[<<p, s>>]], Prio)
Cols(t) == [s \in Sta |-> Col(t, s)]

\* The sets that are summed over are finite.
LEMMA SetsAreFinite ==
  /\ IsFiniteSet(Prio) /\ IsFiniteSet(Sta)
  /\ \A U \in SUBSET Sta : IsFiniteSet(U)
<1>1. IsFiniteSet(Prio)
  <2>1. 0 \in Int /\ HIGH_PRIO_TID \in Int
    BY WmmAssumption
  <2> QED BY <2>1, FS_Interval DEF Prio
<1>2. IsFiniteSet(Sta)
  BY WmmAssumption
<1> QED BY <1>1, <1>2, FS_Subset

\* The counts are integers.
LEMMA CountsAre ==
  ASSUME NEW t \in Counts
  PROVE  /\ \A p \in Prio, s \in Sta : <<p, s>> \in Lists /\ t[<<p, s>>] \in Int /\ Row(t, p)[s] = t[<<p, s>>]
         /\ \A s \in Sta : Col(t, s) \in Int /\ Cols(t)[s] = Col(t, s)
         /\ \A U \in SUBSET Sta : Sum(Cols(t), U) \in Int /\ \A p \in Prio : Sum(Row(t, p), U) \in Int
<1>1. \A p \in Prio, s \in Sta : <<p, s>> \in Lists /\ t[<<p, s>>] \in Int /\ Row(t, p)[s] = t[<<p, s>>]
  BY DEF Counts, Lists, Row
<1>2. ASSUME NEW s \in Sta PROVE Col(t, s) \in Int
  <2> DEFINE f == [p \in Prio |-> t[<<p, s>>]]
  <2>1. \A p \in Prio : f[p] \in Int
    BY <1>1
  <2> HIDE DEF f
  <2>2. Sum(f, Prio) \in Int
    BY <2>1, SetsAreFinite, SumType
  <2> QED BY <2>2 DEF Col, f
<1>3. \A s \in Sta : Cols(t)[s] = Col(t, s)
  BY DEF Cols
<1>4. ASSUME NEW U \in SUBSET Sta PROVE Sum(Cols(t), U) \in Int
  <2>1. \A s \in U : Cols(t)[s] \in Int
    BY <1>2, <1>3
  <2> QED BY <2>1, SetsAreFinite, SumType
<1>5. ASSUME NEW U \in SUBSET Sta, NEW p \in Prio PROVE Sum(Row(t, p), U) \in Int
  <2>1. \A s \in U : Row(t, p)[s] \in Int
    BY <1>1
  <2> QED BY <2>1, SetsAreFinite, SumType
<1> QED BY <1>1, <1>2, <1>3, <1>4, <1>5

\* The sums when the count of one list changes.
LEMMA OneCount ==
  ASSUME NEW t \in Counts, NEW u \in Counts, NEW q \in Prio, NEW r \in Sta, NEW d \in Int,
         u[<<q, r>>] = t[<<q, r>>] + d, \A l \in Lists : l # <<q, r>> => u[l] = t[l],
         NEW U \in SUBSET Sta
  PROVE  /\ \A p \in Prio : Sum(Row(u, p), U) = Sum(Row(t, p), U) + (IF p = q /\ r \in U THEN d ELSE 0)
         /\ Sum(Cols(u), U) = Sum(Cols(t), U) + (IF r \in U THEN d ELSE 0)
         /\ Col(u, r) = Col(t, r) + d
<1>0. IsFiniteSet(U) /\ IsFiniteSet(Prio)
  BY SetsAreFinite
<1>1. \A p \in Prio, s \in Sta : (p # q \/ s # r) => u[<<p, s>>] = t[<<p, s>>]
  BY CountsAre
<1>2. ASSUME NEW p \in Prio
      PROVE  Sum(Row(u, p), U) = Sum(Row(t, p), U) + (IF p = q /\ r \in U THEN d ELSE 0)
  <2>0. \A s \in U : /\ Row(t, p)[s] = t[<<p, s>>] /\ Row(u, p)[s] = u[<<p, s>>]
                     /\ t[<<p, s>>] \in Int /\ u[<<p, s>>] \in Int
    BY CountsAre
  <2>1. CASE p = q /\ r \in U
    <3>1. \A s \in U : Row(t, p)[s] \in Int /\ Row(u, p)[s] \in Int
      BY <2>0
    <3>2. \A s \in U \ {r} : Row(u, p)[s] = Row(t, p)[s]
      BY <2>0, <1>1
    <3>3. Sum(Row(u, p), U) = Sum(Row(t, p), U) + Row(u, p)[r] - Row(t, p)[r]
      BY <2>1, <3>1, <3>2, <1>0, SumChange
    <3>4. Sum(Row(t, p), U) \in Int
      BY CountsAre
    <3>5. Row(u, p)[r] = Row(t, p)[r] + d /\ Row(t, p)[r] \in Int
      BY <2>0, <2>1
    <3> QED BY <2>1, <3>3, <3>4, <3>5
  <2>2. CASE ~(p = q /\ r \in U)
    <3>1. \A s \in U : Row(t, p)[s] \in Int /\ Row(u, p)[s] = Row(t, p)[s]
      BY <2>0, <2>2, <1>1
    <3>2. Sum(Row(u, p), U) = Sum(Row(t, p), U)
      BY <3>1, <1>0, SumSame
    <3>3. Sum(Row(t, p), U) \in Int
      BY CountsAre
    <3> QED BY <2>2, <3>2, <3>3
  <2> QED BY <2>1, <2>2
<1>3. Col(u, r) = Col(t, r) + d
  <2> DEFINE f == [p \in Prio |-> t[<<p, r>>]]
             g == [p \in Prio |-> u[<<p, r>>]]
  <2>1. \A p \in Prio : f[p] \in Int /\ g[p] \in Int
    BY CountsAre
  <2>2. \A p \in Prio \ {q} : g[p] = f[p]
    BY <1>1
  <2>3. g[q] = f[q] + d /\ f[q] \in Int
    BY CountsAre
  <2> HIDE DEF f, g
  <2>4. Sum(g, Prio) = Sum(f, Prio) + g[q] - f[q]
    BY <2>1, <2>2, <1>0, SumChange
  <2>5. Sum(f, Prio) \in Int
    BY <2>1, <1>0, SumType
  <2> QED BY <2>3, <2>4, <2>5 DEF Col, f, g
<1>4. \A s \in Sta \ {r} : Col(u, s) = Col(t, s)
  <2> SUFFICES ASSUME NEW s \in Sta \ {r} PROVE Col(u, s) = Col(t, s)
    OBVIOUS
  <2> DEFINE f == [p \in Prio |-> t[<<p, s>>]]
             g == [p \in Prio |-> u[<<p, s>>]]
  <2>1. f = g
    BY <1>1
  <2> QED BY <2>1 DEF Col
<1>5. Sum(Cols(u), U) = Sum(Cols(t), U) + (IF r \in U THEN d ELSE 0)
  <2>0. \A s \in U : /\ Cols(t)[s] = Col(t, s) /\ Cols(u)[s] = Col(u, s)
                     /\ Col(t, s) \in Int /\ Col(u, s) \in Int
    BY CountsAre
  <2>4. Sum(Cols(t), U) \in Int
    BY CountsAre
  <2>1. CASE r \in U
    <3>1. \A s \in U : Cols(t)[s] \in Int /\ Cols(u)[s] \in Int
      BY <2>0
    <3>2. \A s \in U \ {r} : Cols(u)[s] = Cols(t)[s]
      BY <2>0, <1>4
    <3>3. Sum(Cols(u), U) = Sum(Cols(t), U) + Cols(u)[r] - Cols(t)[r]
      BY <2>1, <3>1, <3>2, <1>0, SumChange
    <3>5. Cols(u)[r] = Cols(t)[r] + d /\ Cols(t)[r] \in Int
      BY <2>0, <2>1, <1>3
    <3> QED BY <2>1, <3>3, <3>5, <2>4
  <2>2. CASE r \notin U
    <3>1. \A s \in U : Cols(t)[s] \in Int /\ Cols(u)[s] = Cols(t)[s]
      BY <2>0, <2>2, <1>4
    <3>2. Sum(Cols(u), U) = Sum(Cols(t), U)
      BY <3>1, <1>0, SumSame
    <3> QED BY <2>2, <3>2, <2>4
  <2> QED BY <2>1, <2>2
<1> QED BY <1>2, <1>3, <1>5

\* The sums when the lists of a station are emptied.
LEMMA ClearCounts ==
  ASSUME NEW t \in Counts, NEW u \in Counts, NEW r \in Sta,
         \A p \in Prio, s \in Sta : u[<<p, s>>] = (IF s = r THEN 0 ELSE t[<<p, s>>]),
         NEW U \in SUBSET Sta
  PROVE  /\ \A p \in Prio : Sum(Row(u, p), U) = Sum(Row(t, p), U) - (IF r \in U THEN t[<<p, r>>] ELSE 0)
         /\ Sum(Cols(u), U) = Sum(Cols(t), U) - (IF r \in U THEN Col(t, r) ELSE 0)
<1>0. IsFiniteSet(U) /\ IsFiniteSet(Prio)
  BY SetsAreFinite
<1>1. ASSUME NEW p \in Prio
      PROVE  Sum(Row(u, p), U) = Sum(Row(t, p), U) - (IF r \in U THEN t[<<p, r>>] ELSE 0)
  <2>0. \A s \in U : /\ Row(t, p)[s] = t[<<p, s>>] /\ Row(u, p)[s] = u[<<p, s>>]
                     /\ t[<<p, s>>] \in Int /\ u[<<p, s>>] \in Int
                     /\ s = r => u[<<p, s>>] = 0
                     /\ s # r => u[<<p, s>>] = t[<<p, s>>]
    <3> SUFFICES ASSUME NEW s \in U
                 PROVE  /\ Row(t, p)[s] = t[<<p, s>>] /\ Row(u, p)[s] = u[<<p, s>>]
                        /\ t[<<p, s>>] \in Int /\ u[<<p, s>>] \in Int
                        /\ s = r => u[<<p, s>>] = 0
                        /\ s # r => u[<<p, s>>] = t[<<p, s>>]
      OBVIOUS
    <3>1. /\ Row(t, p)[s] = t[<<p, s>>] /\ Row(u, p)[s] = u[<<p, s>>]
          /\ t[<<p, s>>] \in Int /\ u[<<p, s>>] \in Int
      BY CountsAre
    <3>2. u[<<p, s>>] = (IF s = r THEN 0 ELSE t[<<p, s>>])
      OBVIOUS
    <3> QED BY <3>1, <3>2
  <2>4. Sum(Row(t, p), U) \in Int
    BY CountsAre
  <2>1. CASE r \in U
    <3>1. \A s \in U : Row(t, p)[s] \in Int /\ Row(u, p)[s] \in Int
      BY <2>0
    <3>2. \A s \in U \ {r} : Row(u, p)[s] = Row(t, p)[s]
      BY <2>0
    <3>3. Sum(Row(u, p), U) = Sum(Row(t, p), U) + Row(u, p)[r] - Row(t, p)[r]
      BY <2>1, <3>1, <3>2, <1>0, SumChange
    <3>5. Row(u, p)[r] = 0 /\ Row(t, p)[r] = t[<<p, r>>] /\ t[<<p, r>>] \in Int
      BY <2>0, <2>1
    <3> QED BY <2>1, <3>3, <2>4, <3>5
  <2>2. CASE r \notin U
    <3>1. \A s \in U : Row(t, p)[s] \in Int /\ Row(u, p)[s] = Row(t, p)[s]
      BY <2>0, <2>2
    <3>2. Sum(Row(u, p), U) = Sum(Row(t, p), U)
      BY <3>1, <1>0, SumSame
    <3> QED BY <2>2, <3>2, <2>4
  <2> QED BY <2>1, <2>2
<1>3. Col(u, r) = 0
  <2> DEFINE g == [p \in Prio |-> u[<<p, r>>]]
             z == [p \in Prio |-> 0]
  <2>1. g = z
    OBVIOUS
  <2> HIDE DEF g
  <2>3. Sum(z, Prio) = 0
    BY <1>0, SumZero
  <2> QED BY <2>1, <2>3 DEF Col, g
<1>4. \A s \in Sta \ {r} : Col(u, s) = Col(t, s)
  <2> SUFFICES ASSUME NEW s \in Sta \ {r} PROVE Col(u, s) = Col(t, s)
    OBVIOUS
  <2> DEFINE f == [p \in Prio |-> t[<<p, s>>]]
             g == [p \in Prio |-> u[<<p, s>>]]
  <2>1. f = g
    OBVIOUS
  <2> QED BY <2>1 DEF Col
<1>5. Sum(Cols(u), U) = Sum(Cols(t), U) - (IF r \in U THEN Col(t, r) ELSE 0)
  <2>0. \A s \in U : /\ Cols(t)[s] = Col(t, s) /\ Cols(u)[s] = Col(u, s)
                     /\ Col(t, s) \in Int /\ Col(u, s) \in Int
    BY CountsAre
  <2>4. Sum(Cols(t), U) \in Int
    BY CountsAre
  <2>1. CASE r \in U
    <3>1. \A s \in U : Cols(t)[s] \in Int /\ Cols(u)[s] \in Int
      BY <2>0
    <3>2. \A s \in U \ {r} : Cols(u)[s] = Cols(t)[s]
      BY <2>0, <1>4
    <3>3. Sum(Cols(u), U) = Sum(Cols(t), U) + Cols(u)[r] - Cols(t)[r]
      BY <2>1, <3>1, <3>2, <1>0, SumChange
    <3>5. Cols(u)[r] = 0 /\ Cols(t)[r] = Col(t, r) /\ Col(t, r) \in Int
      BY <2>0, <2>1, <1>3
    <3> QED BY <2>1, <3>3, <3>5, <2>4
  <2>2. CASE r \notin U
    <3>1. \A s \in U : Cols(t)[s] \in Int /\ Cols(u)[s] = Cols(t)[s]
      BY <2>0, <2>2, <1>4
    <3>2. Sum(Cols(u), U) = Sum(Cols(t), U)
      BY <3>1, <1>0, SumSame
    <3> QED BY <2>2, <3>2, <2>4
  <2> QED BY <2>1, <2>2
<1> QED BY <1>1, <1>5

\* A nonnegative count is nothing if the sum is.
LEMMA NoCount ==
  ASSUME NEW t \in Counts, \A l \in Lists : t[l] \in Nat, NEW U \in SUBSET Sta
  PROVE  /\ \A s \in U, p \in Prio : t[<<p, s>>] <= Sum(Row(t, p), U)
         /\ \A s \in Sta, p \in Prio : t[<<p, s>>] <= Col(t, s)
         /\ \A s \in U : Col(t, s) <= Sum(Cols(t), U)
         /\ \A s \in Sta : Col(t, s) \in Nat
         /\ \A p \in Prio : Sum(Row(t, p), U) \in Nat
<1>0. IsFiniteSet(U) /\ IsFiniteSet(Prio)
  BY SetsAreFinite
<1>1. ASSUME NEW p \in Prio PROVE Sum(Row(t, p), U) \in Nat /\ \A s \in U : t[<<p, s>>] <= Sum(Row(t, p), U)
  <2>1. \A s \in U : Row(t, p)[s] \in Nat /\ Row(t, p)[s] = t[<<p, s>>]
    BY CountsAre
  <2>2. \A s \in U : Row(t, p)[s] <= Sum(Row(t, p), U)
    BY <2>1, <1>0, SumNat
  <2>3. Sum(Row(t, p), U) \in Nat
    BY <2>1, <1>0, SumNat
  <2> QED BY <2>1, <2>2, <2>3
<1>2. ASSUME NEW s \in Sta PROVE Col(t, s) \in Nat /\ \A p \in Prio : t[<<p, s>>] <= Col(t, s)
  <2> DEFINE f == [p \in Prio |-> t[<<p, s>>]]
  <2>1. \A p \in Prio : f[p] \in Nat /\ f[p] = t[<<p, s>>]
    BY CountsAre
  <2> HIDE DEF f
  <2>2. Sum(f, Prio) \in Nat /\ \A p \in Prio : f[p] <= Sum(f, Prio)
    BY <2>1, <1>0, SumNat
  <2> QED BY <2>1, <2>2 DEF Col, f
<1>3. \A s \in U : Col(t, s) <= Sum(Cols(t), U)
  <2>1. \A s \in U : Cols(t)[s] \in Nat /\ Cols(t)[s] = Col(t, s)
    BY <1>2, CountsAre
  <2>2. \A s \in U : Cols(t)[s] <= Sum(Cols(t), U)
    BY <2>1, <1>0, SumNat
  <2> QED BY <2>1, <2>2
<1> QED BY <1>1, <1>2, <1>3

--------------------------------------------------------------------------------
(* The counters, and what changes one list.                                  *)

On == {s \in Sta : ~wmm.paused[s]}
Off == {s \in Sta : wmm.paused[s]}
\* CountersAgree, with the sums of this module.
ListsCounted == \A l \in Lists : wmm.total[l] = Len(wmm.buf[l]) + InFlight(l)
SumsCounted ==
  /\ \A p \in Prio : /\ wmm.queued[p] = Sum(Row(wmm.total, p), Sta) - wmm.short[p]
                     /\ wmm.held[p] = Sum(Row(wmm.total, p), Off)
  /\ wmm.tx_pkts_queued = Sum(Cols(wmm.total), On) - Sum(wmm.short, Prio)
Counted == ListsCounted /\ SumsCounted
Sending == pc \in Busy /\ ~snd.gone

\* CountersAgree is Counted.
LEMMA CountersAre ==
  ASSUME WmmTypes
  PROVE  CountersAgree <=> Counted
<1>0. /\ wmm.total \in Counts /\ wmm.short \in [Prio -> Nat]
      /\ IsFiniteSet(Prio) /\ IsFiniteSet(Sta) /\ On \in SUBSET Sta /\ Off \in SUBSET Sta
      /\ Sta \in SUBSET Sta /\ Off = {s \in Sta : wmm.paused[s]} /\ On = {s \in Sta : ~wmm.paused[s]}
  BY SetsAreFinite DEF WmmTypes, Counts, On, Off
<1>1. ASSUME NEW p \in Prio, NEW U \in SUBSET Sta
      PROVE  MapThenSumSet(LAMBDA s : wmm.total[<<p, s>>], U) = Sum(Row(wmm.total, p), U)
  <2> DEFINE f == [s \in U |-> wmm.total[<<p, s>>]]
  <2>1. MapThenSumSet(LAMBDA s : wmm.total[<<p, s>>], U) = Sum(f, U)
    BY DEF MapThenSumSet, MapThenFoldSet, Sum, IterOf, Some1
  <2>2. \A s \in U : Row(wmm.total, p)[s] \in Int /\ f[s] = Row(wmm.total, p)[s]
    BY <1>0, CountsAre
  <2>3. IsFiniteSet(U)
    BY SetsAreFinite
  <2> HIDE DEF f
  <2>4. Sum(f, U) = Sum(Row(wmm.total, p), U)
    BY <2>2, <2>3, SumSame
  <2> QED BY <2>1, <2>4
<1>2. MapThenSumSet(LAMBDA s : CountOf(wmm, s), On) = Sum(Cols(wmm.total), On)
  <2> DEFINE f == [s \in On |-> CountOf(wmm, s)]
  <2>1. MapThenSumSet(LAMBDA s : CountOf(wmm, s), On) = Sum(f, On)
    BY DEF MapThenSumSet, MapThenFoldSet, Sum, IterOf, Some1
  <2>5. \A s \in On : CountOf(wmm, s) = Col(wmm.total, s)
    BY <1>0, CountOfIs DEF Col
  <2>2. \A s \in On : Cols(wmm.total)[s] \in Int /\ f[s] = Cols(wmm.total)[s]
    BY <1>0, <2>5, CountsAre
  <2>3. IsFiniteSet(On)
    BY <1>0, SetsAreFinite
  <2> HIDE DEF f
  <2>4. Sum(f, On) = Sum(Cols(wmm.total), On)
    BY <2>2, <2>3, SumSame
  <2> QED BY <2>1, <2>4
<1>3. MapThenSumSet(LAMBDA p : wmm.short[p], Prio) = Sum(wmm.short, Prio)
  BY DEF MapThenSumSet, MapThenFoldSet, Sum, IterOf, Some1
<1>4. \A p \in Prio :
         /\ MapThenSumSet(LAMBDA s : wmm.total[<<p, s>>], Sta) = Sum(Row(wmm.total, p), Sta)
         /\ MapThenSumSet(LAMBDA s : wmm.total[<<p, s>>], {s \in Sta : wmm.paused[s]}) = Sum(Row(wmm.total, p), Off)
  BY <1>0, <1>1
<1> QED BY <1>0, <1>2, <1>3, <1>4 DEF CountersAgree, Counted, ListsCounted, SumsCounted

\* What is counted is not negative, and something is counted where something waits.
LEMMA CountedIs ==
  ASSUME WmmTypes, Counted
  PROVE  /\ wmm.total \in Counts /\ \A l \in Lists : wmm.total[l] \in Nat
         /\ \A l \in Lists : InFlight(l) \in {0, 1} /\ Len(wmm.buf[l]) \in Nat
         /\ \A l \in Lists : wmm.buf[l] # <<>> => wmm.total[l] > 0
         /\ On \in SUBSET Sta /\ Off \in SUBSET Sta /\ Sum(wmm.short, Prio) \in Nat
<1>1. \A l \in Lists : InFlight(l) \in {0, 1}
  BY DEF InFlight
<1>2. \A l \in Lists : Len(wmm.buf[l]) \in Nat /\ (wmm.buf[l] # <<>> => Len(wmm.buf[l]) > 0)
  BY BufIs
<1>3. wmm.total \in Counts
  BY DEF WmmTypes, Counts
<1>4. Sum(wmm.short, Prio) \in Nat
  BY SetsAreFinite, SumNat DEF WmmTypes
<1>5. \A l \in Lists : wmm.total[l] = Len(wmm.buf[l]) + InFlight(l)
  BY DEF Counted, ListsCounted
<1>6. ASSUME NEW l \in Lists PROVE wmm.total[l] \in Nat /\ (wmm.buf[l] # <<>> => wmm.total[l] > 0)
  <2> DEFINE i == InFlight(l)
             n == Len(wmm.buf[l])
  <2>1. i \in {0, 1} /\ n \in Nat /\ (wmm.buf[l] # <<>> => n > 0) /\ wmm.total[l] = n + i
    BY <1>1, <1>2, <1>5
  <2> HIDE DEF i, n
  <2> QED BY <2>1
<1> QED BY <1>1, <1>2, <1>3, <1>4, <1>6 DEF On, Off

\* One list is counted differently.
OneList(q, r, d) ==
  /\ wmm'.total[<<q, r>>] = wmm.total[<<q, r>>] + d
  /\ \A l \in Lists : l # <<q, r>> => wmm'.total[l] = wmm.total[l]
  /\ wmm'.paused = wmm.paused /\ wmm'.short = wmm.short
  /\ \A p \in Prio : /\ wmm'.queued[p] = wmm.queued[p] + (IF p = q THEN d ELSE 0)
                     /\ wmm'.held[p] = wmm.held[p] + (IF p = q /\ wmm.paused[r] THEN d ELSE 0)
  /\ wmm'.tx_pkts_queued = wmm.tx_pkts_queued + (IF wmm.paused[r] THEN 0 ELSE d)

\* The counters of the priorities follow.
LEMMA OneListCounted ==
  ASSUME WmmTypes, WmmTypes', SumsCounted, NEW q \in Prio, NEW r \in Sta, NEW d \in Int, OneList(q, r, d)
  PROVE  SumsCounted'
<1> DEFINE t == wmm.total
           u == wmm'.total
           A == On
           B == Off
<1>1. t \in Counts /\ u \in Counts /\ A \in SUBSET Sta /\ B \in SUBSET Sta /\ Sta \in SUBSET Sta
      /\ On' = A /\ Off' = B /\ (r \in A <=> ~wmm.paused[r]) /\ (r \in B <=> wmm.paused[r])
  BY DEF WmmTypes, Counts, On, Off, OneList
<1>2. u[<<q, r>>] = t[<<q, r>>] + d /\ \A l \in Lists : l # <<q, r>> => u[l] = t[l]
  BY DEF OneList
<1> HIDE DEF t, u, A, B
<1>3. \A p \in Prio : /\ Sum(Row(u, p), Sta) = Sum(Row(t, p), Sta) + (IF p = q THEN d ELSE 0)
                      /\ Sum(Row(u, p), B) = Sum(Row(t, p), B) + (IF p = q /\ r \in B THEN d ELSE 0)
  BY <1>1, <1>2, OneCount
<1>4. Sum(Cols(u), A) = Sum(Cols(t), A) + (IF r \in A THEN d ELSE 0)
  BY <1>1, <1>2, OneCount
<1>5. /\ Sum(Cols(t), A) \in Int
      /\ \A p \in Prio : Sum(Row(t, p), Sta) \in Int /\ Sum(Row(t, p), B) \in Int
  BY <1>1, CountsAre
<1>6. Sum(wmm.short, Prio) \in Nat /\ wmm'.short = wmm.short /\ \A p \in Prio : wmm.short[p] \in Nat
  BY SetsAreFinite, SumNat DEF WmmTypes, OneList
<1>7. ASSUME NEW p \in Prio
      PROVE  /\ wmm'.queued[p] = Sum(Row(u, p), Sta) - wmm'.short[p]
             /\ wmm'.held[p] = Sum(Row(u, p), B)
  <2>1. /\ wmm.queued[p] = Sum(Row(t, p), Sta) - wmm.short[p]
        /\ wmm.held[p] = Sum(Row(t, p), B)
    BY DEF SumsCounted, t, B
  <2>2. /\ wmm'.queued[p] = wmm.queued[p] + (IF p = q THEN d ELSE 0)
        /\ wmm'.held[p] = wmm.held[p] + (IF p = q /\ wmm.paused[r] THEN d ELSE 0)
    BY DEF OneList
  <2>3. wmm'.queued[p] = Sum(Row(u, p), Sta) - wmm'.short[p]
    BY <2>1, <2>2, <1>3, <1>5, <1>6
  <2>4. wmm'.held[p] = Sum(Row(u, p), B)
    BY <2>1, <2>2, <1>1, <1>3, <1>5
  <2> QED BY <2>3, <2>4
<1>8. wmm'.tx_pkts_queued = Sum(Cols(u), A) - Sum(wmm'.short, Prio)
  <2>1. wmm.tx_pkts_queued = Sum(Cols(t), A) - Sum(wmm.short, Prio)
    BY DEF SumsCounted, t, A
  <2>2. wmm'.tx_pkts_queued = wmm.tx_pkts_queued + (IF wmm.paused[r] THEN 0 ELSE d)
    BY DEF OneList
  <2> QED BY <2>1, <2>2, <1>1, <1>4, <1>5, <1>6
<1> QED BY <1>1, <1>7, <1>8 DEF SumsCounted, u

\* A packet that is counted off a second time, when its list is gone.
LEMMA ShortCounted ==
  ASSUME WmmTypes, SumsCounted, NEW q \in Prio,
         wmm'.total = wmm.total, wmm'.paused = wmm.paused, wmm'.held = wmm.held,
         wmm'.short = [wmm.short EXCEPT ![q] = @ + 1], wmm'.queued = [wmm.queued EXCEPT ![q] = @ - 1],
         wmm'.tx_pkts_queued = wmm.tx_pkts_queued - 1
  PROVE  SumsCounted'
<1> DEFINE t == wmm.total
           A == On
           B == Off
           f == wmm.short
           g == wmm'.short
<1>1. t \in Counts /\ A \in SUBSET Sta /\ B \in SUBSET Sta /\ Sta \in SUBSET Sta /\ On' = A /\ Off' = B
  BY DEF WmmTypes, Counts, On, Off
<1>2. \A p \in Prio : f[p] \in Int /\ g[p] \in Int /\ g[p] = f[p] + (IF p = q THEN 1 ELSE 0)
  BY DEF WmmTypes
<1>3. /\ \A p \in Prio : wmm.queued[p] = Sum(Row(t, p), Sta) - f[p] /\ wmm.held[p] = Sum(Row(t, p), B)
      /\ wmm.tx_pkts_queued = Sum(Cols(t), A) - Sum(f, Prio)
  BY DEF SumsCounted
<1>4. \A p \in Prio : wmm'.queued[p] = wmm.queued[p] - (IF p = q THEN 1 ELSE 0)
  BY DEF WmmTypes
<1>5. wmm'.total = t /\ wmm'.held = wmm.held
  OBVIOUS
<1> HIDE DEF t, A, B, f, g
<1>6. Sum(g, Prio) = Sum(f, Prio) + g[q] - f[q] /\ Sum(f, Prio) \in Int
  <2>1. \A p \in Prio \ {q} : g[p] = f[p]
    BY <1>2
  <2>2. \A p \in Prio : f[p] \in Int /\ g[p] \in Int
    BY <1>2
  <2>3. Sum(f, Prio) \in Int
    BY <2>2, SetsAreFinite, SumType
  <2> QED BY <2>1, <2>2, <2>3, SetsAreFinite, SumChange
<1>7. /\ Sum(Cols(t), A) \in Int
      /\ \A p \in Prio : Sum(Row(t, p), Sta) \in Int
  BY <1>1, CountsAre
<1>8. ASSUME NEW p \in Prio PROVE wmm'.queued[p] = Sum(Row(t, p), Sta) - g[p]
  BY <1>2, <1>3, <1>4, <1>7
<1>9. wmm'.tx_pkts_queued = Sum(Cols(t), A) - Sum(g, Prio)
  <2>1. g[q] = f[q] + 1 /\ f[q] \in Int
    BY <1>2
  <2> QED BY <2>1, <1>3, <1>6, <1>7
<1> QED BY <1>1, <1>3, <1>5, <1>8, <1>9 DEF SumsCounted, g

--------------------------------------------------------------------------------
(* The counters, and a station that is deleted or paused.                    *)

\* The lists of a station are deleted.
DeletedOf(s) ==
  LET n == IF wmm.paused[s] THEN 0 ELSE CountOf(wmm, s)
  IN  /\ n \in Int
      /\ DOMAIN wmm' = WmmF
      /\ wmm'.buf = [l \in Lists |-> IF l[2] = s THEN <<>> ELSE wmm.buf[l]]
      /\ wmm'.total = [l \in Lists |-> IF l[2] = s THEN 0 ELSE wmm.total[l]]
      /\ wmm'.paused = wmm.paused /\ wmm'.short = wmm.short
      /\ wmm'.queued = [p \in Prio |-> wmm.queued[p] - wmm.total[<<p, s>>]]
      /\ wmm'.held = [p \in Prio |-> IF wmm.paused[s] THEN wmm.held[p] - wmm.total[<<p, s>>]
                                                     ELSE wmm.held[p]]
      /\ wmm'.tx_pkts_queued = wmm.tx_pkts_queued - n
      /\ wmm'.highest = IF n > 0 THEN HIGH_PRIO_TID ELSE wmm.highest

\* CountOf is the count of a station.
LEMMA CountOfCol ==
  ASSUME WmmTypes, NEW s \in Sta
  PROVE  CountOf(wmm, s) = Col(wmm.total, s) /\ Col(wmm.total, s) \in Int
  BY CountOfIs DEF Col

\* The counters follow.
LEMMA DeletedCounted ==
  ASSUME WmmTypes, WmmTypes', SumsCounted, NEW r \in Sta, DeletedOf(r)
  PROVE  SumsCounted'
<1> DEFINE t == wmm.total
           u == wmm'.total
           A == On
           B == Off
           n == IF wmm.paused[r] THEN 0 ELSE CountOf(wmm, r)
<1>1. t \in Counts /\ u \in Counts /\ A \in SUBSET Sta /\ B \in SUBSET Sta /\ Sta \in SUBSET Sta
      /\ On' = A /\ Off' = B /\ (r \in A <=> ~wmm.paused[r]) /\ (r \in B <=> wmm.paused[r])
  BY DEF WmmTypes, Counts, On, Off, DeletedOf
<1>2. \A p \in Prio, s \in Sta : u[<<p, s>>] = (IF s = r THEN 0 ELSE t[<<p, s>>])
  <2> SUFFICES ASSUME NEW p \in Prio, NEW s \in Sta PROVE u[<<p, s>>] = (IF s = r THEN 0 ELSE t[<<p, s>>])
    OBVIOUS
  <2>1. <<p, s>> \in Lists /\ <<p, s>>[2] = s
    BY DEF Lists
  <2> QED BY <2>1 DEF DeletedOf
<1>9. n = (IF r \in A THEN Col(t, r) ELSE 0) /\ wmm'.tx_pkts_queued = wmm.tx_pkts_queued - n
  BY <1>1, CountOfCol DEF DeletedOf
<1> HIDE DEF t, u, A, B, n
<1>3. \A p \in Prio : /\ Sum(Row(u, p), Sta) = Sum(Row(t, p), Sta) - t[<<p, r>>]
                      /\ Sum(Row(u, p), B) = Sum(Row(t, p), B) - (IF r \in B THEN t[<<p, r>>] ELSE 0)
  BY <1>1, <1>2, ClearCounts
<1>4. Sum(Cols(u), A) = Sum(Cols(t), A) - (IF r \in A THEN Col(t, r) ELSE 0)
  BY <1>1, <1>2, ClearCounts
<1>5. /\ Sum(Cols(t), A) \in Int /\ Col(t, r) \in Int
      /\ \A p \in Prio : Sum(Row(t, p), Sta) \in Int /\ Sum(Row(t, p), B) \in Int /\ t[<<p, r>>] \in Int
  BY <1>1, CountsAre
<1>6. Sum(wmm.short, Prio) \in Nat /\ wmm'.short = wmm.short /\ \A p \in Prio : wmm.short[p] \in Nat
  BY SetsAreFinite, SumNat DEF WmmTypes, DeletedOf
<1>7. ASSUME NEW p \in Prio
      PROVE  /\ wmm'.queued[p] = Sum(Row(u, p), Sta) - wmm'.short[p]
             /\ wmm'.held[p] = Sum(Row(u, p), B)
  <2>1. /\ wmm.queued[p] = Sum(Row(t, p), Sta) - wmm.short[p]
        /\ wmm.held[p] = Sum(Row(t, p), B)
    BY DEF SumsCounted, t, B
  <2>2. /\ wmm'.queued[p] = wmm.queued[p] - t[<<p, r>>]
        /\ wmm'.held[p] = (IF wmm.paused[r] THEN wmm.held[p] - t[<<p, r>>] ELSE wmm.held[p])
    BY DEF DeletedOf, t
  <2>3. wmm'.queued[p] = Sum(Row(u, p), Sta) - wmm'.short[p]
    BY <2>1, <2>2, <1>3, <1>5, <1>6
  <2>4. wmm'.held[p] = Sum(Row(u, p), B)
    BY <2>1, <2>2, <1>1, <1>3, <1>5
  <2> QED BY <2>3, <2>4
<1>8. wmm'.tx_pkts_queued = Sum(Cols(u), A) - Sum(wmm'.short, Prio)
  <2>1. wmm.tx_pkts_queued = Sum(Cols(t), A) - Sum(wmm.short, Prio)
    BY DEF SumsCounted, t, A
  <2> QED BY <2>1, <1>4, <1>5, <1>6, <1>9
<1> QED BY <1>1, <1>7, <1>8 DEF SumsCounted, u

\* A station is paused, or no longer.
RepausedOf(s) ==
  LET n == CountOf(wmm, s)
      d == IF wmm.paused[s] THEN -1 ELSE 1
  IN  /\ DOMAIN wmm' = WmmF /\ n \in Int
      /\ wmm'.buf = wmm.buf /\ wmm'.total = wmm.total
      /\ wmm'.paused = [wmm.paused EXCEPT ![s] = ~@] /\ wmm'.short = wmm.short
      /\ wmm'.queued = wmm.queued
      /\ wmm'.held = [p \in Prio |-> wmm.held[p] + d * wmm.total[<<p, s>>]]
      /\ wmm'.tx_pkts_queued = wmm.tx_pkts_queued - d * n
      /\ wmm'.highest = IF n > 0 THEN HIGH_PRIO_TID ELSE wmm.highest

\* The counters follow.
LEMMA RepausedCounted ==
  ASSUME WmmTypes, SumsCounted, NEW r \in Sta, RepausedOf(r)
  PROVE  SumsCounted'
<1> DEFINE t == wmm.total
           A == On
           B == Off
           C == On'
           D == Off'
           h == wmm.held
           k == wmm'.held
<1>1. /\ t \in Counts /\ wmm'.total = t
      /\ A \in SUBSET Sta /\ B \in SUBSET Sta /\ C \in SUBSET Sta /\ D \in SUBSET Sta
      /\ wmm'.queued = wmm.queued /\ wmm'.short = wmm.short
  BY DEF WmmTypes, Counts, On, Off, RepausedOf
<1>2. /\ Sum(Cols(t), A) \in Int /\ Col(t, r) \in Int
      /\ Cols(t)[r] = Col(t, r) /\ \A s \in Sta : Cols(t)[s] \in Int
      /\ \A p \in Prio : /\ Sum(Row(t, p), B) \in Int /\ t[<<p, r>>] \in Int /\ Row(t, p)[r] = t[<<p, r>>]
                         /\ \A s \in Sta : Row(t, p)[s] \in Int
      /\ Sum(Cols(t), C) \in Int /\ \A p \in Prio : Sum(Row(t, p), D) \in Int
  BY <1>1, CountsAre
<1>3. Sum(wmm.short, Prio) \in Nat
  BY SetsAreFinite, SumNat DEF WmmTypes
<1>4. CountOf(wmm, r) = Col(t, r)
  BY CountOfCol
<1>5. /\ wmm.tx_pkts_queued = Sum(Cols(t), A) - Sum(wmm.short, Prio)
      /\ \A p \in Prio : wmm.queued[p] = Sum(Row(t, p), Sta) - wmm.short[p] /\ h[p] = Sum(Row(t, p), B)
  BY DEF SumsCounted
<1>f. IsFiniteSet(A) /\ IsFiniteSet(B) /\ IsFiniteSet(C) /\ IsFiniteSet(D)
  BY <1>1, SetsAreFinite
<1>6. CASE wmm.paused[r]
  <2>1. r \notin A /\ C = A \cup {r} /\ r \notin D /\ B = D \cup {r}
    <3>1. \A s \in Sta : wmm'.paused[s] <=> IF s = r THEN ~wmm.paused[s] ELSE wmm.paused[s]
      BY DEF WmmTypes, RepausedOf
    <3> QED BY <1>6, <3>1 DEF On, Off
  <2>2. /\ \A p \in Prio : k[p] = h[p] + (-1) * t[<<p, r>>]
        /\ wmm'.tx_pkts_queued = wmm.tx_pkts_queued - (-1) * Col(t, r)
    BY <1>6, <1>4 DEF RepausedOf
  <2> HIDE DEF t, A, B, C, D, h, k
  <2>3. Sum(Cols(t), C) = Col(t, r) + Sum(Cols(t), A)
    BY <2>1, <1>1, <1>2, <1>f, SumInsert
  <2>4. ASSUME NEW p \in Prio PROVE Sum(Row(t, p), B) = t[<<p, r>>] + Sum(Row(t, p), D)
    <3>1. \A s \in B : Row(t, p)[s] \in Int
      BY <1>1, <1>2
    <3>2. Sum(Row(t, p), D \cup {r}) = Row(t, p)[r] + Sum(Row(t, p), D)
      BY <2>1, <3>1, <1>f, SumInsert
    <3> QED BY <2>1, <3>2, <1>2
  <2>5. wmm'.tx_pkts_queued = Sum(Cols(t), C) - Sum(wmm'.short, Prio)
    BY <2>2, <2>3, <1>1, <1>2, <1>3, <1>5
  <2>6. ASSUME NEW p \in Prio PROVE k[p] = Sum(Row(t, p), D)
    <3> DEFINE x == t[<<p, r>>]
               y == Sum(Row(t, p), B)
               z == Sum(Row(t, p), D)
    <3>1. x \in Int /\ y \in Int /\ z \in Int
      BY <1>2
    <3>2. k[p] = h[p] + (-1) * x /\ h[p] = y /\ y = x + z
      BY <2>2, <2>4, <1>5
    <3> HIDE DEF x, y, z
    <3>3. k[p] = z
      BY <3>1, <3>2
    <3> QED BY <3>3 DEF z
  <2> QED BY <2>5, <2>6, <1>1, <1>5 DEF SumsCounted, t, C, D, k
<1>7. CASE ~wmm.paused[r]
  <2>1. r \notin B /\ D = B \cup {r} /\ r \notin C /\ A = C \cup {r}
    <3>1. \A s \in Sta : wmm'.paused[s] <=> IF s = r THEN ~wmm.paused[s] ELSE wmm.paused[s]
      BY DEF WmmTypes, RepausedOf
    <3> QED BY <1>7, <3>1 DEF On, Off
  <2>2. /\ \A p \in Prio : k[p] = h[p] + 1 * t[<<p, r>>]
        /\ wmm'.tx_pkts_queued = wmm.tx_pkts_queued - 1 * Col(t, r)
    BY <1>7, <1>4 DEF RepausedOf
  <2> HIDE DEF t, A, B, C, D, h, k
  <2>3. Sum(Cols(t), A) = Col(t, r) + Sum(Cols(t), C)
    BY <2>1, <1>1, <1>2, <1>f, SumInsert
  <2>4. ASSUME NEW p \in Prio PROVE Sum(Row(t, p), D) = t[<<p, r>>] + Sum(Row(t, p), B)
    <3>1. \A s \in D : Row(t, p)[s] \in Int
      BY <1>1, <1>2
    <3>2. Sum(Row(t, p), B \cup {r}) = Row(t, p)[r] + Sum(Row(t, p), B)
      BY <2>1, <3>1, <1>f, SumInsert
    <3> QED BY <2>1, <3>2, <1>2
  <2>5. wmm'.tx_pkts_queued = Sum(Cols(t), C) - Sum(wmm'.short, Prio)
    BY <2>2, <2>3, <1>1, <1>2, <1>3, <1>5
  <2>6. ASSUME NEW p \in Prio PROVE k[p] = Sum(Row(t, p), D)
    <3> DEFINE x == t[<<p, r>>]
               y == Sum(Row(t, p), B)
               z == Sum(Row(t, p), D)
    <3>1. x \in Int /\ y \in Int /\ z \in Int
      BY <1>2
    <3>2. k[p] = h[p] + 1 * x /\ h[p] = y /\ z = x + y
      BY <2>2, <2>4, <1>5
    <3> HIDE DEF x, y, z
    <3>3. k[p] = z
      BY <3>1, <3>2
    <3> QED BY <3>3 DEF z
  <2> QED BY <2>5, <2>6, <1>1, <1>5 DEF SumsCounted, t, C, D, k
<1> QED BY <1>6, <1>7

--------------------------------------------------------------------------------
(* The counters, and the steps of the queues.                                *)

\* AddBuf counts the packet it adds.
LEMMA AddBufCounted ==
  ASSUME TxSide, WmmTypes', Counted, AddBuf
  PROVE  Counted'
<1>0. WmmTypes /\ LeftTypes /\ load \in Loads /\ ListsCounted /\ SumsCounted
  BY DEF TxSide, Counted
<1> DEFINE k == Len(load.tx) - left.tx + 1
           s == P(k).sta
           p == P(k).prio
           off == wmm.paused[s]
<1>1. /\ p \in Prio /\ s \in Sta /\ <<p, s>> \in Lists /\ snd' = snd
      /\ wmm'.buf = [wmm.buf EXCEPT ![<<p, s>>] = Append(@, k)]
      /\ wmm'.total = [wmm.total EXCEPT ![<<p, s>>] = @ + 1]
      /\ wmm'.paused = wmm.paused /\ wmm'.short = wmm.short
      /\ wmm'.queued = [wmm.queued EXCEPT ![p] = @ + 1]
      /\ wmm'.held = IF off THEN [wmm.held EXCEPT ![p] = @ + 1] ELSE wmm.held
      /\ wmm'.tx_pkts_queued = IF off THEN wmm.tx_pkts_queued ELSE wmm.tx_pkts_queued + 1
      /\ k \in PktId
  <2>1. snd' = snd
    BY DEF AddBuf
  <2> QED BY <1>0, <2>1, AddBufIs DEF ListOf
<1> HIDE DEF k, s, p
<1>2. OneList(p, s, 1)
  <2>1. \A q \in Prio : wmm'.queued[q] = wmm.queued[q] + (IF q = p THEN 1 ELSE 0)
    BY SMTT(30), <1>0, <1>1 DEF WmmTypes
  <2>2. wmm'.total[<<p, s>>] = wmm.total[<<p, s>>] + 1
    BY <1>0, <1>1 DEF WmmTypes
  <2>3. \A q \in Prio : wmm'.held[q] = wmm.held[q] + (IF q = p /\ wmm.paused[s] THEN 1 ELSE 0)
    BY <1>0, <1>1 DEF WmmTypes
  <2>4. \A l \in Lists : l # <<p, s>> => wmm'.total[l] = wmm.total[l]
    BY <1>0, <1>1 DEF WmmTypes
  <2>5. wmm'.tx_pkts_queued = wmm.tx_pkts_queued + (IF wmm.paused[s] THEN 0 ELSE 1)
    BY <1>0, <1>1 DEF WmmTypes
  <2> QED BY <1>1, <2>1, <2>2, <2>3, <2>4, <2>5 DEF OneList
<1>3. ListsCounted'
  <2> SUFFICES ASSUME NEW l \in Lists PROVE wmm'.total[l] = Len(wmm'.buf[l]) + InFlight(l)'
    BY DEF ListsCounted
  <2>1. InFlight(l)' = InFlight(l) /\ InFlight(l) \in {0, 1}
    BY <1>1 DEF InFlight
  <2>2. wmm.total[l] = Len(wmm.buf[l]) + InFlight(l) /\ Len(wmm.buf[l]) \in Nat /\ wmm.buf[l] \in Seq(PktId)
    BY <1>0, BufIs DEF ListsCounted, Ids
  <2>3. CASE l = <<p, s>>
    <3>1. wmm'.total[l] = wmm.total[l] + 1 /\ wmm'.buf[l] = Append(wmm.buf[l], k)
      BY <1>0, <1>1, <2>3 DEF WmmTypes
    <3>2. Len(wmm'.buf[l]) = Len(wmm.buf[l]) + 1
      BY <1>1, <2>2, <3>1
    <3> QED BY <2>1, <2>2, <3>1, <3>2
  <2>4. CASE l # <<p, s>>
    <3>1. wmm'.total[l] = wmm.total[l] /\ wmm'.buf[l] = wmm.buf[l]
      BY <1>0, <1>1, <2>4 DEF WmmTypes
    <3> QED BY <2>1, <2>2, <3>1
  <2> QED BY <2>3, <2>4
<1> QED BY <1>0, <1>1, <1>2, <1>3, OneListCounted DEF Counted

\* DropTxPkt takes off the packet it drops.
LEMMA DropCounted ==
  ASSUME TxSide, WmmTypes', Counted, DropTxPkt
  PROVE  Counted'
<1>0. WmmTypes /\ LeftTypes /\ ListsCounted /\ SumsCounted /\ snd' = snd
  BY DropIs DEF TxSide, Counted
<1>1. PICK p \in Prio, s \in Sta :
              LET l == <<p, s>>
                  off == wmm.paused[s]
              IN  /\ l \in Lists /\ wmm.buf[l] # <<>>
                  /\ wmm'.buf = [wmm.buf EXCEPT ![l] = Tail(@)]
                  /\ wmm'.total = [wmm.total EXCEPT ![l] = @ - 1]
                  /\ wmm'.paused = wmm.paused /\ wmm'.short = wmm.short
                  /\ wmm'.queued = [wmm.queued EXCEPT ![p] = @ - 1]
                  /\ wmm'.held = IF off THEN [wmm.held EXCEPT ![p] = @ - 1] ELSE wmm.held
                  /\ wmm'.tx_pkts_queued = IF off THEN wmm.tx_pkts_queued ELSE wmm.tx_pkts_queued - 1
  BY <1>0, DropIs
<1>2. OneList(p, s, -1)
  <2>1. \A q \in Prio : wmm'.queued[q] = wmm.queued[q] + (IF q = p THEN -1 ELSE 0)
    BY <1>0, <1>1 DEF WmmTypes
  <2>2. wmm'.total[<<p, s>>] = wmm.total[<<p, s>>] + -1
    BY <1>0, <1>1 DEF WmmTypes
  <2>3. \A q \in Prio : wmm'.held[q] = wmm.held[q] + (IF q = p /\ wmm.paused[s] THEN -1 ELSE 0)
    BY <1>0, <1>1 DEF WmmTypes
  <2>4. \A l \in Lists : l # <<p, s>> => wmm'.total[l] = wmm.total[l]
    BY <1>0, <1>1 DEF WmmTypes
  <2>5. wmm'.tx_pkts_queued = wmm.tx_pkts_queued + (IF wmm.paused[s] THEN 0 ELSE -1)
    BY <1>0, <1>1 DEF WmmTypes
  <2> QED BY <1>1, <2>1, <2>2, <2>3, <2>4, <2>5 DEF OneList
<1>3. ListsCounted'
  <2> SUFFICES ASSUME NEW l \in Lists PROVE wmm'.total[l] = Len(wmm'.buf[l]) + InFlight(l)'
    BY DEF ListsCounted
  <2>1. InFlight(l)' = InFlight(l) /\ InFlight(l) \in {0, 1}
    BY <1>0 DEF InFlight
  <2>2. wmm.total[l] = Len(wmm.buf[l]) + InFlight(l) /\ Len(wmm.buf[l]) \in Nat /\ wmm.buf[l] \in Seq(PktId)
    BY <1>0, BufIs DEF ListsCounted, Ids
  <2>3. CASE l = <<p, s>>
    <3>1. wmm'.total[l] = wmm.total[l] - 1 /\ wmm'.buf[l] = Tail(wmm.buf[l]) /\ wmm.buf[l] # <<>>
      BY <1>0, <1>1, <2>3 DEF WmmTypes
    <3>2. Len(wmm'.buf[l]) = Len(wmm.buf[l]) - 1
      BY <2>2, <3>1
    <3> QED BY <2>1, <2>2, <3>1, <3>2
  <2>4. CASE l # <<p, s>>
    <3>1. wmm'.total[l] = wmm.total[l] /\ wmm'.buf[l] = wmm.buf[l]
      BY <1>0, <1>1, <2>4 DEF WmmTypes
    <3> QED BY <2>1, <2>2, <3>1
  <2> QED BY <2>3, <2>4
<1> QED BY <1>0, <1>2, <1>3, OneListCounted DEF Counted

\* DeletePeer takes off what it deletes.
LEMMA DeleteCounted ==
  ASSUME TxSide, WmmTypes', Counted, DeletePeer
  PROVE  Counted'
<1>0. WmmTypes /\ LeftTypes /\ SndTypes /\ ListsCounted /\ SumsCounted
  BY DEF TxSide, Counted
<1>1. PICK s \in Sta : DeletedOf(s) /\ snd' = [snd EXCEPT !.gone = @ \/ snd.sta = s]
  BY <1>0, DeleteIs DEF DeletedOf
<1>2. /\ snd'.pkt = snd.pkt /\ snd'.proc = snd.proc /\ snd'.prio = snd.prio /\ snd'.sta = snd.sta
      /\ snd'.gone <=> (snd.gone \/ snd.sta = s)
  BY <1>0, <1>1 DEF SndTypes, SndF
<1>3. ListsCounted'
  <2> SUFFICES ASSUME NEW l \in Lists PROVE wmm'.total[l] = Len(wmm'.buf[l]) + InFlight(l)'
    BY DEF ListsCounted
  <2>2. wmm.total[l] = Len(wmm.buf[l]) + InFlight(l)
    BY <1>0 DEF ListsCounted
  <2>3. CASE l[2] = s
    <3>1. wmm'.total[l] = 0 /\ wmm'.buf[l] = <<>>
      BY <1>1, <2>3 DEF DeletedOf
    <3>2. InFlight(l)' = 0
      BY <1>2, <2>3 DEF InFlight
    <3>3. Len(wmm'.buf[l]) = 0
      BY <3>1
    <3> QED BY <3>1, <3>2, <3>3
  <2>4. CASE l[2] # s
    <3>1. wmm'.total[l] = wmm.total[l] /\ wmm'.buf[l] = wmm.buf[l]
      BY <1>1, <2>4 DEF DeletedOf
    <3>2. InFlight(l)' = InFlight(l)
      BY <1>2, <2>4 DEF InFlight
    <3> QED BY <2>2, <3>1, <3>2
  <2> QED BY <2>3, <2>4
<1> QED BY <1>0, <1>1, <1>3, DeletedCounted DEF Counted

\* UpdateTxPause moves what is counted.
LEMMA PauseCounted ==
  ASSUME TxSide, Counted, UpdateTxPause
  PROVE  Counted'
<1>0. WmmTypes /\ LeftTypes /\ ListsCounted /\ SumsCounted /\ snd' = snd
  BY PauseIs DEF TxSide, Counted
<1>1. PICK s \in Sta : RepausedOf(s)
  BY <1>0, PauseIs DEF RepausedOf
<1>2. ListsCounted'
  BY <1>0, <1>1 DEF ListsCounted, InFlight, RepausedOf
<1> QED BY <1>0, <1>1, <1>2, RepausedCounted DEF Counted

\* A step that leaves the queues and the packet in flight alone.
LEMMA SameCounted ==
  ASSUME Counted, wmm'.buf = wmm.buf, wmm'.total = wmm.total, wmm'.paused = wmm.paused,
         wmm'.queued = wmm.queued, wmm'.held = wmm.held, wmm'.short = wmm.short,
         wmm'.tx_pkts_queued = wmm.tx_pkts_queued,
         \A l \in Lists : InFlight(l)' = InFlight(l)
  PROVE  Counted'
  BY DEF Counted, ListsCounted, SumsCounted, On, Off

\* Pick takes off the packet, if it is a new one.
LEMMA PickCounted ==
  ASSUME TxSide, WmmTypes', Counted, Pick
  PROVE  Counted'
<1>0. WmmTypes /\ PcTypes /\ ListsCounted /\ SumsCounted /\ pc = "pick" /\ snd.pkt = 0
  BY PickIs DEF TxSide, Counted, PcTypes, Busy
<1>1. PICK p \in Prio, s \in Sta : Picked(p, s)
  BY <1>0, PickIs
<1> DEFINE k == Head(wmm.buf[<<p, s>>])
           n == IF k \in wmm.requeued THEN 0 ELSE 1
<1>2. /\ <<p, s>> \in Lists /\ wmm.buf[<<p, s>>] # <<>> /\ ~wmm.paused[s] /\ n \in {0, 1}
      /\ wmm'.buf = [wmm.buf EXCEPT ![<<p, s>>] = Tail(@)]
      /\ wmm'.total = [wmm.total EXCEPT ![<<p, s>>] = @ - n]
      /\ wmm'.paused = wmm.paused /\ wmm'.short = wmm.short
      /\ wmm'.queued = [wmm.queued EXCEPT ![p] = @ - n]
      /\ wmm'.held = wmm.held
      /\ wmm'.tx_pkts_queued = wmm.tx_pkts_queued - n
      /\ snd'.prio = p /\ snd'.sta = s /\ snd'.pkt = k /\ snd'.proc = (k \in wmm.requeued) /\ snd'.gone = FALSE
  BY <1>1 DEF Picked, Sendable, Lists
<1>3. k \in PktId /\ k # 0
  BY <1>0, <1>2, BufIs DEF PktId
<1>4. (snd'.proc <=> n = 0) /\ snd'.pkt # 0 /\ ~snd'.gone
  <2>1. snd'.proc <=> k \in wmm.requeued
    BY <1>2, Zenon
  <2>2. k \in wmm.requeued <=> n = 0
    OBVIOUS
  <2> HIDE DEF k, n
  <2> QED BY <1>2, <1>3, <2>1, <2>2
<1> HIDE DEF k, n
<1>5. OneList(p, s, -n)
  <2>1. \A q \in Prio : wmm'.queued[q] = wmm.queued[q] + (IF q = p THEN -n ELSE 0)
    BY SMTT(30), <1>0, <1>2 DEF WmmTypes
  <2>2. wmm'.total[<<p, s>>] = wmm.total[<<p, s>>] + -n
    BY <1>0, <1>2 DEF WmmTypes
  <2>3. \A q \in Prio : wmm'.held[q] = wmm.held[q] + (IF q = p /\ wmm.paused[s] THEN -n ELSE 0)
    BY <1>0, <1>2 DEF WmmTypes
  <2>4. \A l \in Lists : l # <<p, s>> => wmm'.total[l] = wmm.total[l]
    BY <1>0, <1>2 DEF WmmTypes
  <2>5. wmm'.tx_pkts_queued = wmm.tx_pkts_queued + (IF wmm.paused[s] THEN 0 ELSE -n)
    BY <1>0, <1>2 DEF WmmTypes
  <2> QED BY <1>2, <2>1, <2>2, <2>3, <2>4, <2>5 DEF OneList
<1>6. ListsCounted'
  <2> SUFFICES ASSUME NEW l \in Lists PROVE wmm'.total[l] = Len(wmm'.buf[l]) + InFlight(l)'
    BY DEF ListsCounted
  <2>1. InFlight(l) = 0 /\ InFlight(l)' = (IF l = <<p, s>> THEN 1 - n ELSE 0)
    BY <1>0, <1>2, <1>4 DEF InFlight
  <2>2. wmm.total[l] = Len(wmm.buf[l]) + InFlight(l) /\ Len(wmm.buf[l]) \in Nat /\ wmm.buf[l] \in Seq(PktId)
    BY <1>0, BufIs DEF ListsCounted, Ids
  <2>3. CASE l = <<p, s>>
    <3>1. wmm'.total[l] = wmm.total[l] - n /\ wmm'.buf[l] = Tail(wmm.buf[l]) /\ wmm.buf[l] # <<>>
      BY <1>0, <1>2, <2>3 DEF WmmTypes
    <3>2. Len(wmm'.buf[l]) = Len(wmm.buf[l]) - 1
      BY <2>2, <3>1
    <3> QED BY <1>2, <2>1, <2>2, <2>3, <3>1, <3>2
  <2>4. CASE l # <<p, s>>
    <3>1. wmm'.total[l] = wmm.total[l] /\ wmm'.buf[l] = wmm.buf[l]
      BY <1>0, <1>2, <2>4 DEF WmmTypes
    <3> QED BY <2>1, <2>2, <2>4, <3>1
  <2> QED BY <2>3, <2>4
<1>7. -n \in Int
  BY <1>2
<1> QED BY <1>0, <1>5, <1>6, <1>7, OneListCounted DEF Counted

\* SettleBack counts the packet again, if Pick took it off.
LEMMA SettleBackCounted ==
  ASSUME TxSide, WmmTypes', Counted, Sending => ~wmm.paused[snd.sta], SettleBack
  PROVE  Counted'
<1>0. /\ WmmTypes /\ SndTypes /\ PcTypes /\ ListsCounted /\ SumsCounted /\ pc = "settle" /\ pc \in Busy
      /\ snd.pkt \in PktId /\ snd.sta \in Sta /\ snd.prio \in Prio /\ snd.pkt # 0
  BY SettleBackIs DEF TxSide, Counted, PcTypes, Busy, SndTypes, PktId
<1>1. snd'.pkt = 0 /\ \A l \in Lists : InFlight(l)' = 0
  BY <1>0, SettleBackIs DEF Idle, InFlight
<1>2. CASE snd.gone
  <2>1. wmm' = wmm /\ \A l \in Lists : InFlight(l) = 0
    BY <1>0, <1>2, SettleBackIs DEF InFlight
  <2> QED BY <1>1, <2>1, SameCounted
<1>3. CASE ~snd.gone
  <2> DEFINE p == snd.prio
             s == snd.sta
             k == snd.pkt
             n == IF snd.proc THEN 0 ELSE 1
  <2>1. /\ <<p, s>> \in Lists /\ n \in {0, 1} /\ ~wmm.paused[s] /\ p \in Prio /\ s \in Sta
        /\ wmm'.buf = [wmm.buf EXCEPT ![<<p, s>>] = <<k>> \o @]
        /\ wmm'.total = [wmm.total EXCEPT ![<<p, s>>] = @ + n]
        /\ wmm'.paused = wmm.paused /\ wmm'.short = wmm.short
        /\ wmm'.queued = [wmm.queued EXCEPT ![p] = @ + n]
        /\ wmm'.held = wmm.held
        /\ wmm'.tx_pkts_queued = wmm.tx_pkts_queued + n
        /\ \A l \in Lists : InFlight(l) = (IF l = <<p, s>> THEN 1 - n ELSE 0)
        /\ k \in PktId
    BY <1>0, <1>3, SettleBackIs DEF PutBack, Lists, Sending, InFlight
  <2> HIDE DEF p, s, n, k
  <2>2. OneList(p, s, n)
    <3>1. \A q \in Prio : wmm'.queued[q] = wmm.queued[q] + (IF q = p THEN n ELSE 0)
      BY <1>0, <2>1 DEF WmmTypes
    <3>2. wmm'.total[<<p, s>>] = wmm.total[<<p, s>>] + n
      BY <1>0, <2>1 DEF WmmTypes
    <3>3. \A q \in Prio : wmm'.held[q] = wmm.held[q] + (IF q = p /\ wmm.paused[s] THEN n ELSE 0)
      BY <1>0, <2>1 DEF WmmTypes
    <3>4. \A l \in Lists : l # <<p, s>> => wmm'.total[l] = wmm.total[l]
      BY <1>0, <2>1 DEF WmmTypes
    <3> QED BY <2>1, <3>1, <3>2, <3>3, <3>4 DEF OneList
  <2>3. ListsCounted'
    <3> SUFFICES ASSUME NEW l \in Lists PROVE wmm'.total[l] = Len(wmm'.buf[l]) + InFlight(l)'
      BY DEF ListsCounted
    <3>2. wmm.total[l] = Len(wmm.buf[l]) + InFlight(l) /\ Len(wmm.buf[l]) \in Nat /\ wmm.buf[l] \in Seq(PktId)
      BY <1>0, BufIs DEF ListsCounted, Ids
    <3>3. CASE l = <<p, s>>
      <4>1. wmm'.total[l] = wmm.total[l] + n /\ wmm'.buf[l] = <<k>> \o wmm.buf[l]
        BY <1>0, <2>1, <3>3 DEF WmmTypes
      <4>2. Len(wmm'.buf[l]) = Len(wmm.buf[l]) + 1
        BY <2>1, <3>2, <4>1
      <4>3. InFlight(l) = 1 - n /\ InFlight(l)' = 0
        BY <1>1, <2>1, <3>3
      <4> QED BY <2>1, <3>2, <4>1, <4>2, <4>3
    <3>4. CASE l # <<p, s>>
      <4>1. wmm'.total[l] = wmm.total[l] /\ wmm'.buf[l] = wmm.buf[l]
        BY <1>0, <2>1, <3>4 DEF WmmTypes
      <4> QED BY <1>1, <2>1, <3>2, <3>4, <4>1
    <3> QED BY <3>3, <3>4
  <2>4. n \in Int
    BY <2>1
  <2> QED BY <1>0, <2>1, <2>2, <2>3, <2>4, OneListCounted DEF Counted
<1> QED BY <1>2, <1>3

\* Settle takes off the packet, if Pick did not; once more if DeletePeer did.
LEMMA SettleCounted ==
  ASSUME TxSide, WmmTypes', Counted, Sending => ~wmm.paused[snd.sta], Settle
  PROVE  Counted'
<1>0. /\ WmmTypes /\ SndTypes /\ PcTypes /\ ListsCounted /\ SumsCounted /\ pc = "settle" /\ pc \in Busy
      /\ snd.pkt \in PktId /\ snd.sta \in Sta /\ snd.prio \in Prio /\ snd.pkt # 0
  BY SettleIs DEF TxSide, Counted, PcTypes, Busy, SndTypes, PktId
<1>1. snd'.pkt = 0 /\ \A l \in Lists : InFlight(l)' = 0
  BY <1>0, SettleIs DEF Idle, InFlight
<1>2. CASE ~snd.proc
  <2>1. wmm' = wmm /\ \A l \in Lists : InFlight(l) = 0
    BY <1>0, <1>2, SettleIs DEF InFlight
  <2> QED BY <1>1, <2>1, SameCounted
<1>3. CASE snd.proc /\ snd.gone
  <2>1. /\ wmm'.buf = wmm.buf /\ wmm'.total = wmm.total /\ wmm'.paused = wmm.paused /\ wmm'.held = wmm.held
        /\ wmm'.queued = [wmm.queued EXCEPT ![snd.prio] = @ - 1]
        /\ wmm'.short = [wmm.short EXCEPT ![snd.prio] = @ + 1]
        /\ wmm'.tx_pkts_queued = wmm.tx_pkts_queued - 1
        /\ \A l \in Lists : InFlight(l) = 0
    BY <1>0, <1>3, SettleIs DEF TakenOff, InFlight
  <2>2. SumsCounted'
    BY <1>0, <2>1, ShortCounted
  <2> QED BY <1>0, <1>1, <2>1, <2>2 DEF Counted, ListsCounted
<1>4. CASE snd.proc /\ ~snd.gone
  <2> DEFINE p == snd.prio
             s == snd.sta
  <2>1. /\ <<p, s>> \in Lists /\ ~wmm.paused[s] /\ p \in Prio /\ s \in Sta
        /\ wmm'.buf = wmm.buf
        /\ wmm'.total = [wmm.total EXCEPT ![<<p, s>>] = @ - 1]
        /\ wmm'.paused = wmm.paused /\ wmm'.short = wmm.short
        /\ wmm'.queued = [wmm.queued EXCEPT ![p] = @ - 1]
        /\ wmm'.held = wmm.held
        /\ wmm'.tx_pkts_queued = wmm.tx_pkts_queued - 1
        /\ \A l \in Lists : InFlight(l) = (IF l = <<p, s>> THEN 1 ELSE 0)
    BY <1>0, <1>4, SettleIs DEF TakenOff, Lists, Sending, InFlight
  <2> HIDE DEF p, s
  <2>2. OneList(p, s, -1)
    BY <1>0, <2>1 DEF OneList, WmmTypes
  <2>3. ListsCounted'
    <3> SUFFICES ASSUME NEW l \in Lists PROVE wmm'.total[l] = Len(wmm'.buf[l]) + InFlight(l)'
      BY DEF ListsCounted
    <3>2. wmm.total[l] = Len(wmm.buf[l]) + InFlight(l) /\ Len(wmm.buf[l]) \in Nat
      BY <1>0, BufIs DEF ListsCounted
    <3>3. wmm'.total[l] = IF l = <<p, s>> THEN wmm.total[l] - 1 ELSE wmm.total[l]
      BY <1>0, <2>1 DEF WmmTypes
    <3> QED BY <1>1, <2>1, <3>2, <3>3
  <2> QED BY <1>0, <2>1, <2>2, <2>3, OneListCounted DEF Counted
<1> QED BY <1>2, <1>3, <1>4

--------------------------------------------------------------------------------
(* The search for a packet.                                                  *)

\* The search from highest_queued_prio comes to priority p.
Seen(p) == p <= wmm.highest \/ (SameAc(p) = wmm.highest /\ Sendable(wmm.highest) # {})
\* A list whose packet is in flight can be sent from when the packet comes back, and
\* the search comes to it.
HandSeen ==
  /\ Seen(snd.prio)
  /\ Sendable(SameAc(snd.prio)) # {} => SameAc(snd.prio) <= wmm.highest
NotPaused == Sending => ~wmm.paused[snd.sta]
Searched ==
  /\ SearchMissesNone
  /\ NothingShort /\ Sending => HandSeen
QueueInv == Counted /\ NotPaused /\ Searched

\* The two priorities of an access category are neighbours.
LEMMA SameAcIs ==
  ASSUME NEW p \in Prio
  PROVE  /\ SameAc(p) \in Prio /\ SameAc(SameAc(p)) = p /\ SameAc(p) \in {p - 1, p + 1}
         /\ p \in Int /\ SameAc(p) \in Int
<1>1. SameAc(p) \in Prio
  BY SameAcIn
<1>2. p \in Nat
  BY DEF Prio
<1>3. CASE p % 2 = 1
  <2>1. SameAc(p) = p - 1 /\ (p - 1) % 2 = 0
    BY <1>2, <1>3 DEF SameAc
  <2> QED BY <1>1, <1>2, <2>1 DEF SameAc
<1>4. CASE p % 2 # 1
  <2>1. SameAc(p) = p + 1 /\ (p + 1) % 2 = 1
    BY <1>2, <1>4 DEF SameAc
  <2> QED BY <1>1, <1>2, <2>1 DEF SameAc
<1> QED BY <1>3, <1>4

\* What is seen stays seen when highest_queued_prio grows.
LEMMA SeenMore ==
  ASSUME WmmTypes, WmmTypes', NEW p \in Prio, Seen(p), wmm.highest <= wmm'.highest,
         \A q \in Prio : q = wmm.highest /\ q = wmm'.highest => Sendable(q) \subseteq Sendable(q)'
  PROVE  Seen(p)'
<1> DEFINE h == wmm.highest
           k == wmm'.highest
           q == SameAc(p)
<1>1. h \in Int /\ k \in Int /\ p \in Int /\ q \in {p - 1, p + 1} /\ h <= k
  <2>1. p \in Int /\ q \in {p - 1, p + 1}
    BY SameAcIs
  <2>2. h \in Int /\ k \in Int
    BY WmmAssumption DEF WmmTypes, Highest, Prio, NO_PKT_PRIO_TID
  <2> QED BY <2>1, <2>2
<1>2. CASE p <= h
  BY <1>1, <1>2 DEF Seen
<1>3. CASE p > h /\ h = k
  <2>0. PICK r \in Prio : r = SameAc(p)
    BY SameAcIs
  <2>1. r = wmm.highest /\ Sendable(r) # {} /\ r = wmm'.highest
    BY <1>1, <1>3, <2>0 DEF Seen
  <2>2. Sendable(r)' # {}
    BY <2>1
  <2> QED BY <2>0, <2>1, <2>2 DEF Seen, Sendable
<1>4. CASE p > h /\ h < k
  <2>1. q = h
    BY <1>1, <1>4 DEF Seen
  <2>2. p <= k
    BY <1>1, <1>4, <2>1
  <2> QED BY <2>2 DEF Seen
<1> QED BY <1>1, <1>2, <1>3, <1>4

\* With the highest priority everything is seen.
LEMMA SeenAll ==
  ASSUME wmm'.highest = HIGH_PRIO_TID
  PROVE  \A p \in Prio : p <= wmm'.highest /\ Seen(p)'
  BY DEF Seen, Prio

\* A step after which everything is seen.
LEMMA AllSearched ==
  ASSUME SndTypes', wmm'.highest = HIGH_PRIO_TID
  PROVE  Searched'
<1>1. \A p \in Prio : Sendable(p)' # {} => Seen(p)'
  BY SeenAll
<1>2. SearchMissesNone'
  BY <1>1 DEF SearchMissesNone, Seen
<1>3. HandSeen'
  <2>1. PICK p \in Prio : p = snd'.prio
    BY DEF SndTypes
  <2>2. SameAc(p) \in Prio
    BY SameAcIs
  <2>3. p <= wmm'.highest /\ SameAc(p) <= wmm'.highest
    BY <2>2, SeenAll
  <2> QED BY <2>1, <2>3 DEF HandSeen, Seen, SameAc
<1> QED BY <1>2, <1>3 DEF Searched

\* A step that changes neither what can be sent nor where the search starts.
LEMMA SameSearched ==
  ASSUME Searched, SndTypes, wmm'.highest = wmm.highest, wmm'.short = wmm.short,
         \A p \in Prio : Sendable(p)' = Sendable(p),
         Sending' => Sending /\ snd'.prio = snd.prio
  PROVE  Searched'
<1>1. NothingShort' <=> NothingShort
  BY DEF NothingShort
<1>2. ASSUME NEW p \in Prio, Seen(p) PROVE Seen(p)'
  <2>1. PICK q \in Prio : q = SameAc(p)
    BY SameAcIn
  <2>2. CASE p <= wmm.highest
    BY <2>2 DEF Seen
  <2>3. CASE q = wmm.highest /\ Sendable(q) # {}
    <3>1. Sendable(q)' # {}
      BY <2>3
    <3> QED BY <2>1, <2>3, <3>1 DEF Seen, Sendable
  <2> QED BY <2>1, <2>2, <2>3, <1>2 DEF Seen, Sendable
<1>3. SearchMissesNone'
  <2> SUFFICES ASSUME NothingShort, NEW p \in Prio, Sendable(p)' # {}
               PROVE  Seen(p)'
    BY <1>1 DEF SearchMissesNone, Seen
  <2>0. Sendable(p) # {}
    OBVIOUS
  <2>1. Seen(p)
    BY <2>0 DEF Searched, SearchMissesNone, Seen
  <2> QED BY <2>1, <1>2
<1>4. ASSUME NothingShort', Sending' PROVE HandSeen'
  <2>1. HandSeen /\ snd'.prio = snd.prio
    BY <1>1, <1>4 DEF Searched
  <2>2. PICK p \in Prio, q \in Prio : p = snd.prio /\ q = SameAc(p)
    BY SameAcIn DEF SndTypes
  <2>3. Seen(p)'
    BY <2>1, <2>2, <1>2 DEF HandSeen
  <2>4. Sendable(q)' # {} => q <= wmm'.highest
    BY <2>1, <2>2 DEF HandSeen
  <2> QED BY <2>1, <2>2, <2>3, <2>4 DEF HandSeen, Seen, SameAc, Sendable
<1> QED BY <1>3, <1>4 DEF Searched

\* AddBuf raises highest_queued_prio to what it adds.
LEMMA AddBufSearched ==
  ASSUME TxSide, WmmTypes', QueueInv, AddBuf
  PROVE  Searched' /\ NotPaused'
<1>0. WmmTypes /\ LeftTypes /\ SndTypes /\ load \in Loads /\ Searched /\ NotPaused
  BY DEF TxSide, QueueInv
<1> DEFINE k == Len(load.tx) - left.tx + 1
           s == P(k).sta
           q == P(k).prio
           off == wmm.paused[s]
           h == wmm.highest
           h1 == wmm'.highest
<1>1. /\ q \in Prio /\ s \in Sta /\ <<q, s>> \in Lists /\ snd' = snd /\ pc' = pc /\ k \in PktId
      /\ wmm'.buf = [wmm.buf EXCEPT ![<<q, s>>] = Append(@, k)]
      /\ wmm'.paused = wmm.paused /\ wmm'.short = wmm.short
      /\ h1 = IF off THEN h ELSE IF h < q THEN q ELSE h
  <2>1. snd' = snd /\ pc' = pc
    BY DEF AddBuf
  <2> QED BY <1>0, <2>1, AddBufIs DEF ListOf
<1> HIDE DEF k, s, q
<1>2. NotPaused' /\ (Sending' <=> Sending) /\ (NothingShort' <=> NothingShort)
  BY <1>0, <1>1 DEF NotPaused, Sending, NothingShort
<1>3. \A p \in Prio : Sendable(p) \subseteq Sendable(p)' /\ (p # q \/ off => Sendable(p)' = Sendable(p))
  <2> SUFFICES ASSUME NEW p \in Prio, NEW r \in Sta
               PROVE  /\ r \in Sendable(p) => r \in Sendable(p)'
                      /\ (p # q \/ off) /\ r \in Sendable(p)' => r \in Sendable(p)
    BY DEF Sendable
  <2>1. <<p, r>> \in Lists
    BY DEF Lists
  <2>2. CASE <<p, r>> = <<q, s>>
    <3>1. wmm.buf[<<q, s>>] \in Seq(PktId)
      BY <1>0, <1>1, BufIs DEF Ids
    <3>2. Append(wmm.buf[<<q, s>>], k) # <<>>
      BY <3>1, <1>1
    <3>3. wmm'.buf[<<p, r>>] # <<>>
      BY <2>1, <2>2, <3>2, <1>0, <1>1 DEF WmmTypes
    <3> QED BY <2>2, <3>3, <1>1 DEF Sendable
  <2>3. CASE <<p, r>> # <<q, s>>
    <3>1. wmm'.buf[<<p, r>>] = wmm.buf[<<p, r>>]
      BY <2>1, <2>3, <1>0, <1>1 DEF WmmTypes
    <3> QED BY <3>1, <1>1 DEF Sendable
  <2> QED BY <2>2, <2>3
<1>4. h \in Int /\ h1 \in Int /\ h <= h1 /\ q \in Int /\ (~off => q <= h1) /\ h \in Highest
  <2>1. h \in Int /\ q \in Int /\ h \in Highest
    BY <1>0, <1>1, WmmAssumption DEF WmmTypes, Highest, Prio, NO_PKT_PRIO_TID
  <2> HIDE DEF h
  <2> QED BY <2>1, <1>1
<1>5. ASSUME NEW p \in Prio, Seen(p) PROVE Seen(p)'
  <2>1. \A r \in Prio : r = wmm.highest /\ r = wmm'.highest => Sendable(r) \subseteq Sendable(r)'
    BY <1>3
  <2> QED BY <2>1, <1>0, <1>4, <1>5, SeenMore
<1>6. SearchMissesNone'
  <2> SUFFICES ASSUME NothingShort, NEW p \in Prio, Sendable(p)' # {}
               PROVE  Seen(p)'
    BY <1>2 DEF SearchMissesNone, Seen
  <2>1. CASE p = q /\ ~off
    BY <2>1, <1>4 DEF Seen
  <2>2. CASE ~(p = q /\ ~off)
    <3>1. Sendable(p) # {}
      BY <2>2, <1>3
    <3>2. Seen(p)
      BY <3>1, <1>0 DEF Searched, SearchMissesNone, Seen
    <3> QED BY <3>2, <1>5
  <2> QED BY <2>1, <2>2
<1>7. ASSUME NothingShort', Sending' PROVE HandSeen'
  <2>1. HandSeen /\ snd' = snd /\ snd.prio \in Prio /\ SameAc(snd.prio) \in Prio
    BY <1>0, <1>1, <1>2, <1>7, SameAcIs DEF Searched, SndTypes
  <2>2. Seen(snd.prio)'
    <3>1. PICK p \in Prio : p = snd.prio
      BY <2>1
    <3>2. Seen(p)'
      BY <3>1, <2>1, <1>5 DEF HandSeen
    <3> QED BY <3>1, <3>2, <2>1 DEF Seen
  <2>3. Sendable(SameAc(snd.prio))' # {} => SameAc(snd'.prio) <= h1
    <3>0. PICK p \in Prio : p = SameAc(snd.prio)
      BY <2>1
    <3>1. (Sendable(p) # {} => p <= h) /\ SameAc(snd'.prio) = p /\ p \in Int
      BY <3>0, <2>1 DEF HandSeen, Prio
    <3>2. Sendable(SameAc(snd.prio))' = Sendable(p)'
      BY <3>0, <2>1 DEF Sendable
    <3> HIDE DEF h, h1
    <3>3. CASE p = q /\ ~off
      BY <3>3, <3>1, <1>4
    <3>4. CASE ~(p = q /\ ~off)
      BY <3>4, <3>1, <3>2, <1>3, <1>4
    <3> QED BY <3>3, <3>4
  <2> QED BY <2>1, <2>2, <2>3 DEF HandSeen, Seen
<1> QED BY <1>2, <1>6, <1>7 DEF Searched

--------------------------------------------------------------------------------
(* The search, and what is dropped, deleted or paused.                       *)

\* DropTxPkt takes the last packet of a list only if the list is paused, or the one
\* that is sent from.
LEMMA DropSearched ==
  ASSUME TxSide, WmmTypes', QueueInv, DropTxPkt
  PROVE  Searched' /\ NotPaused'
<1>0. /\ WmmTypes /\ LeftTypes /\ SndTypes /\ PcTypes /\ Searched /\ NotPaused /\ Counted /\ ListsCounted
      /\ snd' = snd /\ pc' = pc
  BY DropIs DEF TxSide, QueueInv, Counted
<1>1. PICK q \in Prio, s \in Sta :
              LET l == <<q, s>>
                  off == wmm.paused[s]
              IN  /\ l \in Lists /\ wmm.buf[l] # <<>>
                  /\ off \/ wmm.total[l] > RX_LOW_THRESHOLD
                  /\ wmm'.buf = [wmm.buf EXCEPT ![l] = Tail(@)]
                  /\ wmm'.paused = wmm.paused /\ wmm'.short = wmm.short
                  /\ wmm'.highest = wmm.highest
  BY <1>0, DropIs
<1>2. NotPaused' /\ (Sending' <=> Sending) /\ (NothingShort' <=> NothingShort)
  BY <1>0, <1>1 DEF NotPaused, Sending, NothingShort
<1>3. \A p \in Prio : Sendable(p)' \subseteq Sendable(p)
  <2> SUFFICES ASSUME NEW p \in Prio, NEW r \in Sta, r \in Sendable(p)' PROVE r \in Sendable(p)
    BY DEF Sendable
  <2>1. <<p, r>> \in Lists
    BY DEF Lists
  <2>2. CASE <<p, r>> = <<q, s>>
    BY <2>2, <1>1 DEF Sendable
  <2>3. CASE <<p, r>> # <<q, s>>
    <3>1. wmm'.buf[<<p, r>>] = wmm.buf[<<p, r>>]
      BY <2>1, <2>3, <1>0, <1>1 DEF WmmTypes
    <3> QED BY <3>1, <1>1 DEF Sendable
  <2> QED BY <2>2, <2>3
<1>4. ASSUME NEW p \in Prio, p # q \/ InFlight(<<q, s>>) = 0 PROVE Sendable(p)' = Sendable(p)
  <2> SUFFICES ASSUME NEW r \in Sendable(p) PROVE r \in Sendable(p)'
    BY <1>3
  <2>1. <<p, r>> \in Lists /\ ~wmm.paused[r] /\ r \in Sta /\ wmm.buf[<<p, r>>] # <<>>
    BY DEF Lists, Sendable
  <2>2. CASE <<p, r>> = <<q, s>>
    <3>1. wmm.total[<<q, s>>] > RX_LOW_THRESHOLD /\ InFlight(<<q, s>>) = 0
      BY <2>1, <2>2, <1>1, <1>4
    <3>2. wmm.total[<<q, s>>] = Len(wmm.buf[<<q, s>>]) + InFlight(<<q, s>>)
      BY <1>0, <1>1 DEF ListsCounted
    <3>3. RX_LOW_THRESHOLD \in Nat \ {0} /\ Len(wmm.buf[<<q, s>>]) \in Nat
          /\ wmm.buf[<<q, s>>] \in Seq(PktId)
      BY <1>0, <1>1, WmmAssumption, BufIs DEF Ids
    <3>4. Len(wmm.buf[<<q, s>>]) > 1
      BY <3>1, <3>2, <3>3
    <3>5. Tail(wmm.buf[<<q, s>>]) # <<>>
      <4> DEFINE t == Tail(wmm.buf[<<q, s>>])
                 n == Len(wmm.buf[<<q, s>>])
      <4>1. Len(t) = n - 1 /\ n \in Nat /\ n > 1
        BY <3>3, <3>4, <1>1
      <4> HIDE DEF t, n
      <4>2. t # <<>>
        BY <4>1
      <4> QED BY <4>2 DEF t
    <3>6. wmm'.buf[<<p, r>>] # <<>>
      BY <2>1, <2>2, <3>5, <1>0, <1>1 DEF WmmTypes
    <3> QED BY <2>1, <3>6, <1>1 DEF Sendable
  <2>3. CASE <<p, r>> # <<q, s>>
    <3>1. wmm'.buf[<<p, r>>] = wmm.buf[<<p, r>>]
      BY <2>1, <2>3, <1>0, <1>1 DEF WmmTypes
    <3> QED BY <2>1, <3>1, <1>1 DEF Sendable
  <2> QED BY <2>2, <2>3
<1>5. InFlight(<<q, s>>) # 0 => Sending /\ snd.prio = q
  BY <1>0 DEF InFlight, Sending, PcTypes
<1>6. ASSUME NEW p \in Prio, Seen(p), \A r \in Prio : r = wmm.highest /\ r # p => Sendable(r)' = Sendable(r)
      PROVE  Seen(p)'
  <2>1. PICK r \in Prio : r = SameAc(p) /\ r # p
    BY SameAcIn
  <2>2. CASE p <= wmm.highest
    BY <2>2, <1>1 DEF Seen
  <2>3. CASE r = wmm.highest /\ Sendable(r) # {}
    <3>1. Sendable(r)' # {}
      BY <2>1, <2>3, <1>6
    <3> QED BY <2>1, <2>3, <3>1, <1>1 DEF Seen, Sendable
  <2> QED BY <2>1, <2>2, <2>3, <1>6 DEF Seen, Sendable
<1>7. SearchMissesNone'
  <2> SUFFICES ASSUME NothingShort, NEW p \in Prio, Sendable(p)' # {}
               PROVE  Seen(p)'
    BY <1>2 DEF SearchMissesNone, Seen
  <2>1. Sendable(p) # {}
    BY <1>3
  <2>2. Seen(p)
    BY <2>1, <1>0 DEF Searched, SearchMissesNone, Seen
  <2>3. CASE InFlight(<<q, s>>) = 0
    BY <2>2, <2>3, <1>4, <1>6
  <2>4. CASE InFlight(<<q, s>>) # 0 /\ q # wmm.highest
    BY <2>2, <2>4, <1>4, <1>6
  <2>5. CASE InFlight(<<q, s>>) # 0 /\ q = wmm.highest
    <3>1. HandSeen /\ snd.prio = q
      BY <2>5, <1>0, <1>5 DEF Searched
    <3>2. p <= wmm.highest
      <4>1. CASE p <= wmm.highest
        BY <4>1
      <4>2. CASE SameAc(p) = wmm.highest
        <5>1. p = SameAc(q)
          BY <2>5, <4>2, SameAcIs
        <5> QED BY <5>1, <3>1, <2>1 DEF HandSeen
      <4> QED BY <4>1, <4>2, <2>2 DEF Seen
    <3> QED BY <3>2, <1>1 DEF Seen
  <2> QED BY <2>3, <2>4, <2>5
<1>8. ASSUME NothingShort', Sending' PROVE HandSeen'
  <2>1. HandSeen
    BY <1>0, <1>2, <1>8 DEF Searched
  <2>2. PICK p \in Prio, r \in Prio : p = snd.prio /\ r = SameAc(p) /\ r # p
    BY <1>0, SameAcIn DEF SndTypes
  <2>3. \A x \in Prio : x # p => Sendable(x)' = Sendable(x)
    BY <2>2, <1>4, <1>5
  <2>4. Seen(p)'
    BY <2>1, <2>2, <2>3, <1>6 DEF HandSeen
  <2>5. Sendable(r)' # {} => r <= wmm'.highest
    BY <2>1, <2>2, <2>3, <1>1 DEF HandSeen
  <2> QED BY <2>2, <2>4, <2>5, <1>0 DEF HandSeen, Seen, SameAc, Sendable
<1> QED BY <1>2, <1>7, <1>8 DEF Searched

\* A station of which nothing is counted has nothing to send.
LEMMA NothingCounted ==
  ASSUME WmmTypes, Counted, NEW r \in Sta, ~(CountOf(wmm, r) > 0)
  PROVE  \A p \in Prio : wmm.buf[<<p, r>>] = <<>>
<1> SUFFICES ASSUME NEW p \in Prio PROVE wmm.buf[<<p, r>>] = <<>>
  OBVIOUS
<1>1. <<p, r>> \in Lists /\ wmm.total \in Counts /\ \A l \in Lists : wmm.total[l] \in Nat
  BY CountedIs DEF Lists
<1>2. wmm.total[<<p, r>>] <= Col(wmm.total, r) /\ Col(wmm.total, r) \in Nat
  <2>1. Sta \in SUBSET Sta
    OBVIOUS
  <2> QED BY <2>1, <1>1, NoCount
<1>3. ~(Col(wmm.total, r) > 0)
  BY CountOfCol
<1>4. wmm.total[<<p, r>>] \in Nat
  BY <1>1
<1>5. ~(wmm.total[<<p, r>>] > 0)
  BY <1>2, <1>3, <1>4
<1> QED BY <1>1, <1>5, CountedIs

\* DeletePeer starts the search anew if it deletes what could be sent.
LEMMA DeleteSearched ==
  ASSUME TxSide, SndTypes', QueueInv, DeletePeer
  PROVE  Searched' /\ NotPaused'
<1>0. WmmTypes /\ LeftTypes /\ SndTypes /\ Searched /\ NotPaused /\ Counted /\ pc' = pc
  BY DeleteIs DEF TxSide, QueueInv
<1>1. PICK s \in Sta : DeletedOf(s) /\ snd' = [snd EXCEPT !.gone = @ \/ snd.sta = s]
  BY <1>0, DeleteIs DEF DeletedOf
<1>2. snd'.prio = snd.prio /\ snd'.sta = snd.sta /\ (snd'.gone <=> (snd.gone \/ snd.sta = s))
  BY <1>0, <1>1 DEF SndTypes, SndF
<1>3. (Sending' => Sending) /\ NotPaused'
  BY <1>0, <1>1, <1>2 DEF NotPaused, Sending, DeletedOf
<1>4. CASE wmm'.highest = HIGH_PRIO_TID
  BY <1>3, <1>4, AllSearched
<1>5. CASE wmm'.highest # HIGH_PRIO_TID
  <2>1. wmm'.highest = wmm.highest /\ (~wmm.paused[s] => ~(CountOf(wmm, s) > 0))
    BY <1>1, <1>5 DEF DeletedOf
  <2>2. \A p \in Prio : ~wmm.paused[s] => wmm.buf[<<p, s>>] = <<>>
    BY <2>1, <1>0, NothingCounted
  <2>3. \A p \in Prio : Sendable(p)' = Sendable(p)
    <3> SUFFICES ASSUME NEW p \in Prio, NEW r \in Sta
                 PROVE  r \in Sendable(p)' <=> r \in Sendable(p)
      BY DEF Sendable
    <3>1. <<p, r>> \in Lists /\ <<p, r>>[2] = r
      BY DEF Lists
    <3>2. wmm'.paused = wmm.paused /\ wmm'.buf[<<p, r>>] = IF r = s THEN <<>> ELSE wmm.buf[<<p, r>>]
      BY <3>1, <1>1 DEF DeletedOf
    <3>3. CASE r = s
      BY <3>2, <3>3, <2>2 DEF Sendable
    <3>4. CASE r # s
      BY <3>2, <3>4 DEF Sendable
    <3> QED BY <3>3, <3>4
  <2>4. wmm'.short = wmm.short
    BY <1>1 DEF DeletedOf
  <2> QED BY <2>1, <2>3, <2>4, <1>0, <1>2, <1>3, SameSearched
<1> QED BY <1>4, <1>5

\* UpdateTxPause does the same.
LEMMA PauseSearched ==
  ASSUME TxSide, SndTypes', QueueInv, UpdateTxPause
  PROVE  Searched' /\ NotPaused'
<1>0. WmmTypes /\ LeftTypes /\ SndTypes /\ Searched /\ Counted /\ ~Sending' /\ snd' = snd
  BY PauseIs DEF TxSide, QueueInv, Sending, Busy
<1>1. PICK s \in Sta : RepausedOf(s)
  BY <1>0, PauseIs DEF RepausedOf
<1>4. CASE wmm'.highest = HIGH_PRIO_TID
  BY <1>0, <1>4, AllSearched DEF NotPaused
<1>5. CASE wmm'.highest # HIGH_PRIO_TID
  <2>1. wmm'.highest = wmm.highest /\ ~(CountOf(wmm, s) > 0)
    BY <1>1, <1>5 DEF RepausedOf
  <2>2. \A p \in Prio : wmm.buf[<<p, s>>] = <<>>
    BY <2>1, <1>0, NothingCounted
  <2>3. \A p \in Prio : Sendable(p)' = Sendable(p)
    <3> SUFFICES ASSUME NEW p \in Prio, NEW r \in Sta
                 PROVE  r \in Sendable(p)' <=> r \in Sendable(p)
      BY DEF Sendable
    <3>2. wmm'.buf[<<p, r>>] = wmm.buf[<<p, r>>] /\ (r # s => wmm'.paused[r] = wmm.paused[r])
      BY <1>0, <1>1 DEF RepausedOf, WmmTypes
    <3>3. CASE r = s
      BY <3>2, <3>3, <2>2 DEF Sendable
    <3>4. CASE r # s
      BY <3>2, <3>4 DEF Sendable
    <3> QED BY <3>3, <3>4
  <2>4. wmm'.short = wmm.short
    BY <1>1 DEF RepausedOf
  <2> QED BY <2>1, <2>3, <2>4, <1>0, SameSearched DEF NotPaused
<1> QED BY <1>4, <1>5

--------------------------------------------------------------------------------
(* The search, and the steps of the sending.                                 *)

\* When PickNone takes the queues for empty, they are.
LEMMA PickNoneSearched ==
  ASSUME TxSide, SndTypes', QueueInv, PickNone
  PROVE  Searched' /\ NotPaused'
<1>0. /\ WmmTypes /\ SndTypes /\ Counted /\ ~Sending'
      /\ wmm'.buf = wmm.buf /\ wmm'.paused = wmm.paused /\ wmm'.short = wmm.short
      /\ wmm'.highest = (IF wmm.tx_pkts_queued = 0 THEN NO_PKT_PRIO_TID ELSE HIGH_PRIO_TID)
  BY PickNoneIs DEF TxSide, QueueInv, Sending, Busy
<1>1. CASE wmm.tx_pkts_queued # 0
  BY <1>0, <1>1, AllSearched DEF NotPaused
<1>2. CASE wmm.tx_pkts_queued = 0
  <2> SUFFICES ASSUME NothingShort, NEW p \in Prio, NEW s \in Sendable(p)' PROVE FALSE
    BY <1>0 DEF Searched, NotPaused, SearchMissesNone, NothingShort
  <2> DEFINE t == wmm.total
             n == Sum(Cols(t), On)
  <2>1. s \in On /\ On \in SUBSET Sta /\ t[<<p, s>>] > 0 /\ t \in Counts /\ \A l \in Lists : t[l] \in Nat
    <3>1. s \in Sta /\ ~wmm.paused[s] /\ wmm.buf[<<p, s>>] # <<>> /\ <<p, s>> \in Lists
      BY <1>0 DEF Sendable, Lists
    <3> QED BY <3>1, <1>0, CountedIs DEF On
  <2>2. n = 0
    <3>1. Sum(wmm.short, Prio) = 0
      BY SetsAreFinite, SumZero DEF NothingShort
    <3>2. 0 = n - Sum(wmm.short, Prio)
      BY <1>0, <1>2 DEF Counted, SumsCounted
    <3>3. n \in Int
      BY <2>1, CountsAre
    <3> QED BY <3>1, <3>2, <3>3
  <2> HIDE DEF n, t
  <2>3. Col(t, s) <= n /\ t[<<p, s>>] <= Col(t, s) /\ Col(t, s) \in Nat
    BY <2>1, NoCount DEF n
  <2>4. t[<<p, s>>] \in Nat
    BY <2>1 DEF Lists
  <2> QED BY <2>1, <2>2, <2>3, <2>4
<1> QED BY <1>1, <1>2

\* NextHighest goes to the other priority of the access category if that has
\* something to send: what is counted there less what is held is what can be sent.
LEMMA NextIs ==
  ASSUME TxSide, Counted, NothingShort, pc = "pick", NEW p \in Prio, p <= wmm.highest
  PROVE  NextHighest(p) = IF Sendable(SameAc(p)) # {} THEN SameAc(p) ELSE p
<1>0. WmmTypes /\ PcTypes /\ snd.pkt = 0
  BY DEF TxSide, PcTypes, Busy
<1>1. PICK q \in Prio : q = SameAc(p)
  BY SameAcIn
<1> DEFINE t == wmm.total
           r == Row(t, q)
           a == wmm.queued[q]
           b == wmm.held[q]
<1>2. On \in SUBSET Sta /\ Off \in SUBSET Sta /\ t \in Counts /\ (\A l \in Lists : t[l] \in Nat)
      /\ IsFiniteSet(On) /\ IsFiniteSet(Off) /\ On \cap Off = {} /\ On \cup Off = Sta
  BY <1>0, CountedIs, SetsAreFinite DEF On, Off
<1>3. \A s \in Sta : r[s] = t[<<q, s>>] /\ r[s] \in Int
  BY <1>2, CountsAre
<1>4. /\ Sum(r, On) \in Nat /\ Sum(r, Off) \in Nat
      /\ \A s \in On : t[<<q, s>>] <= Sum(r, On)
  BY <1>2, NoCount
<1>5. a = Sum(r, Sta) /\ b = Sum(r, Off)
  <2>1. Sum(r, Sta) \in Int
    <3>1. Sta \in SUBSET Sta
      OBVIOUS
    <3> QED BY <3>1, <1>2, CountsAre
  <2>2. a = Sum(r, Sta) - wmm.short[q] /\ b = Sum(r, Off) /\ wmm.short[q] = 0
    BY DEF Counted, SumsCounted, NothingShort
  <2> QED BY <2>1, <2>2
<1>6. a = Sum(r, On) + Sum(r, Off)
  <2>1. Sum(r, On \cup Off) = Sum(r, On) + Sum(r, Off)
    <3> HIDE DEF r
    <3>1. \A s \in On \cup Off : r[s] \in Int
      BY <1>2, <1>3
    <3> QED BY <3>1, <1>2, SumUnion
  <2> QED BY <2>1, <1>2, <1>5
<1>7. Sum(r, On) > 0 => Sendable(q) # {}
  <2> SUFFICES ASSUME Sendable(q) = {} PROVE Sum(r, On) = 0
    BY <1>4
  <2>1. ASSUME NEW s \in On PROVE r[s] = 0
    <3>1. s \in Sta /\ <<q, s>> \in Lists /\ ~wmm.paused[s] /\ wmm.buf[<<q, s>>] = <<>>
      BY DEF On, Sendable, Lists
    <3>2. wmm.total[<<q, s>>] = Len(wmm.buf[<<q, s>>]) + InFlight(<<q, s>>)
      BY <3>1 DEF Counted, ListsCounted
    <3>3. InFlight(<<q, s>>) = 0 /\ Len(wmm.buf[<<q, s>>]) = 0
      BY <1>0, <3>1 DEF InFlight
    <3> QED BY <3>1, <3>2, <3>3, <1>3
  <2> HIDE DEF r
  <2> QED BY <2>1, <1>2, SumZero
<1>8. Sendable(q) # {} => Sum(r, On) > 0
  <2> SUFFICES ASSUME NEW s \in Sendable(q) PROVE Sum(r, On) > 0
    OBVIOUS
  <2>1. s \in On /\ <<q, s>> \in Lists /\ wmm.buf[<<q, s>>] # <<>>
    BY DEF On, Sendable, Lists
  <2>2. t[<<q, s>>] > 0 /\ t[<<q, s>>] \in Nat
    BY <2>1, <1>0, CountedIs
  <2> HIDE DEF t, r
  <2> QED BY <2>1, <2>2, <1>4
<1>9. (a # 0 /\ a > b) <=> Sendable(q) # {}
  <2> HIDE DEF a, b, r
  <2> QED BY <1>4, <1>5, <1>6, <1>7, <1>8
<1>10. Min2(wmm.highest, p) = p
  BY <1>0, WmmAssumption DEF Min2, WmmTypes, Highest, Prio, NO_PKT_PRIO_TID
<1>11. NextHighest(p) = IF a # 0 /\ a > b THEN q ELSE p
  BY <1>1, <1>10 DEF NextHighest
<1> HIDE DEF a, b
<1> QED BY <1>1, <1>9, <1>11

\* Pick leaves the start of the search where it misses nothing.
LEMMA PickSearched ==
  ASSUME TxSide, WmmTypes', QueueInv, Pick
  PROVE  Searched' /\ NotPaused'
<1>0. WmmTypes /\ PcTypes /\ Searched /\ Counted /\ pc = "pick"
  BY PickIs DEF TxSide, QueueInv
<1>1. PICK p \in Prio, s \in Sta : Picked(p, s)
  BY <1>0, PickIs
<1>2. PICK q \in Prio : q = SameAc(p)
  BY SameAcIn
<1>3. /\ p <= wmm.highest /\ s \in Sendable(p) /\ \A x \in p + 1 .. wmm.highest : Sendable(x) = {}
      /\ wmm'.buf = [wmm.buf EXCEPT ![<<p, s>>] = Tail(@)]
      /\ wmm'.paused = wmm.paused /\ wmm'.short = wmm.short
      /\ wmm'.highest = NextHighest(p) /\ snd'.prio = p /\ snd'.sta = s
  BY <1>1 DEF Picked
<1>4. NotPaused'
  BY <1>3 DEF NotPaused, Sendable
<1>5. NothingShort' <=> NothingShort
  BY <1>3 DEF NothingShort
<1>6. \A x \in Prio : Sendable(x)' \subseteq Sendable(x) /\ (x # p => Sendable(x)' = Sendable(x))
  <2> SUFFICES ASSUME NEW x \in Prio, NEW r \in Sta
               PROVE  /\ r \in Sendable(x)' => r \in Sendable(x)
                      /\ x # p /\ r \in Sendable(x) => r \in Sendable(x)'
    BY DEF Sendable
  <2>1. <<x, r>> \in Lists
    BY DEF Lists
  <2>2. CASE <<x, r>> = <<p, s>>
    BY <2>2, <1>3 DEF Sendable
  <2>3. CASE <<x, r>> # <<p, s>>
    <3>1. wmm'.buf[<<x, r>>] = wmm.buf[<<x, r>>]
      BY <2>1, <2>3, <1>0, <1>3 DEF WmmTypes
    <3> QED BY <3>1, <1>3 DEF Sendable
  <2> QED BY <2>2, <2>3
<1>7. CASE NothingShort
  <2>1. wmm'.highest = IF Sendable(q) # {} THEN q ELSE p
    BY <1>0, <1>2, <1>3, <1>7, NextIs
  <2>2. q # p /\ Sendable(q)' = Sendable(q) /\ SameAc(q) = p /\ q \in {p - 1, p + 1} /\ p \in Int /\ q \in Int
    BY <1>2, <1>6, SameAcIs
  <2>3. Seen(p)' /\ (Sendable(q)' # {} => q <= wmm'.highest)
    <3>1. CASE Sendable(q) # {}
      <4>1. wmm'.highest = q
        BY <2>1, <3>1
      <4> QED BY <4>1, <3>1, <2>2, <1>2 DEF Seen, Sendable
    <3>2. CASE Sendable(q) = {}
      BY <3>2, <2>1, <2>2 DEF Seen
    <3> QED BY <3>1, <3>2
  <2>4. ASSUME NEW x \in Prio, Sendable(x)' # {} PROVE Seen(x)'
    <3>1. Sendable(x) # {} /\ x \in Int /\ wmm.highest \in Int
      BY <2>4, <1>0, <1>6, WmmAssumption DEF WmmTypes, Highest, Prio, NO_PKT_PRIO_TID
    <3>2. Seen(x)
      BY <3>1, <1>0, <1>7 DEF Searched, SearchMissesNone, Seen
    <3>3. CASE x <= wmm.highest
      <4>1. x <= p
        BY <3>1, <3>3, <1>3, <2>2
      <4>2. CASE x = p
        BY <4>2, <2>3
      <4>3. CASE x # p
        <5>1. x <= wmm'.highest
          BY <4>1, <4>3, <2>1, <2>2, <3>1
        <5> QED BY <5>1 DEF Seen
      <4> QED BY <4>2, <4>3
    <3>4. CASE x > wmm.highest
      <4>0. PICK y \in Prio : y = SameAc(x)
        BY SameAcIn
      <4>1. y = wmm.highest /\ Sendable(y) # {}
        BY <3>1, <3>2, <3>4, <4>0 DEF Seen
      <4>2. y = p
        BY <4>1, <1>3, <2>2, <3>1
      <4>3. x = q
        BY <4>0, <4>2, <1>2, SameAcIs
      <4>4. x <= wmm'.highest
        BY <4>3, <3>1, <2>1
      <4> QED BY <4>4 DEF Seen
    <3> QED BY <3>1, <3>3, <3>4
  <2>5. SearchMissesNone'
    BY <2>4 DEF SearchMissesNone, Seen
  <2>6. HandSeen'
    BY <2>2, <2>3, <1>2, <1>3 DEF HandSeen, Seen, SameAc, Sendable
  <2> QED BY <2>5, <2>6, <1>4 DEF Searched
<1>8. CASE ~NothingShort
  BY <1>8, <1>4, <1>5 DEF Searched, SearchMissesNone
<1> QED BY <1>7, <1>8

\* SettleBack puts the packet where the search comes to it.
LEMMA SettleBackSearched ==
  ASSUME TxSide, WmmTypes', QueueInv, SettleBack
  PROVE  Searched' /\ NotPaused'
<1>0. /\ WmmTypes /\ SndTypes /\ PcTypes /\ Searched /\ NotPaused /\ pc = "settle" /\ pc \in Busy /\ ~Sending'
      /\ snd.pkt \in PktId /\ snd.sta \in Sta /\ snd.prio \in Prio
  BY SettleBackIs DEF TxSide, QueueInv, PcTypes, SndTypes, Busy, Sending
<1>1. NotPaused'
  BY <1>0 DEF NotPaused
<1>2. CASE snd.gone
  <2>1. wmm' = wmm
    BY <1>0, <1>2, SettleBackIs
  <2>2. \A p \in Prio : Sendable(p)' = Sendable(p)
    BY <2>1 DEF Sendable
  <2> QED BY <2>1, <2>2, <1>0, <1>1, SameSearched
<1>3. CASE ~snd.gone
  <2>1. PICK q \in Prio, s \in Sta : q = snd.prio /\ s = snd.sta
    BY <1>0
  <2>2. /\ wmm'.buf = [wmm.buf EXCEPT ![<<q, s>>] = <<snd.pkt>> \o @] /\ <<q, s>> \in Lists
        /\ wmm'.paused = wmm.paused /\ wmm'.short = wmm.short /\ wmm'.highest = wmm.highest
    BY <1>0, <1>3, <2>1, SettleBackIs DEF PutBack, Lists
  <2>3. NothingShort' <=> NothingShort
    BY <2>2 DEF NothingShort
  <2>4. ASSUME NEW p \in Prio PROVE Sendable(p) \subseteq Sendable(p)' /\ (p # q => Sendable(p)' = Sendable(p))
    <3> SUFFICES ASSUME NEW r \in Sta
                 PROVE  /\ r \in Sendable(p) => r \in Sendable(p)'
                        /\ p # q /\ r \in Sendable(p)' => r \in Sendable(p)
      BY DEF Sendable
    <3>1. <<p, r>> \in Lists
      BY DEF Lists
    <3>2. CASE <<p, r>> = <<q, s>>
      <4> DEFINE b == wmm.buf[<<q, s>>]
                 c == <<snd.pkt>> \o b
      <4>1. b \in Seq(PktId) /\ wmm'.buf[<<q, s>>] = c
        BY <1>0, <2>2, BufIs DEF Ids, WmmTypes
      <4>2. Len(c) = 1 + Len(b) /\ Len(b) \in Nat
        BY <1>0, <4>1
      <4> HIDE DEF b, c
      <4>3. c # <<>>
        BY <4>2
      <4> QED BY <3>2, <4>1, <4>3, <2>2 DEF Sendable
    <3>3. CASE <<p, r>> # <<q, s>>
      <4>1. wmm'.buf[<<p, r>>] = wmm.buf[<<p, r>>]
        BY <3>1, <3>3, <1>0, <2>2 DEF WmmTypes
      <4> QED BY <4>1, <2>2 DEF Sendable
    <3> QED BY <3>2, <3>3
  <2>5. wmm.highest <= wmm'.highest
    <3>1. wmm.highest \in Int
      BY <1>0, WmmAssumption DEF WmmTypes, Highest, Prio, NO_PKT_PRIO_TID
    <3> QED BY <3>1, <2>2
  <2>6. ASSUME NEW p \in Prio, Seen(p) PROVE Seen(p)'
    BY <2>4, <2>5, <2>6, <1>0, SeenMore
  <2>7. SearchMissesNone'
    <3> SUFFICES ASSUME NothingShort, NEW p \in Prio, Sendable(p)' # {} PROVE Seen(p)'
      BY <2>3 DEF SearchMissesNone, Seen
    <3>1. CASE p = q
      <4>1. HandSeen
        BY <1>0, <1>3 DEF Searched, Sending
      <4>2. Seen(p)
        BY <4>1, <3>1, <2>1 DEF HandSeen
      <4> QED BY <4>2, <2>6
    <3>2. CASE p # q
      <4>1. Sendable(p) # {}
        BY <3>2, <2>4
      <4>2. Seen(p)
        BY <4>1, <1>0 DEF Searched, SearchMissesNone, Seen
      <4> QED BY <4>2, <2>6
    <3> QED BY <3>1, <3>2
  <2> QED BY <2>7, <1>0, <1>1 DEF Searched
<1> QED BY <1>2, <1>3

\* Settle leaves the lists alone; what it takes off a second time is noted.
LEMMA SettleSearched ==
  ASSUME TxSide, QueueInv, Settle
  PROVE  Searched' /\ NotPaused'
<1>0. /\ WmmTypes /\ SndTypes /\ Searched /\ ~Sending' /\ snd.prio \in Prio
  BY SettleIs DEF TxSide, QueueInv, SndTypes, Busy, Sending
<1>1. wmm'.buf = wmm.buf /\ wmm'.paused = wmm.paused /\ wmm'.highest = wmm.highest
  BY <1>0, SettleIs DEF TakenOff
<1>2. \A p \in Prio : Sendable(p)' = Sendable(p)
  BY <1>1 DEF Sendable
<1>3. CASE wmm'.short = wmm.short
  BY <1>0, <1>1, <1>2, <1>3, SameSearched DEF NotPaused
<1>4. CASE wmm'.short # wmm.short
  <2>1. wmm'.short = [wmm.short EXCEPT ![snd.prio] = @ + 1]
    BY <1>0, <1>4, SettleIs DEF TakenOff
  <2>2. wmm'.short[snd.prio] # 0
    BY <2>1, <1>0 DEF WmmTypes
  <2>3. ~NothingShort'
    BY <2>2, <1>0 DEF NothingShort
  <2> QED BY <2>3, <1>0 DEF Searched, NotPaused, SearchMissesNone
<1> QED BY <1>3, <1>4

--------------------------------------------------------------------------------
(* The queues are counted.                                                   *)

\* A step that changes neither the queues nor whose packet is in flight.
LEMMA QueueInvSame ==
  ASSUME TxSide, SndTypes', QueueInv, wmm' = wmm, SameOwner, pc' \in Busy => pc \in Busy
  PROVE  QueueInv'
<1>0. SndTypes /\ NotPaused /\ Searched /\ Counted
  BY DEF TxSide, QueueInv
<1>1. \A l \in Lists : InFlight(l)' = InFlight(l)
  BY DEF SameOwner, InFlight
<1>2. (Sending' => Sending) /\ snd'.prio = snd.prio /\ snd'.sta = snd.sta
  BY DEF SameOwner, Sending
<1>3. Counted'
  BY <1>0, <1>1, SameCounted
<1>4. \A p \in Prio : Sendable(p)' = Sendable(p)
  BY DEF Sendable
<1>5. Searched'
  BY <1>0, <1>2, <1>4, SameSearched
<1>6. NotPaused'
  BY <1>0, <1>2 DEF NotPaused
<1> QED BY <1>3, <1>5, <1>6 DEF QueueInv

\* QueueInv is preserved.
LEMMA QueueInvStep ==
  ASSUME TxSide, QueueInv, [SdioNext]_allvars
  PROVE  QueueInv'
<1>0. /\ TxTypes /\ SndTypes /\ LeftTypes /\ PcTypes /\ WmmTypes /\ load' = load
      /\ WmmTypes' /\ SndTypes' /\ Counted
  BY StepKinds, TxSideStep DEF TxSide, QueueInv
<1>s. Sending => ~wmm.paused[snd.sta]
  BY DEF QueueInv, NotPaused
<1>1. CASE WmmStep
  <2>1. CASE AddBuf
    BY <2>1, <1>0, AddBufCounted, AddBufSearched DEF QueueInv
  <2>2. CASE DropTxPkt
    BY <2>2, <1>0, DropCounted, DropSearched DEF QueueInv
  <2>3. CASE DeletePeer
    BY <2>3, <1>0, DeleteCounted, DeleteSearched DEF QueueInv
  <2>4. CASE UpdateTxPause
    BY <2>4, <1>0, PauseCounted, PauseSearched DEF QueueInv
  <2>5. CASE PickNone
    <3>1. Counted'
      <4>1. \A l \in Lists : InFlight(l)' = InFlight(l)
        BY <2>5, <1>0, PickNoneIs DEF InFlight
      <4> QED BY <2>5, <4>1, <1>0, PickNoneIs, SameCounted
    <3> QED BY <2>5, <3>1, <1>0, PickNoneSearched DEF QueueInv
  <2>6. CASE Pick
    BY <2>6, <1>0, PickCounted, PickSearched DEF QueueInv
  <2>7. CASE SettleBack
    BY <2>7, <1>0, <1>s, SettleBackCounted, SettleBackSearched DEF QueueInv
  <2>8. CASE Settle
    BY <2>8, <1>0, <1>s, SettleCounted, SettleSearched DEF QueueInv
  <2> QED BY <1>1, <2>1, <2>2, <2>3, <2>4, <2>5, <2>6, <2>7, <2>8 DEF WmmStep
<1>2. CASE PortStep /\ wmm' = wmm
  <2>0. pc = "transfer" => snd.pkt \in PktId
    BY <1>0 DEF PcTypes, Busy
  <2>1. SameOwner /\ pc \in Busy
    <3>1. CASE GetPortFails
      BY <3>1, <1>0, GetPortFailsIs DEF Busy
    <3>2. CASE GetPort
      BY <3>2, <1>0, GetPortIs DEF Busy
    <3>3. CASE TransferAggr
      BY <3>3, <1>0, TransferAggrIs DEF Busy
    <3>4. CASE TransferCur
      <4>1. pc = "transfer"
        BY <3>4 DEF TransferCur
      <4> QED BY <3>4, <4>1, <2>0, <1>0, TransferCurIs DEF Busy
    <3>5. CASE Transferred
      BY <3>5, <1>0, TransferredIs DEF Busy
    <3> QED BY <1>2, <3>1, <3>2, <3>3, <3>4, <3>5 DEF PortStep
  <2> QED BY <2>1, <1>2, <1>0, QueueInvSame
<1>3. CASE LoopStep /\ UNCHANGED <<wmm, snd>>
  BY <1>3, <1>0, LoopIs, QueueInvSame DEF SameOwner
<1>4. CASE YieldToCmd /\ UNCHANGED <<wmm, snd>>
  <2>1. pc' \notin Busy
    BY <1>4 DEF YieldToCmd, Busy
  <2> QED BY <2>1, <1>4, <1>0, QueueInvSame DEF SameOwner
<1>5. CASE RxNext(regs.rd) /\ UNCHANGED <<wmm, snd>>
  <2>1. pc' \notin Busy
    BY <1>5, <1>0, RxPcIs DEF PcTypes
  <2> QED BY <2>1, <1>5, <1>0, QueueInvSame DEF SameOwner
<1>6. CASE UNCHANGED <<wmm, snd, pc>>
  BY <1>6, <1>0, QueueInvSame DEF SameOwner
<1> QED BY <1>1, <1>2, <1>3, <1>4, <1>5, <1>6, StepKinds DEF allvars, wmmvars

\* Initially nothing is queued and nothing is counted.
LEMMA QueueInvInit ==
  ASSUME SdioInit
  PROVE  QueueInv
<1>0. /\ WmmTypes /\ SndTypes /\ pc = "loop"
      /\ wmm.buf = [l \in Lists |-> <<>>] /\ wmm.total = [l \in Lists |-> 0]
      /\ wmm.queued = [p \in Prio |-> 0] /\ wmm.held = [p \in Prio |-> 0]
      /\ wmm.tx_pkts_queued = 0 /\ wmm.short = [p \in Prio |-> 0] /\ snd = Idle
  <2>1. WmmTypes /\ SndTypes
    BY TxSideInit DEF TxSide
  <2> QED BY <2>1 DEF SdioInit, SdioRxInit, SdioTxInit, WmmInit
<1>1. ~Sending /\ \A l \in Lists : InFlight(l) = 0
  BY <1>0 DEF Sending, Busy, InFlight, Idle
<1>2. \A p \in Prio : Sendable(p) = {}
  BY <1>0 DEF Sendable, Lists
<1>3. ListsCounted
  <2>1. Len(<<>>) = 0
    OBVIOUS
  <2> QED BY <2>1, <1>0, <1>1 DEF ListsCounted
<1>4. SumsCounted
  <2> DEFINE t == wmm.total
  <2>1. On \in SUBSET Sta /\ Off \in SUBSET Sta /\ Sta \in SUBSET Sta
    BY DEF On, Off
  <2>2. \A p \in Prio, s \in Sta : t[<<p, s>>] = 0
    BY <1>0 DEF Lists
  <2> HIDE DEF t
  <2>3. ASSUME NEW p \in Prio, NEW U \in SUBSET Sta PROVE Sum(Row(t, p), U) = 0
    <3> DEFINE f == Row(t, p)
    <3>1. \A s \in U : f[s] = 0
      BY <2>2 DEF Row
    <3> HIDE DEF f
    <3>2. Sum(f, U) = 0
      BY <3>1, SetsAreFinite, SumZero
    <3> QED BY <3>2 DEF f
  <2>4. \A s \in Sta : Col(t, s) = 0
    <3> SUFFICES ASSUME NEW s \in Sta PROVE Col(t, s) = 0
      OBVIOUS
    <3> DEFINE f == [p \in Prio |-> t[<<p, s>>]]
    <3>1. \A p \in Prio : f[p] = 0
      BY <2>2
    <3> HIDE DEF f
    <3>2. Sum(f, Prio) = 0
      BY <3>1, SetsAreFinite, SumZero
    <3> QED BY <3>2 DEF f, Col
  <2>5. Sum(Cols(t), On) = 0
    <3> DEFINE f == Cols(t)
    <3>1. \A s \in On : f[s] = 0
      BY <2>1, <2>4 DEF Cols
    <3> HIDE DEF f
    <3>2. Sum(f, On) = 0
      BY <2>1, <3>1, SetsAreFinite, SumZero
    <3> QED BY <3>2 DEF f
  <2>6. Sum(wmm.short, Prio) = 0
    <3>1. \A p \in Prio : wmm.short[p] = 0
      BY <1>0
    <3> QED BY <3>1, SetsAreFinite, SumZero
  <2>7. \A p \in Prio : wmm.queued[p] = 0 /\ wmm.held[p] = 0 /\ wmm.short[p] = 0
    BY <1>0
  <2> QED BY <1>0, <2>1, <2>3, <2>5, <2>6, <2>7 DEF SumsCounted, t
<1> QED BY <1>1, <1>2, <1>3, <1>4 DEF QueueInv, Counted, NotPaused, Searched, SearchMissesNone

\* The counters of lists, priorities and the whole queue agree with what is queued and
\* in flight, too low by exactly what wlan_send_processed_packet took off a second time,
\* and the search of wlan_wmm_get_highest_priolist_ptr from highest_queued_prio misses
\* nothing that can be sent, whatever is queued, dropped, deleted and paused while a
\* packet is being sent without ra_list_spinlock (mlan_wmm.c).
THEOREM QueuesAreCounted == SdioSpec => []QueuesConsistent
<1>1. SdioInit => TxSide /\ QueueInv
  BY TxSideInit, QueueInvInit
<1>2. (TxSide /\ QueueInv) /\ [SdioNext]_allvars => (TxSide /\ QueueInv)'
  BY TxSideStep, QueueInvStep
<1>3. TxSide /\ QueueInv => QueuesConsistent
  BY CountersAre DEF TxSide, QueueInv, Searched, QueuesConsistent
<1> QED BY <1>1, <1>2, <1>3, PTL DEF SdioSpec

================================================================================
