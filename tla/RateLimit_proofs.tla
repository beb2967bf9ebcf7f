--------------------------- MODULE RateLimit_proofs ---------------------------
(***************************************************************************)
(* Proofs about RateLimit, for any limits, spans and number of threads.    *)
(*                                                                         *)
(* The execution times in a deque are not in order, so the limit of a      *)
(* window does not follow from its ends.  It follows from Spaced: two      *)
(* bookings that are a multiple of the limit apart in the deque are at     *)
(* least a span apart in time.  Any window of that span then holds at most *)
(* one booking of each residue class of positions, and there are as many   *)
(* classes as the limit says.                                              *)
(***************************************************************************)
EXTENDS RateLimit, FiniteSetTheorems, SequenceTheorems, TLAPS

Spaced(q, most, span) ==
  \A j, k \in DOMAIN q, m \in Nat : m >= 1 /\ k = j + m * most => q[k] >= q[j] + span

IInv == /\ TypeOK
        /\ \A t \in Threads : pc[t] = "idle" => tries[t] = 0
        /\ Spaced(short, ShortMax, ShortSpan) /\ Spaced(long, LongMax, LongSpan)

-----------------------------------------------------------------------------
(* From the spacing to the limit. *)

LEMMA SameResidue ==
  ASSUME NEW most \in Nat, most >= 1, NEW j \in Nat, NEW k \in Nat, j < k, j % most = k % most
  PROVE  \E m \in Nat : m >= 1 /\ k = j + m * most
  <1> DEFINE a == j \div most
             b == k \div most
  <1>1. a \in Int /\ b \in Int /\ j = most * a + (j % most) /\ k = most * b + (k % most)
    OBVIOUS
  <1> HIDE DEF a, b
  <1>2. k = j + (b - a) * most
    BY <1>1
  <1>3. b - a >= 1
    <2>1. SUFFICES ASSUME b - a <= 0 PROVE FALSE
      BY <1>1
    <2>2. (b - a) * most <= 0
      BY <1>1, <2>1
    <2> QED BY <1>1, <1>2, <2>2
  <1> QED BY <1>1, <1>2, <1>3

LEMMA SpacedKept ==
  ASSUME NEW q \in Seq(Int), NEW most \in Nat, most >= 1, NEW span \in Nat, Spaced(q, most, span)
  PROVE  Kept(q, most, span)
  <1> SUFFICES ASSUME NEW i \in DOMAIN q PROVE Cardinality(Window(q, i, span)) <= most
    BY DEF Kept
  <1> DEFINE W == Window(q, i, span)
             f == [j \in W |-> j % most]
  <1>1. \A j \in W : j \in Nat /\ j \in DOMAIN q /\ q[j] \in Int
    BY DEF Window
  <1>2. \A j \in W : j % most \in 0..(most - 1)
    BY <1>1
  <1>3. \A j, k \in W : j < k => j % most # k % most
    <2> SUFFICES ASSUME NEW j \in W, NEW k \in W, j < k, j % most = k % most PROVE FALSE
      OBVIOUS
    <2>1. PICK m \in Nat : m >= 1 /\ k = j + m * most
      BY <1>1, SameResidue
    <2>2. q[k] >= q[j] + span
      BY <1>1, <2>1 DEF Spaced
    <2> QED BY <1>1, <2>2 DEF Window
  <1>4. \A j, k \in W : j % most = k % most => j = k
    <2> SUFFICES ASSUME NEW j \in W, NEW k \in W, j % most = k % most, j # k PROVE FALSE
      OBVIOUS
    <2>1. j < k \/ k < j
      BY <1>1
    <2> QED BY <1>3, <2>1
  <1>5. f \in Injection(W, 0..(most - 1))
    BY <1>2, <1>4 DEF Injection, IsInjective
  <1>6. IsFiniteSet(0..(most - 1)) /\ Cardinality(0..(most - 1)) = most
    BY FS_Interval
  <1> QED BY <1>5, <1>6, FS_Injection

-----------------------------------------------------------------------------
(* What a booking and the clock do to a deque. *)

LEMMA FreshSpaced ==
  ASSUME NEW q \in Seq(Int), NEW most \in Nat, NEW span \in Nat, Spaced(q, most, span)
  PROVE  Fresh(q, span) \in Seq(Int) /\ Spaced(Fresh(q, span), most, span)
  <1> DEFINE d == Cardinality(Stale(q, span))
             r == Fresh(q, span)
  <1>1. d \in Nat
    <2>1. IsFiniteSet(1..Len(q)) /\ Stale(q, span) \in SUBSET (1..Len(q))
      BY FS_Interval DEF Stale
    <2> QED BY <2>1, FS_Subset, FS_CardinalityType
  <1>2. r = SubSeq(q, d + 1, Len(q))
    BY DEF Fresh
  <1> HIDE DEF d, r
  <1>3. \A i \in (d + 1)..Len(q) : q[i] \in Int
    BY <1>1
  <1>4. /\ r \in Seq(Int)
        /\ Len(r) = IF d + 1 <= Len(q) THEN Len(q) - d ELSE 0
        /\ \A i \in 1..(Len(q) - d) : r[i] = q[i + d]
    BY <1>1, <1>2, <1>3, SubSeqProperties
  <1>5. DOMAIN r = 1..Len(r) /\ Len(q) \in Nat
    BY <1>4
  <1>6. Spaced(r, most, span)
    <2>1. SUFFICES ASSUME NEW j \in DOMAIN r, NEW k \in DOMAIN r, NEW m \in Nat,
                          m >= 1, k = j + m * most
                   PROVE  r[k] >= r[j] + span
      BY DEF Spaced
    <2>2. j \in 1..(Len(q) - d) /\ k \in 1..(Len(q) - d)
      BY <1>1, <1>4, <1>5
    <2>3. j + d \in DOMAIN q /\ k + d \in DOMAIN q /\ r[j] = q[j + d] /\ r[k] = q[k + d]
      <3>1. DOMAIN q = 1..Len(q) /\ Len(q) \in Nat
        OBVIOUS
      <3>2. j + d \in 1..Len(q) /\ k + d \in 1..Len(q)
        BY <1>1, <2>2, <3>1
      <3>3. r[j] = q[j + d] /\ r[k] = q[k + d]
        BY <1>4, <2>2
      <3> QED BY <3>1, <3>2, <3>3
    <2>4. \A n \in Int : k = j + n => k + d = (j + d) + n
      BY <1>1, <2>2
    <2>5. k + d = (j + d) + m * most
      BY <2>1, <2>4
    <2> QED BY <2>1, <2>3, <2>5 DEF Spaced
  <1> QED BY <1>4, <1>6 DEF r

LEMMA BookedSpaced ==
  ASSUME NEW q \in Seq(Int), NEW most \in Nat, most >= 1, NEW span \in Nat, Spaced(q, most, span),
         NEW at \in Int, \A x \in WindowFree(q, most, span) : at >= x
  PROVE  Append(q, at) \in Seq(Int) /\ Spaced(Append(q, at), most, span)
  <1> DEFINE r == Append(q, at)
  <1>1. r \in Seq(Int) /\ Len(r) = Len(q) + 1 /\ r[Len(q) + 1] = at
        /\ \A i \in 1..Len(q) : r[i] = q[i]
    OBVIOUS
  <1> HIDE DEF r
  <1>2. DOMAIN r = 1..Len(r) /\ Len(q) \in Nat
    BY <1>1
  <1>3. SUFFICES ASSUME NEW j \in DOMAIN r, NEW k \in DOMAIN r, NEW m \in Nat,
                        m >= 1, k = j + m * most
                 PROVE  r[k] >= r[j] + span
    BY <1>1 DEF Spaced, r
  <1>4. PICK n \in Nat : n = m * most /\ n >= most
    <2>1. (m - 1) * most >= 0 /\ (m - 1) * most = m * most - most
      BY <1>3
    <2> QED BY <2>1
  <1>5. k = j + n
    BY <1>3, <1>4
  <1>6. j \in 1..Len(q) /\ k \in 1..Len(r) /\ r[j] = q[j]
    <2>1. j \in 1..Len(q)
      BY <1>1, <1>2, <1>4, <1>5
    <2> QED BY <1>1, <1>2, <2>1
  <1>7. CASE k \in 1..Len(q)
    <2>1. q[k] >= q[j] + span
      BY <1>3, <1>6, <1>7 DEF Spaced
    <2> QED BY <1>1, <1>6, <1>7, <2>1
  <1>8. CASE k = Len(q) + 1
    <2> DEFINE p == Len(q) - most + 1
    <2>1. p \in DOMAIN q /\ at >= q[p] + span
      <3>1. Len(q) >= most
        BY <1>2, <1>4, <1>5, <1>6, <1>8
      <3>2. p \in 1..Len(q) /\ DOMAIN q = 1..Len(q)
        BY <1>2, <3>1
      <3> QED BY <3>1, <3>2 DEF WindowFree
    <2>p. p \in Int /\ p = Len(q) - most + 1
      BY <1>2
    <2> HIDE DEF p
    <2>2. q[p] \in Int /\ q[j] \in Int
      BY <1>6, <2>1
    <2>3. CASE m = 1
      <3>1. n = most
        BY <1>4, <2>3
      <3>2. p = j
        BY <1>2, <1>5, <1>6, <1>8, <2>p, <3>1
      <3> QED BY <1>1, <1>6, <1>8, <2>1, <3>2
    <2>4. CASE m # 1
      <3>1. m - 1 \in Nat /\ m - 1 >= 1 /\ (m - 1) * most = n - most
        BY <1>3, <1>4, <2>4
      <3>2. p = j + (n - most)
        <4>1. j \in Int /\ n \in Int /\ Len(q) \in Int /\ k = j + n /\ k = Len(q) + 1
          BY <1>2, <1>4, <1>5, <1>6, <1>8
        <4> QED BY <2>p, <4>1
      <3>3. q[p] >= q[j] + span
        <4> DEFINE w == m - 1
        <4>1. w \in Nat /\ w >= 1 /\ w * most = n - most
          BY <3>1
        <4> HIDE DEF w
        <4>2. j \in DOMAIN q /\ p = j + w * most
          BY <1>6, <3>2, <4>1
        <4> QED BY <2>1, <4>1, <4>2 DEF Spaced
      <3> QED BY <1>1, <1>6, <1>8, <2>1, <2>2, <3>3
    <2> QED BY <2>3, <2>4
  <1> QED BY <1>1, <1>2, <1>6, <1>7, <1>8

LEMMA AgedSpaced ==
  ASSUME NEW q \in Seq(Int), NEW most \in Nat, NEW span \in Nat, Spaced(q, most, span)
  PROVE  Aged(q, span) \in Seq(Int) /\ Spaced(Aged(q, span), most, span)
  <1> DEFINE r == [i \in DOMAIN q |-> q[i] - 1]
  <1>1. r \in Seq(Int) /\ Spaced(r, most, span)
    <2>1. r \in [1..Len(q) -> Int]
      OBVIOUS
    <2>2. r \in Seq(Int) /\ DOMAIN r = DOMAIN q
      BY <2>1
    <2>3. \A j, k \in DOMAIN q : q[k] >= q[j] + span => r[k] >= r[j] + span
      OBVIOUS
    <2> QED BY <2>2, <2>3 DEF Spaced
  <1> QED BY <1>1, FreshSpaced DEF Aged

-----------------------------------------------------------------------------
(* The largest of the times that a booking must wait for. *)

HasMax(S) == S \subseteq Int /\ \E z \in S : \A y \in S : y <= z
AtMostOne(B) == B = {} \/ \E b \in Int : B = {b}

LEMMA OneMore ==
  ASSUME NEW S, HasMax(S), NEW B, AtMostOne(B)
  PROVE  HasMax(S \cup B)
  <1> PICK x \in S : S \subseteq Int /\ \A y \in S : y <= x
    BY DEF HasMax
  <1>1. CASE B = {}
    BY <1>1 DEF HasMax
  <1>2. ASSUME NEW b \in Int, B = {b} PROVE HasMax(S \cup B)
    <2>1. S \cup B \subseteq Int
      BY <1>2
    <2>2. CASE b <= x
      <3>1. \A y \in S \cup B : y <= x
        BY <1>2, <2>2
      <3> QED BY <2>1, <3>1 DEF HasMax
    <2>3. CASE x <= b
      <3>1. \A y \in S \cup B : y <= b
        BY <1>2, <2>3
      <3>2. b \in S \cup B
        BY <1>2
      <3> QED BY <2>1, <3>1, <3>2 DEF HasMax
    <2> QED BY <2>2, <2>3
  <1> QED BY <1>1, <1>2 DEF AtMostOne

LEMMA LatestIs ==
  ASSUME NEW A, AtMostOne(A), NEW B, AtMostOne(B), NEW C, AtMostOne(C)
  PROVE  LET S == {0} \cup A \cup B \cup C
         IN  Latest(S) \in Int /\ \A y \in S : Latest(S) >= y
  <1> DEFINE S == {0} \cup A \cup B \cup C
  <1>1. HasMax({0})
    BY DEF HasMax
  <1>2. HasMax(S)
    BY <1>1, OneMore
  <1> HIDE DEF S
  <1>3. Latest(S) \in S /\ \A y \in S : y <= Latest(S)
    BY <1>2 DEF Latest, HasMax
  <1>4. Latest(S) \in Int /\ \A y \in S : Latest(S) >= y
    BY <1>2, <1>3 DEF HasMax
  <1> QED BY <1>4 DEF S

-----------------------------------------------------------------------------
(* The invariant. *)

LEMMA Initially == Init => IInv
  <1> SUFFICES ASSUME Init PROVE IInv
    OBVIOUS
  <1>1. short = <<>> /\ long = <<>>
    BY DEF Init
  <1>2. Spaced(short, ShortMax, ShortSpan) /\ Spaced(long, LongMax, LongSpan)
    BY <1>1 DEF Spaced
  <1>3. TypeOK
    BY SizesAssumption DEF Init, TypeOK, States, Priorities
  <1> QED BY <1>2, <1>3 DEF IInv, Init

(* An attempt books a time that both windows have room for. *)
LEMMA AttemptKeeps ==
  ASSUME IInv, NEW t \in Threads, NEW p \in Priorities, tries[t] < MaxTries,
         Attempt(t, p), prio' \in [Threads -> Priorities]
  PROVE  IInv'
  <1> DEFINE s  == Fresh(short, ShortSpan)
             l  == Fresh(long, LongSpan)
             ws == WindowFree(s, ShortMax, ShortSpan)
             wl == WindowFree(l, LongMax, LongSpan)
             S  == {0} \cup GapFree(p) \cup ws \cup wl
             at == Latest(S)
  <1>1. s \in Seq(Int) /\ Spaced(s, ShortMax, ShortSpan)
        /\ l \in Seq(Int) /\ Spaced(l, LongMax, LongSpan)
    BY FreshSpaced, SizesAssumption DEF IInv, TypeOK
  <1>2. short' = Append(s, at) /\ long' = Append(l, at) /\ last' = at
        /\ due' = [due EXCEPT ![t] = at]
    BY DEF Attempt, Book
  <1> HIDE DEF s, l
  <1>3. AtMostOne(ws) /\ AtMostOne(wl) /\ AtMostOne(GapFree(p))
    <2>1. \A q \in Seq(Int), m \in Nat \ {0}, n \in Nat : AtMostOne(WindowFree(q, m, n))
      <3> TAKE q \in Seq(Int), m \in Nat \ {0}, n \in Nat
      <3>0. CASE ~(Len(q) >= m)
        BY <3>0 DEF AtMostOne, WindowFree
      <3> SUFFICES ASSUME Len(q) >= m PROVE AtMostOne(WindowFree(q, m, n))
        BY <3>0
      <3>1. Len(q) - m + 1 \in 1..Len(q)
        OBVIOUS
      <3>2. q[Len(q) - m + 1] + n \in Int
        BY <3>1
      <3> QED BY <3>2 DEF AtMostOne, WindowFree
    <2>2. last + Gap \in Int
      BY SizesAssumption DEF IInv, TypeOK
    <2>3. AtMostOne(GapFree(p))
      BY <2>2 DEF AtMostOne, GapFree
    <2>4. AtMostOne(ws) /\ AtMostOne(wl)
      BY <1>1, <2>1, SizesAssumption
    <2> QED BY <2>3, <2>4
  <1>4. at \in Int /\ \A y \in S : at >= y
    BY <1>3, LatestIs
  <1>5. (\A y \in ws : at >= y) /\ (\A y \in wl : at >= y)
    BY <1>4
  <1> HIDE DEF at
  <1>6. short' \in Seq(Int) /\ Spaced(short', ShortMax, ShortSpan)
        /\ long' \in Seq(Int) /\ Spaced(long', LongMax, LongSpan)
    <2>1. ShortMax \in Nat /\ ShortMax >= 1 /\ LongMax \in Nat /\ LongMax >= 1
          /\ ShortSpan \in Nat /\ LongSpan \in Nat
      BY SizesAssumption
    <2>2. Append(s, at) \in Seq(Int) /\ Spaced(Append(s, at), ShortMax, ShortSpan)
      BY <1>1, <1>4, <1>5, <2>1, BookedSpaced
    <2>3. Append(l, at) \in Seq(Int) /\ Spaced(Append(l, at), LongMax, LongSpan)
      BY <1>1, <1>4, <1>5, <2>1, BookedSpaced
    <2> QED BY <1>2, <2>2, <2>3
  <1>7. TypeOK'
    <2>1. tries[t] + 1 \in 0..MaxTries
      BY SizesAssumption DEF IInv, TypeOK
    <2> QED BY <1>2, <1>4, <1>6, <2>1 DEF Attempt, IInv, TypeOK, States
  <1>8. \A u \in Threads : pc'[u] = "idle" => tries'[u] = 0
    BY DEF Attempt, IInv, TypeOK
  <1> QED BY <1>6, <1>7, <1>8 DEF IInv

LEMMA ReturnKeeps ==
  ASSUME IInv, NEW t \in Threads, Return(t)
  PROVE  IInv'
  <1>0. 0 \in 0..MaxTries /\ \A d \in Backoffs : d \in Int
    BY SizesAssumption
  <1>1. TypeOK'
    <2>1. short' = short /\ long' = long /\ last' = last
      BY DEF Return, deques
    <2>2. pc' \in [Threads -> States] /\ prio' \in [Threads -> Priorities]
      BY DEF IInv, TypeOK, Return, States, Priorities
    <2>3. due' \in [Threads -> Int] /\ tries' \in [Threads -> 0..MaxTries]
      BY <1>0 DEF IInv, TypeOK, Return
    <2> QED BY <2>1, <2>2, <2>3 DEF IInv, TypeOK
  <1>2. \A u \in Threads : pc'[u] = "idle" => tries'[u] = 0
    BY DEF Return, IInv, TypeOK
  <1>3. Spaced(short', ShortMax, ShortSpan) /\ Spaced(long', LongMax, LongSpan)
    BY DEF Return, IInv, deques
  <1> QED BY <1>1, <1>2, <1>3 DEF IInv

LEMMA WaitKeeps ==
  ASSUME IInv, NEW t \in Threads, WaitsToRetry(t)
  PROVE  IInv'
  <1>0. 0 \in 0..MaxTries /\ \A d \in Backoffs : d \in Int
    BY SizesAssumption
  <1>1. TypeOK'
    BY <1>0 DEF IInv, TypeOK, WaitsToRetry, deques, States
  <1>2. \A u \in Threads : pc'[u] = "idle" => tries'[u] = 0
    BY DEF WaitsToRetry, IInv, TypeOK
  <1>3. Spaced(short', ShortMax, ShortSpan) /\ Spaced(long', LongMax, LongSpan)
    BY DEF WaitsToRetry, IInv, deques
  <1> QED BY <1>1, <1>2, <1>3 DEF IInv

LEMMA TickKeeps ==
  ASSUME IInv, Tick
  PROVE  IInv'
  <1>1. short' \in Seq(Int) /\ Spaced(short', ShortMax, ShortSpan)
        /\ long' \in Seq(Int) /\ Spaced(long', LongMax, LongSpan)
    BY AgedSpaced, SizesAssumption DEF IInv, TypeOK, Tick
  <1>2. last' \in Int /\ due' \in [Threads -> Int]
    BY DEF IInv, TypeOK, Tick
  <1> QED BY <1>1, <1>2 DEF IInv, TypeOK, Tick

THEOREM Inductive == Spec => []IInv
  <1>1. IInv /\ [Next]_vars => IInv'
    <2> SUFFICES ASSUME IInv, [Next]_vars PROVE IInv'
      OBVIOUS
    <2>1. CASE Tick
      BY <2>1, TickKeeps
    <2>2. ASSUME NEW t \in Threads, Asks(t) PROVE IInv'
      <3>1. tries[t] = 0 /\ tries[t] < MaxTries
        BY <2>2, SizesAssumption DEF Asks, IInv
      <3>2. PICK p \in Priorities : prio' = [prio EXCEPT ![t] = p] /\ Attempt(t, p)
        BY <2>2 DEF Asks
      <3>3. prio' \in [Threads -> Priorities]
        BY <3>2 DEF IInv, TypeOK
      <3> QED BY <3>1, <3>2, <3>3, AttemptKeeps
    <2>3. ASSUME NEW t \in Threads, Sends(t) PROVE IInv'
      <3>1. TypeOK'
        BY <2>3 DEF IInv, TypeOK, Sends, deques, States
      <3>2. \A u \in Threads : pc'[u] = "idle" => tries'[u] = 0
        BY <2>3 DEF Sends, IInv, TypeOK
      <3>3. Spaced(short', ShortMax, ShortSpan) /\ Spaced(long', LongMax, LongSpan)
        BY <2>3 DEF Sends, IInv, deques
      <3> QED BY <3>1, <3>2, <3>3 DEF IInv
    <2>4. ASSUME NEW t \in Threads, Answered(t) PROVE IInv'
      BY <2>4, ReturnKeeps DEF Answered
    <2>5. ASSUME NEW t \in Threads, Rejected(t) PROVE IInv'
      BY <2>5, WaitKeeps DEF Rejected
    <2>6. ASSUME NEW t \in Threads, Breaks(t) PROVE IInv'
      BY <2>6, WaitKeeps, ReturnKeeps DEF Breaks
    <2>7. ASSUME NEW t \in Threads, BackedOff(t) PROVE IInv'
      <3>1. CASE tries[t] < MaxTries
        <4>1. prio[t] \in Priorities /\ prio' = prio /\ Attempt(t, prio[t])
          BY <2>7, <3>1 DEF BackedOff, IInv, TypeOK
        <4>2. prio' \in [Threads -> Priorities]
          BY <4>1 DEF IInv, TypeOK
        <4> QED BY <3>1, <4>1, <4>2, AttemptKeeps
      <3>2. CASE ~(tries[t] < MaxTries)
        BY <2>7, <3>2, ReturnKeeps DEF BackedOff
      <3> QED BY <3>1, <3>2
    <2>8. CASE UNCHANGED vars
      BY <2>8 DEF IInv, TypeOK, vars, deques
    <2> QED BY <2>1, <2>2, <2>3, <2>4, <2>5, <2>6, <2>7, <2>8 DEF Next, Request
  <1> QED BY Initially, <1>1, PTL DEF Spec

(* Types, and that no request is sent more than MaxTries times. *)
THEOREM TypeCorrect == Spec => []TypeOK
  <1>1. IInv => TypeOK
    BY DEF IInv
  <1> QED BY Inductive, <1>1, PTL

(* For any limits and spans, any number of threads and any waits: the windows
   of the two deques never hold more than their limits (_apply_rate_limit). *)
THEOREM Limits == Spec => []LimitsKept
  <1>1. IInv => LimitsKept
    BY SpacedKept, SizesAssumption DEF IInv, TypeOK, LimitsKept
  <1> QED BY Inductive, <1>1, PTL

=============================================================================
