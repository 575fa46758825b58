---------------------------- MODULE ShieldProofs ----------------------------
(***************************************************************************)
(* The gateway, for any limits, traffic and number of threads.             *)
(*                                                                         *)
(* The limiter: its queue holds, in the order of the requests it let       *)
(* through, a time for each that is at most the wait for the lock too      *)
(* early, and those that have left it are older than the window (Follows). *)
(***************************************************************************)
EXTENDS Shield, SequenceTheorems, FiniteSetTheorems, WellFoundedInduction, TLAPS

\* p: when a client's requests were let through; b: its queue; t: the time.
\* The last Len(b) of p are in b.
Off(b, p) == Len(p) - Len(b)

Follows(b, p, t) ==
  /\ b \in Seq(Nat) /\ p \in Seq(Nat)
  /\ Len(b) <= Len(p) /\ Len(b) <= Rate
  /\ \A i \in 1..Len(b) : b[i] <= p[Off(b, p) + i] /\ p[Off(b, p) + i] <= b[i] + MaxStale
  /\ \A i \in 1..Off(b, p) : p[i] + Window < t + MaxStale
  /\ \A i \in 1..Len(p) : p[i] <= t
  /\ \A i, j \in 1..Len(p) : i <= j => p[i] <= p[j]

\* What was let through in the last ticks.
Since(p, t, ticks) == {i \in 1..Len(p) : t - p[i] <= ticks}

\* Every set of numbers that is not empty has a least one: of the intervals
\* that end in it, one contains no other.
LEMMA FirstOf ==
  ASSUME NEW S \in SUBSET Nat, S # {}
  PROVE  \E i \in S : \A j \in S : i <= j
<1> DEFINE ends == {1..i : i \in S}
<1>1. ends \subseteq FiniteSubsetsOf(Nat) /\ ends # {}
  <2>1. ASSUME NEW i \in S PROVE 1..i \in FiniteSubsetsOf(Nat)
    <3>1. i \in Nat
      OBVIOUS
    <3>2. IsFiniteSet(1..i)
      BY <3>1, FS_Interval
    <3>3. 1..i \in SUBSET Nat
      BY <3>1
    <3>4. QED
      BY <3>2, <3>3 DEF FiniteSubsetsOf
  <2>2. QED
    BY <2>1
<1>2. IsWellFoundedOn(StrictSubsetOrdering(Nat), FiniteSubsetsOf(Nat))
  BY FS_StrictSubsetOrderingWellFounded
<1>3. PICK x \in ends : \A y \in ends : ~ (<<y, x>> \in StrictSubsetOrdering(Nat))
  <2> HIDE DEF ends
  <2>1. QED
    BY <1>1, <1>2, WFMin
<1>4. PICK i \in S : x = 1..i
  OBVIOUS
<1>5. ASSUME NEW j \in S, ~(i <= j) PROVE FALSE
  <2>1. i \in Nat /\ j \in Nat /\ j < i
    BY <1>5
  <2>2. 1..j \subseteq 1..i /\ 1..j # 1..i /\ 1..i \in SUBSET Nat
    <3>1. i \in 1..i /\ i \notin 1..j /\ 1..j \subseteq 1..i /\ 1..i \in SUBSET Nat
      BY <2>1
    <3>2. QED
      BY <3>1
  <2>3. <<1..j, 1..i>> \in StrictSubsetOrdering(Nat)
    BY <2>2 DEF StrictSubsetOrdering
  <2>4. 1..j \in ends
    OBVIOUS
  <2>5. QED
    BY <1>3, <1>4, <2>3, <2>4
<1>6. QED
  BY <1>5

\* Pruning keeps the queue in step with what was let through.
LEMMA PruneFollows ==
  ASSUME NEW b, NEW p, NEW t \in Nat, Follows(b, p, t), NEW time \in Nat, time <= t
  PROVE  Follows(Pruned(b, time), p, t) /\ Len(Pruned(b, time)) <= Len(b)
<1> DEFINE young == {i \in 1..Len(b) : time - b[i] <= Window}
           q == Pruned(b, time)
<1>a. Len(b) \in Nat /\ Len(p) \in Nat /\ \A i \in 1..Len(b) : b[i] \in Nat
  BY LenProperties, ElementOfSeq DEF Follows
<1>b. \A i \in 1..Len(p) : p[i] \in Nat
  BY ElementOfSeq DEF Follows
<1>c. Window \in Nat /\ MaxStale \in Nat /\ Rate \in Nat
  BY ShieldAssumption
<1>1. CASE young = {}
  <2>1. q = << >>
    BY <1>1 DEF Pruned
  <2>2. Off(q, p) = Len(p) /\ Len(q) = 0
    BY <2>1, <1>a DEF Off
  <2>3. \A i \in 1..Len(p) : p[i] + Window < t + MaxStale
    <3>1. ASSUME NEW i \in 1..Off(b, p) PROVE p[i] + Window < t + MaxStale
      BY DEF Follows
    <3>2. ASSUME NEW i \in (Off(b, p) + 1)..Len(p) PROVE p[i] + Window < t + MaxStale
      <4> DEFINE j == i - Off(b, p)
      <4>1. j \in 1..Len(b) /\ i = Off(b, p) + j
        BY <1>a DEF Off
      <4> HIDE DEF j
      <4>2. b[j] \in Nat /\ ~ (time - b[j] <= Window)
        BY <1>1, <1>a, <4>1
      <4>3. p[i] <= b[j] + MaxStale
        BY <4>1 DEF Follows
      <4>4. i \in 1..Len(p) /\ p[i] \in Nat
        <5>1. Off(b, p) \in Nat
          BY <1>a DEF Off, Follows
        <5>2. i \in 1..Len(p)
          BY <5>1, <1>a
        <5>3. QED
          BY <5>2, <1>b
      <4>5. QED
        BY <4>2, <4>3, <4>4, <1>c
    <3>3. QED
      BY <3>1, <3>2, <1>a DEF Off
  <2>4. QED
    BY <2>1, <2>2, <2>3, <1>a, <1>c DEF Follows
<1>2. CASE young # {}
  <2> DEFINE m == CHOOSE i \in young : \A j \in young : i <= j
  <2>1. m \in young /\ \A j \in young : m <= j
    BY <1>2, FirstOf, young \in SUBSET Nat
  <2>2. q = SubSeq(b, m, Len(b))
    BY <1>2 DEF Pruned
  <2> HIDE DEF m
  <2>3. m \in 1..Len(b) /\ \A j \in 1..(m - 1) : time - b[j] > Window
    BY <2>1, <1>a, <1>c
  <2>4. q \in Seq(Nat) /\ Len(q) = Len(b) - m + 1 /\ \A i \in 1..Len(q) : q[i] = b[m + i - 1]
    BY <2>2, <2>3, <1>a, SubSeqProperties
  <2> HIDE DEF q, young
  <2>5. Off(q, p) = Off(b, p) + m - 1
    BY <2>3, <2>4, <1>a DEF Off
  <2>6. \A i \in 1..Len(q) : q[i] <= p[Off(q, p) + i] /\ p[Off(q, p) + i] <= q[i] + MaxStale
    <3> SUFFICES ASSUME NEW i \in 1..Len(q)
                 PROVE  q[i] <= p[Off(q, p) + i] /\ p[Off(q, p) + i] <= q[i] + MaxStale
      OBVIOUS
    <3>1. m + i - 1 \in 1..Len(b) /\ Off(q, p) + i = Off(b, p) + (m + i - 1)
      BY <2>3, <2>4, <2>5, <1>a DEF Off
    <3>2. QED
      BY <2>4, <3>1 DEF Follows
  <2>7. \A i \in 1..Off(q, p) : p[i] + Window < t + MaxStale
    <3> SUFFICES ASSUME NEW i \in 1..Off(q, p) PROVE p[i] + Window < t + MaxStale
      OBVIOUS
    <3>1. CASE i \in 1..Off(b, p)
      BY <3>1 DEF Follows
    <3>2. CASE i \notin 1..Off(b, p)
      <4> DEFINE j == i - Off(b, p)
      <4>1. j \in 1..(m - 1) /\ j \in 1..Len(b) /\ i = Off(b, p) + j /\ i \in 1..Len(p)
        BY <3>2, <2>3, <2>5, <1>a DEF Off, Follows
      <4>2. b[j] \in Nat /\ time - b[j] > Window /\ p[i] <= b[j] + MaxStale /\ p[i] \in Nat
        BY <2>3, <1>a, <1>b, <4>1 DEF Follows
      <4>3. QED
        BY <4>2, <1>c
    <3>3. QED
      BY <3>1, <3>2
  <2>8. Len(q) <= Len(b)
    BY <2>3, <2>4, <1>a
  <2>9. QED
    BY <2>4, <2>6, <2>7, <2>8, <1>a, <1>c DEF Follows, q
<1>3. QED
  BY <1>1, <1>2

\* Letting a request through, with the time its thread took.
LEMMA AppendFollows ==
  ASSUME NEW b, NEW p, NEW t \in Nat, Follows(b, p, t), Len(b) < Rate,
         NEW time \in Nat, time <= t, t <= time + MaxStale
  PROVE  Follows(Append(b, time), Append(p, t), t)
<1> DEFINE b2 == Append(b, time)
           p2 == Append(p, t)
<1>1. /\ b2 \in Seq(Nat) /\ Len(b2) = Len(b) + 1 /\ b2[Len(b) + 1] = time
      /\ \A i \in 1..Len(b) : b2[i] = b[i]
  BY AppendProperties DEF Follows
<1>2. /\ p2 \in Seq(Nat) /\ Len(p2) = Len(p) + 1 /\ p2[Len(p) + 1] = t
      /\ \A i \in 1..Len(p) : p2[i] = p[i]
  BY AppendProperties DEF Follows
<1>3. Len(b) \in Nat /\ Len(p) \in Nat /\ Len(b) <= Len(p) /\ Rate \in Nat /\ Window \in Nat /\ MaxStale \in Nat
  BY LenProperties, ShieldAssumption DEF Follows
<1> HIDE DEF b2, p2
<1>4. Off(b2, p2) = Off(b, p)
  BY <1>1, <1>2, <1>3 DEF Off
<1>5. \A i \in 1..Len(b2) : b2[i] <= p2[Off(b2, p2) + i] /\ p2[Off(b2, p2) + i] <= b2[i] + MaxStale
  <2> SUFFICES ASSUME NEW i \in 1..Len(b2)
               PROVE  b2[i] <= p2[Off(b2, p2) + i] /\ p2[Off(b2, p2) + i] <= b2[i] + MaxStale
    OBVIOUS
  <2>1. CASE i = Len(b) + 1
    BY <2>1, <1>1, <1>2, <1>3, <1>4 DEF Off
  <2>2. CASE i # Len(b) + 1
    <3>1. i \in 1..Len(b) /\ Off(b, p) + i \in 1..Len(p)
      BY <2>2, <1>1, <1>3 DEF Off
    <3>2. QED
      BY <3>1, <1>1, <1>2, <1>4 DEF Follows
  <2>3. QED
    BY <2>1, <2>2
<1>6. \A i \in 1..Off(b2, p2) : p2[i] + Window < t + MaxStale
  <2>1. \A i \in 1..Off(b, p) : i \in 1..Len(p) /\ p[i] + Window < t + MaxStale
    BY <1>3 DEF Off, Follows
  <2>2. QED
    BY <2>1, <1>2, <1>4
<1>p. \A i, j \in 1..Len(p) : p[i] \in Nat /\ p[i] <= t /\ (i <= j => p[i] <= p[j])
  BY ElementOfSeq DEF Follows
<1>i. \A i \in 1..Len(p2) : i \in 1..Len(p) \/ i = Len(p) + 1
  BY <1>2, <1>3
<1>7. \A i \in 1..Len(p2) : p2[i] <= t
  BY <1>2, <1>p, <1>i
<1>8. \A i, j \in 1..Len(p2) : i <= j => p2[i] <= p2[j]
  <2> SUFFICES ASSUME NEW i \in 1..Len(p2), NEW j \in 1..Len(p2), i <= j PROVE p2[i] <= p2[j]
    OBVIOUS
  <2>1. CASE j = Len(p) + 1
    BY <2>1, <1>2, <1>7
  <2>2. CASE j # Len(p) + 1
    <3>1. i \in 1..Len(p) /\ j \in 1..Len(p)
      BY <2>2, <1>2, <1>3
    <3>2. QED
      BY <3>1, <1>2, <1>p
  <2>3. QED
    BY <2>1, <2>2
<1>9. QED
  <2>1. Len(b2) <= Len(p2) /\ Len(b2) <= Rate
    BY <1>1, <1>2, <1>3
  <2>2. Follows(b2, p2, t)
    BY <1>1, <1>2, <1>5, <1>6, <1>7, <1>8, <2>1 DEF Follows
  <2>3. QED
    BY <2>2 DEF b2, p2

\* Time alone keeps them in step.
LEMMA TickFollows ==
  ASSUME NEW b, NEW p, NEW t \in Nat, Follows(b, p, t), NEW u \in Nat, t <= u
  PROVE  Follows(b, p, u)
<1>1. Window \in Nat /\ MaxStale \in Nat
  BY ShieldAssumption
<1>2. Len(b) \in Nat /\ Len(p) \in Nat /\ Len(b) <= Len(p)
  BY LenProperties DEF Follows
<1>3. \A i \in 1..Len(p) : p[i] \in Nat
  BY ElementOfSeq DEF Follows
<1>4. \A i \in 1..Off(b, p) : i \in 1..Len(p)
  BY <1>2 DEF Off
<1>5. \A i \in 1..Off(b, p) : p[i] + Window < u + MaxStale
  BY <1>1, <1>3, <1>4 DEF Follows
<1>6. \A i \in 1..Len(p) : p[i] <= u
  BY <1>3 DEF Follows
<1>7. QED
  BY <1>5, <1>6 DEF Follows

\* The head of a pruned queue is young.
LEMMA PrunedHead ==
  ASSUME NEW b \in Seq(Nat), NEW time \in Nat, Pruned(b, time) # << >>
  PROVE  time - Pruned(b, time)[1] <= Window
<1> DEFINE young == {i \in 1..Len(b) : time - b[i] <= Window}
           m == CHOOSE i \in young : \A j \in young : i <= j
<1>1. young # {} /\ Pruned(b, time) = SubSeq(b, m, Len(b))
  BY DEF Pruned
<1>2. m \in young
  BY <1>1, FirstOf, young \in SUBSET Nat
<1> HIDE DEF m
<1>3. m \in 1..Len(b) /\ time - b[m] <= Window /\ Len(b) \in Nat
  BY <1>2, LenProperties
<1>4. SubSeq(b, m, Len(b))[1] = b[m]
  BY <1>3, SubSeqProperties
<1>5. QED
  BY <1>1, <1>3, <1>4

\* Numbers of one set, moved by a distance, that lie in another are no more.
LEMMA MoveCardinality ==
  ASSUME NEW S \in SUBSET Int, NEW T, IsFiniteSet(T), NEW d \in Int,
         \A i \in S : i + d \in T
  PROVE  IsFiniteSet(S) /\ Cardinality(S) <= Cardinality(T)
<1> DEFINE f == [i \in S |-> i + d]
<1>1. f \in Injection(S, T)
  <2>1. f \in [S -> T]
    OBVIOUS
  <2>2. \A i, j \in S : f[i] = f[j] => i = j
    OBVIOUS
  <2>3. QED
    BY <2>1, <2>2 DEF Injection, IsInjective
<1>2. QED
  BY <1>1, FS_Injection

\* What the queue allows, the window holds.
LEMMA RateBound ==
  ASSUME NEW b, NEW p, NEW t \in Nat, Follows(b, p, t)
  PROVE  Cardinality(Since(p, t, Window - MaxStale)) <= Rate
<1>1. Window \in Nat /\ MaxStale \in Nat /\ Rate \in Nat
  BY ShieldAssumption
<1>2. Len(b) \in Nat /\ Len(p) \in Nat /\ Len(b) <= Len(p) /\ Len(b) <= Rate
  BY LenProperties DEF Follows
<1>3. \A i \in 1..Len(p) : p[i] \in Nat
  BY ElementOfSeq DEF Follows
<1> DEFINE S == Since(p, t, Window - MaxStale)
<1>4. ASSUME NEW i \in S PROVE i + (0 - Off(b, p)) \in 1..Len(b)
  <2>1. i \in 1..Len(p) /\ t - p[i] <= Window - MaxStale /\ p[i] \in Nat
    BY <1>3 DEF Since
  <2>2. i \notin 1..Off(b, p)
    <3>1. i \in 1..Off(b, p) => p[i] + Window < t + MaxStale
      BY DEF Follows
    <3>2. QED
      BY <2>1, <3>1, <1>1
  <2>3. QED
    BY <2>1, <2>2, <1>2 DEF Off
<1>5. S \in SUBSET Int /\ 0 - Off(b, p) \in Int
  BY <1>2 DEF Off, Since
<1>6. IsFiniteSet(1..Len(b)) /\ Cardinality(1..Len(b)) = Len(b)
  <2>1. 1 \in Int /\ Len(b) \in Int
    BY <1>2
  <2>2. /\ IsFiniteSet(1..Len(b))
        /\ Cardinality(1..Len(b)) = IF 1 > Len(b) THEN 0 ELSE Len(b) - 1 + 1
    BY <2>1, FS_Interval
  <2>3. QED
    BY <2>2, <1>2
<1> HIDE DEF S
<1>7. IsFiniteSet(S) /\ Cardinality(S) <= Len(b)
  BY <1>4, <1>5, <1>6, MoveCardinality
<1>8. Cardinality(S) \in Nat
  BY <1>7, FS_CardinalityType
<1>9. Cardinality(S) <= Rate
  BY <1>1, <1>2, <1>6, <1>7, <1>8
<1>10. QED
  BY <1>9 DEF S

\* A request let through when fewer than Burst of the queue are recent.
LEMMA BurstBound ==
  ASSUME NEW b, NEW p, NEW t \in Nat, Follows(b, p, t),
         NEW time \in Nat, time <= t, Cardinality(Recent(b, time)) < Burst
  PROVE  Cardinality(Since(Append(p, t), t, Span - MaxStale)) <= Burst
<1>1. /\ {Window, MaxStale, Span, Burst} \subseteq Nat /\ Span <= Window
  BY ShieldAssumption
<1>2. Len(b) \in Nat /\ Len(p) \in Nat /\ Len(b) <= Len(p)
  BY LenProperties DEF Follows
<1>3. /\ \A i \in 1..Len(p) : p[i] \in Nat
      /\ \A i \in 1..Len(b) : b[i] \in Nat
  BY ElementOfSeq DEF Follows
<1>4. /\ Len(Append(p, t)) = Len(p) + 1 /\ \A i \in 1..Len(p) : Append(p, t)[i] = p[i]
  BY AppendProperties DEF Follows
<1> DEFINE S == Since(p, t, Span - MaxStale)
           T == Recent(b, time)
           S2 == Since(Append(p, t), t, Span - MaxStale)
<1>5. S2 \subseteq S \cup {Len(p) + 1}
  <2> SUFFICES ASSUME NEW i \in S2, i # Len(p) + 1 PROVE i \in S
    OBVIOUS
  <2>1. i \in 1..(Len(p) + 1) /\ t - Append(p, t)[i] <= Span - MaxStale
    BY <1>4 DEF Since
  <2>2. i \in 1..Len(p)
    BY <2>1, <1>2
  <2>3. QED
    BY <2>1, <2>2, <1>4 DEF Since
<1>6. ASSUME NEW i \in S PROVE i + (0 - Off(b, p)) \in T
  <2>1. i \in 1..Len(p) /\ t - p[i] <= Span - MaxStale /\ p[i] \in Nat
    BY <1>3 DEF Since
  <2>2. i \notin 1..Off(b, p)
    <3>1. i \in 1..Off(b, p) => p[i] + Window < t + MaxStale
      BY DEF Follows
    <3>2. QED
      BY <2>1, <3>1, <1>1
  <2> DEFINE j == i + (0 - Off(b, p))
  <2>3. j \in 1..Len(b) /\ i = Off(b, p) + j
    BY <2>1, <2>2, <1>2 DEF Off
  <2> HIDE DEF j
  <2>4. p[i] <= b[j] + MaxStale /\ b[j] \in Nat
    BY <2>3, <1>3 DEF Follows
  <2>5. time - b[j] <= Span
    BY <2>1, <2>4, <1>1
  <2>6. j \in T
    BY <2>3, <2>5 DEF Recent
  <2>7. QED
    BY <2>6 DEF j
<1>7. S \in SUBSET Int /\ 0 - Off(b, p) \in Int
  BY <1>2 DEF Off, Since
<1>8. IsFiniteSet(T)
  <2>1. T \in SUBSET (1..Len(b)) /\ IsFiniteSet(1..Len(b))
    BY <1>2, FS_Interval DEF Recent
  <2>2. QED
    BY <2>1, FS_Subset
<1> HIDE DEF S, T, S2
<1>9. IsFiniteSet(S) /\ Cardinality(S) <= Cardinality(T)
  BY <1>6, <1>7, <1>8, MoveCardinality
<1>10. /\ IsFiniteSet(S \cup {Len(p) + 1})
       /\ Cardinality(S \cup {Len(p) + 1}) \in {Cardinality(S), Cardinality(S) + 1}
  BY <1>9, FS_AddElement
<1>11. IsFiniteSet(S2) /\ Cardinality(S2) <= Cardinality(S \cup {Len(p) + 1})
  BY <1>5, <1>10, FS_Subset
<1>12. /\ Cardinality(S) \in Nat /\ Cardinality(T) \in Nat /\ Cardinality(S2) \in Nat
  BY <1>8, <1>9, <1>11, FS_CardinalityType
<1>13. Cardinality(T) < Burst
  BY DEF T
<1>14. Cardinality(S2) <= Burst
  BY <1>1, <1>9, <1>10, <1>11, <1>12, <1>13
<1>15. QED
  BY <1>14 DEF S2

\* Of what was let through recently at u, all was so at t, before.
LEMMA SinceShrinks ==
  ASSUME NEW p \in Seq(Nat), NEW t \in Nat, NEW u \in Nat, t <= u, NEW ticks \in Int
  PROVE  Since(p, u, ticks) \subseteq Since(p, t, ticks)
<1> SUFFICES ASSUME NEW i \in Since(p, u, ticks) PROVE i \in Since(p, t, ticks)
  OBVIOUS
<1>1. i \in 1..Len(p) /\ u - p[i] <= ticks
  BY DEF Since
<1>2. p[i] \in Nat
  BY <1>1, ElementOfSeq
<1>3. t - p[i] <= ticks
  BY <1>1, <1>2
<1>4. QED
  BY <1>1, <1>3 DEF Since

LEMMA SinceFinite ==
  ASSUME NEW p, Len(p) \in Nat, NEW t, NEW ticks
  PROVE  IsFiniteSet(Since(p, t, ticks))
<1>1. Since(p, t, ticks) \in SUBSET (1..Len(p)) /\ IsFiniteSet(1..Len(p))
  BY FS_Interval DEF Since
<1>2. QED
  BY <1>1, FS_Subset

\* A full queue with a young head: as many requests shortly before.
LEMMA FullForCause ==
  ASSUME NEW q, NEW p, NEW t \in Nat, Follows(q, p, t),
         NEW time \in Nat, time <= t, t <= time + MaxStale,
         q # << >> => time - q[1] <= Window, Full(q)
  PROVE  Cardinality(Since(p, t, Window + MaxStale)) >= Rate
<1>1. {Window, MaxStale, Rate} \subseteq Nat /\ Rate > 0
  BY ShieldAssumption
<1>2. Len(q) \in Nat /\ Len(p) \in Nat /\ Len(q) <= Len(p) /\ Len(q) >= Rate /\ q \in Seq(Nat)
  BY LenProperties DEF Follows, Full
<1>3. \A i \in 1..Len(p) : p[i] \in Nat
  BY ElementOfSeq DEF Follows
<1> DEFINE S == Since(p, t, Window + MaxStale)
           o == Off(q, p)
<1>4. o \in Nat /\ Len(p) = o + Len(q)
  BY <1>2 DEF Off
<1>5. 1 \in 1..Len(q) /\ q # << >>
  BY <1>1, <1>2
<1>6. q[1] \in Nat /\ q[1] <= p[o + 1] /\ time - q[1] <= Window
  BY <1>2, <1>5, ElementOfSeq DEF Follows
<1>7. ASSUME NEW i \in 1..Len(q) PROVE i + o \in S
  <2>1. i + o \in 1..Len(p) /\ o + 1 \in 1..Len(p) /\ o + 1 <= i + o
    BY <1>4, <1>5
  <2>2. p[o + 1] <= p[i + o]
    BY <2>1 DEF Follows
  <2>3. p[i + o] \in Nat /\ p[o + 1] \in Nat
    BY <2>1, <1>3
  <2>4. t - p[i + o] <= Window + MaxStale
    BY <2>2, <2>3, <1>1, <1>6
  <2>5. QED
    BY <2>1, <2>4 DEF Since
<1>8. IsFiniteSet(S)
  BY <1>2, SinceFinite
<1>9. 1..Len(q) \in SUBSET Int /\ o \in Int
  BY <1>2, <1>4
<1> HIDE DEF S, o
<1>10. Cardinality(1..Len(q)) <= Cardinality(S)
  BY <1>7, <1>8, <1>9, MoveCardinality
<1>11. Cardinality(1..Len(q)) = Len(q)
  <2>1. 1 \in Int /\ Len(q) \in Int
    BY <1>2
  <2>2. Cardinality(1..Len(q)) = IF 1 > Len(q) THEN 0 ELSE Len(q) - 1 + 1
    BY <2>1, FS_Interval
  <2>3. QED
    BY <2>2, <1>2
<1>12. Cardinality(S) \in Nat
  BY <1>8, FS_CardinalityType
<1>13. Cardinality(S) >= Rate
  BY <1>1, <1>2, <1>10, <1>11, <1>12
<1>14. QED
  BY <1>13 DEF S

\* As many entries of the burst: as many requests of the burst.
LEMMA RecentForCause ==
  ASSUME NEW q, NEW p, NEW t \in Nat, Follows(q, p, t),
         NEW time \in Nat, time <= t, t <= time + MaxStale,
         Cardinality(Recent(q, time)) >= Burst
  PROVE  Cardinality(Since(p, t, Span + MaxStale)) >= Burst
<1>1. {Span, MaxStale, Burst} \subseteq Nat
  BY ShieldAssumption
<1>2. Len(q) \in Nat /\ Len(p) \in Nat /\ Len(q) <= Len(p)
  BY LenProperties DEF Follows
<1>3. /\ \A i \in 1..Len(p) : p[i] \in Nat
      /\ \A i \in 1..Len(q) : q[i] \in Nat
  BY ElementOfSeq DEF Follows
<1> DEFINE S == Since(p, t, Span + MaxStale)
           T == Recent(q, time)
           o == Off(q, p)
<1>4. o \in Nat /\ Len(p) = o + Len(q)
  BY <1>2 DEF Off
<1>5. ASSUME NEW i \in T PROVE i + o \in S
  <2>1. i \in 1..Len(q) /\ time - q[i] <= Span /\ q[i] \in Nat
    BY <1>3 DEF Recent
  <2>2. i + o \in 1..Len(p)
    BY <2>1, <1>2, <1>4
  <2>3. q[i] <= p[i + o]
    <3>1. i + o = o + i
      BY <2>1, <1>4
    <3>2. QED
      BY <2>1, <3>1 DEF Follows
  <2>4. t - p[i + o] <= Span + MaxStale
    BY <2>1, <2>2, <2>3, <1>1, <1>3
  <2>5. QED
    BY <2>2, <2>4 DEF Since
<1>6. IsFiniteSet(S)
  BY <1>2, SinceFinite
<1>7. T \in SUBSET Int /\ o \in Int
  BY <1>4 DEF Recent
<1> HIDE DEF S, o
<1>8. IsFiniteSet(T) /\ Cardinality(T) <= Cardinality(S)
  BY <1>5, <1>6, <1>7, MoveCardinality
<1>9. Cardinality(S) \in Nat /\ Cardinality(T) \in Nat
  BY <1>6, <1>8, FS_CardinalityType
<1>10. Cardinality(S) >= Burst
  BY <1>1, <1>8, <1>9
<1>11. QED
  BY <1>10 DEF S

-----------------------------------------------------------------------------
(* The limiter over the steps of the gateway                               *)

LimitInv ==
  /\ clock \in Nat
  /\ now \in [Requests -> Nat]
  /\ pc \in [Requests -> {"idle", "limit", "forward", "saving", "done", "killed"}]
  /\ buckets \in [Clients -> Seq(Nat)] /\ passed \in [Clients -> Seq(Nat)]
  /\ \A r \in Requests :
       pc[r] = "limit" => r \in DOMAIN traffic /\ now[r] <= clock /\ clock <= now[r] + MaxStale
  /\ \A c \in Clients : Follows(buckets[c], passed[c], clock)

\* The second half of LimitsHold, which only a request let through disturbs.
BurstInv == \A c \in Clients : Cardinality(Since(passed[c], clock, Span - MaxStale)) <= Burst

LEMMA EmptyFollows ==
  ASSUME NEW t \in Nat
  PROVE  /\ Follows(<< >>, << >>, t)
         /\ \A ticks : Cardinality(Since(<< >>, t, ticks)) = 0
<1>1. << >> \in Seq(Nat) /\ Len(<< >>) = 0 /\ Off(<< >>, << >>) = 0
  BY DEF Off
<1>2. Rate \in Nat
  BY ShieldAssumption
<1>3. Follows(<< >>, << >>, t)
  BY <1>1, <1>2 DEF Follows
<1>4. \A ticks : Since(<< >>, t, ticks) = {}
  BY <1>1 DEF Since
<1>5. QED
  BY <1>3, <1>4, FS_EmptySet

\* Nothing a step does changes the traffic.
LEMMA SettingStays ==
  ASSUME [Next]_vars
  PROVE  scenario' = scenario /\ traffic' = traffic /\ Clients' = Clients
<1>1. scenario' = scenario
  BY DEF Next, vars, Tick, Stop, Crash, Restart, Arrive, Handle, Allow, Forward, Unavailable,
         Save, OpenTmp, WriteTmp, ReplaceProfile
<1>2. traffic' = traffic
  BY <1>1 DEF traffic, Setting
<1>3. QED
  BY <1>1, <1>2 DEF Clients

Stages == {"idle", "limit", "forward", "saving", "done", "killed"}

LEMMA LimitInit ==
  ASSUME Init
  PROVE  LimitInv /\ BurstInv
<1>1. clock = 0 /\ now \in [Requests -> Nat]
  BY DEF Init
<1>2. pc \in [Requests -> {"idle", "limit", "forward", "saving", "done", "killed"}]
      /\ \A r \in Requests : pc[r] # "limit"
  BY DEF Init
<1>3. /\ buckets \in [Clients -> Seq(Nat)] /\ passed \in [Clients -> Seq(Nat)]
      /\ \A c \in Clients : buckets[c] = << >> /\ passed[c] = << >>
  <2>1. << >> \in Seq(Nat)
    OBVIOUS
  <2>2. QED
    BY <2>1 DEF Init
<1>4. Burst \in Nat
  BY ShieldAssumption
<1>5. QED
  BY <1>1, <1>2, <1>3, <1>4, EmptyFollows DEF LimitInv, BurstInv

\* Steps that leave the limiter and the time alone.
LEMMA ElsewhereStep ==
  ASSUME LimitInv, BurstInv, traffic' = traffic, Clients' = Clients,
         UNCHANGED <<limiter, clock>>,
         pc' \in [Requests -> Stages],
         \A r \in Requests : pc'[r] = "limit" => pc[r] = "limit"
  PROVE  LimitInv' /\ BurstInv'
<1>1. now' = now /\ buckets' = buckets /\ passed' = passed /\ clock' = clock
  BY DEF limiter
<1>2. QED
  BY <1>1 DEF LimitInv, BurstInv, Stages

\* The process ends: nobody waits for the limiter, and its memory is gone.
LEMMA EndStep ==
  ASSUME LimitInv, BurstInv, traffic' = traffic, Clients' = Clients, End, clock' = clock
  PROVE  LimitInv' /\ BurstInv'
<1>1. now' \in [Requests -> Nat]
  BY DEF End
<1>2. pc' \in [Requests -> Stages] /\ \A r \in Requests : pc'[r] # "limit"
  BY DEF End, LimitInv, Stages
<1>3. /\ buckets' \in [Clients -> Seq(Nat)] /\ passed' \in [Clients -> Seq(Nat)]
      /\ \A c \in Clients : buckets'[c] = << >> /\ passed'[c] = << >>
  <2>1. << >> \in Seq(Nat)
    OBVIOUS
  <2>2. QED
    BY <2>1 DEF End
<1>4. Burst \in Nat /\ clock' \in Nat
  BY ShieldAssumption DEF LimitInv
<1>5. QED
  BY <1>1, <1>2, <1>3, <1>4, EmptyFollows DEF LimitInv, BurstInv, Stages

\* The queue the limiter judges by, and what it knows of it.
LEMMA Judged ==
  ASSUME LimitInv, NEW r \in Requests, pc[r] = "limit", NEW c, c = traffic[r].client
  PROVE  /\ c \in Clients /\ now[r] \in Nat /\ now[r] <= clock /\ clock <= now[r] + MaxStale
         /\ clock \in Nat
         /\ Follows(Pruned(buckets[c], now[r]), passed[c], clock)
         /\ Pruned(buckets[c], now[r]) # << >> =>
              now[r] - Pruned(buckets[c], now[r])[1] <= Window
<1>1. c \in Clients
  BY DEF LimitInv, Clients
<1>2. now[r] \in Nat /\ now[r] <= clock /\ clock <= now[r] + MaxStale /\ clock \in Nat
  BY DEF LimitInv
<1>3. Follows(buckets[c], passed[c], clock) /\ buckets[c] \in Seq(Nat)
  BY <1>1 DEF LimitInv
<1>4. Follows(Pruned(buckets[c], now[r]), passed[c], clock)
  BY <1>2, <1>3, PruneFollows
<1>5. Pruned(buckets[c], now[r]) # << >> => now[r] - Pruned(buckets[c], now[r])[1] <= Window
  BY <1>2, <1>3, PrunedHead
<1>6. QED
  BY <1>1, <1>2, <1>4, <1>5

LEMMA AllowStep ==
  ASSUME LimitInv, BurstInv, traffic' = traffic, Clients' = Clients,
         NEW r \in Requests, Allow(r)
  PROVE  LimitInv' /\ BurstInv'
<1> DEFINE c == traffic[r].client
           q == Pruned(buckets[c], now[r])
           limited == Full(q) \/ Cardinality(Recent(q, now[r])) >= Burst
<1>1. pc[r] = "limit"
  BY DEF Allow
<1>2. /\ c \in Clients /\ now[r] \in Nat /\ now[r] <= clock /\ clock <= now[r] + MaxStale
      /\ clock \in Nat /\ Follows(q, passed[c], clock)
  BY <1>1, Judged
<1>3. clock' = clock /\ now' = [now EXCEPT ![r] = 0] /\ now' \in [Requests -> Nat]
  BY DEF Allow, LimitInv
<1>4. /\ pc' \in [Requests -> Stages]
      /\ \A s \in Requests : pc'[s] = "limit" => s # r /\ pc[s] = "limit"
  BY <1>1 DEF Allow, Answer, Goto, LimitInv, Stages
<1>5. \A s \in Requests :
        pc'[s] = "limit" => s \in DOMAIN traffic' /\ now'[s] <= clock' /\ clock' <= now'[s] + MaxStale
  BY <1>3, <1>4 DEF LimitInv
<1>6. CASE limited
  <2>1. buckets' = [buckets EXCEPT ![c] = q] /\ passed' = passed
    BY <1>6 DEF Allow
  <2> HIDE DEF q
  <2>2. q \in Seq(Nat)
    BY <1>2 DEF Follows
  <2>3. /\ buckets' \in [Clients -> Seq(Nat)] /\ passed' \in [Clients -> Seq(Nat)]
        /\ \A d \in Clients : Follows(buckets'[d], passed'[d], clock')
    BY <1>2, <1>3, <2>1, <2>2 DEF LimitInv
  <2>4. BurstInv'
    BY <1>3, <2>1 DEF BurstInv
  <2>5. QED
    BY <1>2, <1>3, <1>4, <1>5, <2>3, <2>4 DEF LimitInv, Stages
<1>7. CASE ~limited
  <2>1. /\ buckets' = [buckets EXCEPT ![c] = Append(q, now[r])]
        /\ passed' = [passed EXCEPT ![c] = Append(passed[c], clock)]
    BY <1>7 DEF Allow
  <2>2. Len(q) < Rate /\ Cardinality(Recent(q, now[r])) < Burst
    <3>1. Len(q) \in Nat /\ Rate \in Nat /\ Burst \in Nat
      BY <1>2, LenProperties, ShieldAssumption DEF Follows
    <3>2. IsFiniteSet(Recent(q, now[r]))
      <4>1. Recent(q, now[r]) \in SUBSET (1..Len(q)) /\ IsFiniteSet(1..Len(q))
        BY <3>1, FS_Interval DEF Recent
      <4>2. QED
        BY <4>1, FS_Subset
    <3>3. Cardinality(Recent(q, now[r])) \in Nat
      BY <3>2, FS_CardinalityType
    <3> HIDE DEF q
    <3>4. QED
      BY <1>7, <3>1, <3>3 DEF Full
  <2> HIDE DEF q
  <2>3. Follows(Append(q, now[r]), Append(passed[c], clock), clock)
    BY <1>2, <2>2, AppendFollows
  <2>4. Cardinality(Since(Append(passed[c], clock), clock, Span - MaxStale)) <= Burst
    BY <1>2, <2>2, BurstBound
  <2>5. Append(q, now[r]) \in Seq(Nat) /\ Append(passed[c], clock) \in Seq(Nat)
    BY <2>3 DEF Follows
  <2>6. /\ buckets' \in [Clients -> Seq(Nat)] /\ passed' \in [Clients -> Seq(Nat)]
        /\ \A d \in Clients : Follows(buckets'[d], passed'[d], clock')
    BY <1>2, <1>3, <2>1, <2>3, <2>5 DEF LimitInv
  <2>7. BurstInv'
    BY <1>2, <1>3, <2>1, <2>4 DEF BurstInv, LimitInv
  <2>8. QED
    BY <1>2, <1>3, <1>4, <1>5, <2>6, <2>7 DEF LimitInv, Stages
<1>8. QED
  BY <1>6, <1>7

\* Time passes: what was let through recently is no more than before.
LEMMA TickStep ==
  ASSUME LimitInv, BurstInv, traffic' = traffic, Clients' = Clients, Tick
  PROVE  LimitInv' /\ BurstInv'
<1>1. /\ clock \in Nat /\ clock' = clock + 1 /\ clock' \in Nat
      /\ pc' = pc /\ now' = now /\ buckets' = buckets /\ passed' = passed
  BY DEF Tick, LimitInv, limiter
<1>2. \A r \in Requests : pc[r] = "limit" => now[r] <= clock + 1 /\ clock + 1 <= now[r] + MaxStale
  <2> SUFFICES ASSUME NEW r \in Requests, pc[r] = "limit"
               PROVE  now[r] <= clock + 1 /\ clock + 1 <= now[r] + MaxStale
    OBVIOUS
  <2>1. now[r] \in Nat /\ MaxStale \in Nat /\ now[r] <= clock /\ clock < now[r] + MaxStale
    BY ShieldAssumption DEF LimitInv, Tick
  <2>2. QED
    BY <1>1, <2>1
<1>3. \A c \in Clients : Follows(buckets[c], passed[c], clock + 1)
  <2> SUFFICES ASSUME NEW c \in Clients PROVE Follows(buckets[c], passed[c], clock + 1)
    OBVIOUS
  <2>1. Follows(buckets[c], passed[c], clock) /\ clock <= clock + 1 /\ clock + 1 \in Nat
    BY <1>1 DEF LimitInv
  <2>2. QED
    BY <1>1, <2>1, TickFollows
<1>4. ASSUME NEW c \in Clients
      PROVE  Cardinality(Since(passed[c], clock + 1, Span - MaxStale)) <= Burst
  <2> DEFINE S == Since(passed[c], clock, Span - MaxStale)
             T == Since(passed[c], clock + 1, Span - MaxStale)
  <2>1. passed[c] \in Seq(Nat) /\ Len(passed[c]) \in Nat /\ Cardinality(S) <= Burst
    BY LenProperties DEF LimitInv, BurstInv
  <2>2. {Span, MaxStale, Burst} \subseteq Nat
    BY ShieldAssumption
  <2>3. T \subseteq S
    <3>1. Span - MaxStale \in Int /\ clock + 1 \in Nat /\ clock <= clock + 1
      BY <1>1, <2>2
    <3>2. QED
      BY <1>1, <2>1, <3>1, SinceShrinks
  <2>4. IsFiniteSet(S)
    BY <2>1, SinceFinite
  <2> HIDE DEF S
  <2>5. IsFiniteSet(T) /\ Cardinality(T) <= Cardinality(S)
    BY <2>3, <2>4, FS_Subset
  <2> HIDE DEF T
  <2>6. Cardinality(S) \in Nat /\ Cardinality(T) \in Nat
    BY <2>4, <2>5, FS_CardinalityType
  <2>7. Cardinality(T) <= Burst
    BY <2>1, <2>2, <2>5, <2>6
  <2>8. QED
    BY <2>7 DEF T
<1>5. QED
  BY <1>1, <1>2, <1>3, <1>4 DEF LimitInv, BurstInv

LEMMA ArriveStep ==
  ASSUME LimitInv, BurstInv, traffic' = traffic, Clients' = Clients,
         NEW r \in Requests, Arrive(r)
  PROVE  LimitInv' /\ BurstInv'
<1>1. /\ r \in DOMAIN traffic /\ clock' = clock /\ clock \in Nat
      /\ buckets' = buckets /\ passed' = passed
      /\ now' = now \/ now' = [now EXCEPT ![r] = clock]
  BY DEF Arrive, LimitInv
<1>2. now' \in [Requests -> Nat]
  BY <1>1 DEF LimitInv
<1>3. /\ pc' \in [Requests -> Stages]
      /\ \A s \in Requests : s # r => pc'[s] = pc[s] /\ now'[s] = now[s]
      /\ pc'[r] = "limit" => now'[r] = clock
  BY DEF Arrive, Answer, Goto, LimitInv, Stages
<1>4. MaxStale \in Nat
  BY ShieldAssumption
<1>5. \A s \in Requests :
        pc'[s] = "limit" => s \in DOMAIN traffic /\ now'[s] <= clock /\ clock <= now'[s] + MaxStale
  BY <1>1, <1>3, <1>4 DEF LimitInv
<1>6. QED
  BY <1>1, <1>2, <1>3, <1>5 DEF LimitInv, BurstInv, Stages

LEMMA LimitStep ==
  ASSUME LimitInv, BurstInv, [Next]_vars
  PROVE  LimitInv' /\ BurstInv'
<1> USE SettingStays
<1>1. CASE Tick
  BY <1>1, TickStep
<1>2. CASE Stop
  BY <1>2, ElsewhereStep DEF Stop, LimitInv, Stages
<1>3. CASE Crash
  BY <1>3, EndStep DEF Crash
<1>4. CASE Restart
  BY <1>4, ElsewhereStep DEF Restart, LimitInv, Stages
<1>5. ASSUME NEW r \in Requests, Arrive(r) PROVE LimitInv' /\ BurstInv'
  BY <1>5, ArriveStep
<1>6. ASSUME NEW r \in Requests, Allow(r) PROVE LimitInv' /\ BurstInv'
  BY <1>6, AllowStep
<1>7. ASSUME NEW r \in Requests, Forward(r) PROVE LimitInv' /\ BurstInv'
  <2>1. pc' \in [Requests -> Stages] /\ \A s \in Requests : pc'[s] = "limit" => pc[s] = "limit"
    BY <1>7 DEF Forward, Answer, Goto, LimitInv, Stages
  <2>2. UNCHANGED <<limiter, clock>>
    BY <1>7 DEF Forward
  <2>3. QED
    BY <2>1, <2>2, ElsewhereStep
<1>8. ASSUME NEW r \in Requests, Unavailable(r) PROVE LimitInv' /\ BurstInv'
  <2>1. pc' \in [Requests -> Stages] /\ \A s \in Requests : pc'[s] = "limit" => pc[s] = "limit"
    BY <1>8 DEF Unavailable, Answer, Goto, LimitInv, Stages
  <2>2. UNCHANGED <<limiter, clock>>
    BY <1>8 DEF Unavailable
  <2>3. QED
    BY <2>1, <2>2, ElsewhereStep
<1>9. ASSUME NEW s, OpenTmp(s) \/ WriteTmp(s) PROVE LimitInv' /\ BurstInv'
  <2>1. pc' = pc /\ UNCHANGED <<limiter, clock>>
    BY <1>9 DEF OpenTmp, WriteTmp
  <2>2. pc' \in [Requests -> Stages] /\ \A r \in Requests : pc'[r] = "limit" => pc[r] = "limit"
    BY <2>1 DEF LimitInv, Stages
  <2>3. QED
    BY <2>1, <2>2, ElsewhereStep
<1>10. ASSUME NEW s, ReplaceProfile(s) PROVE LimitInv' /\ BurstInv'
  <2>1. clock' = clock
    BY <1>10 DEF ReplaceProfile
  <2>2. CASE s \in Requests
    <3>1. /\ pc' \in [Requests -> Stages]
          /\ \A r \in Requests : pc'[r] = "limit" => pc[r] = "limit"
      BY <1>10, <2>2 DEF ReplaceProfile, Answer, Goto, LimitInv, Stages
    <3>2. UNCHANGED <<limiter, clock>>
      BY <1>10, <2>1, <2>2 DEF ReplaceProfile
    <3>3. QED
      BY <3>1, <3>2, ElsewhereStep
  <2>3. CASE s \notin Requests
    BY <1>10, <2>1, <2>3, EndStep DEF ReplaceProfile
  <2>4. QED
    BY <2>2, <2>3
<1>11. CASE UNCHANGED vars
  <2>1. pc' = pc /\ UNCHANGED <<limiter, clock>>
    BY <1>11 DEF vars
  <2>2. pc' \in [Requests -> Stages] /\ \A r \in Requests : pc'[r] = "limit" => pc[r] = "limit"
    BY <2>1 DEF LimitInv, Stages
  <2>3. QED
    BY <2>1, <2>2, ElsewhereStep
<1>12. QED
  BY <1>1, <1>2, <1>3, <1>4, <1>5, <1>6, <1>7, <1>8, <1>9, <1>10, <1>11
     DEF Next, Handle, Save

LEMMA LimitAlways == Spec => [](LimitInv /\ BurstInv)
<1>1. Init => LimitInv /\ BurstInv
  BY LimitInit
<1>2. LimitInv /\ BurstInv /\ [Next]_vars => (LimitInv /\ BurstInv)'
  BY LimitStep
<1>3. QED
  BY <1>1, <1>2, PTL DEF Spec

LEMMA WithinIsSince ==
  ASSUME NEW c, NEW ticks
  PROVE  Within(c, ticks) = Since(passed[c], clock, ticks)
BY DEF Within, Since

\* In a window, less the wait for the lock, no client gets more than the rate
\* through, nor more than the burst in its second, for any traffic, any number
\* of threads and any order in which they get the lock.
THEOREM Limits == Spec => []LimitsHold
<1>1. LimitInv /\ BurstInv => LimitsHold
  <2> SUFFICES ASSUME LimitInv, BurstInv, NEW c \in Clients
               PROVE  /\ Cardinality(Within(c, Window - MaxStale)) <= Rate
                      /\ Cardinality(Within(c, Span - MaxStale)) <= Burst
    BY DEF LimitsHold
  <2>1. Cardinality(Since(passed[c], clock, Window - MaxStale)) <= Rate
    BY RateBound DEF LimitInv
  <2>2. Cardinality(Since(passed[c], clock, Span - MaxStale)) <= Burst
    BY DEF BurstInv
  <2>3. QED
    BY <2>1, <2>2, WithinIsSince
<1>2. QED
  BY <1>1, LimitAlways, PTL

\* Every request has an answer, or none.
Replies == {"refused", "limited", "upstream", "unavailable"}
ReplyInv == reply \in [Requests -> {None} \union Replies]

LEMMA ReplyStep ==
  ASSUME ReplyInv, [Next]_vars
  PROVE  ReplyInv'
<1>1. reply' = reply \/ \E s \in Requests, what \in Replies : Answer(s, what)
  BY DEF Next, vars, Tick, Stop, Crash, Restart, Arrive, Handle, Allow, Forward, Unavailable,
         Save, OpenTmp, WriteTmp, ReplaceProfile, Replies
<1>2. QED
  BY <1>1 DEF ReplyInv, Answer

LEMMA ReplyAlways == Spec => []ReplyInv
<1>1. ReplyInv /\ [Next]_vars => ReplyInv'
  BY ReplyStep
<1>2. Init => ReplyInv
  BY DEF Init, ReplyInv
<1>3. QED
  BY <1>1, <1>2, PTL DEF Spec

\* Only the limiter answers that a client is limited, and it answers so by its
\* judgement of the queue.
LEMMA OnlyLimiter ==
  ASSUME LimitInv, ReplyInv, Next, NEW r \in Requests, reply'[r] = "limited", reply[r] = None
  PROVE  /\ Allow(r)
         /\ LET q == Pruned(buckets[traffic[r].client], now[r])
            IN Full(q) \/ Cardinality(Recent(q, now[r])) >= Burst
<1>1. None # "limited"
  BY ShieldAssumption
<1>2. reply' # reply
  BY <1>1
<1>3. \A s \in Requests : \A what : Answer(s, what) /\ what # "limited" => reply'[r] # "limited"
  BY <1>1 DEF Answer, ReplyInv
<1>4. \A s \in Requests : ~Arrive(s) /\ ~Forward(s) /\ ~Unavailable(s)
  BY <1>2, <1>3 DEF Arrive, Forward, Unavailable
<1>5. ~Tick /\ ~Stop /\ ~Crash /\ ~Restart /\ \A s : ~OpenTmp(s) /\ ~WriteTmp(s)
  BY <1>2 DEF Tick, Stop, Crash, Restart, OpenTmp, WriteTmp
<1>6. \A s : ~ReplaceProfile(s)
  BY <1>2, <1>3 DEF ReplaceProfile
<1>7. PICK s \in Requests : Allow(s)
  BY <1>4, <1>5, <1>6 DEF Next, Handle, Save
<1>8. s = r
  BY <1>1, <1>7 DEF Allow, Answer, ReplyInv
<1> DEFINE q == Pruned(buckets[traffic[r].client], now[r])
<1>9. Full(q) \/ Cardinality(Recent(q, now[r])) >= Burst
  <2> SUFFICES ASSUME ~(Full(q) \/ Cardinality(Recent(q, now[r])) >= Burst) PROVE FALSE
    OBVIOUS
  <2>1. Answer(r, "refused") \/ reply' = reply
    BY <1>7, <1>8 DEF Allow
  <2>2. QED
    BY <1>2, <1>3, <2>1
<1>10. QED
  BY <1>7, <1>8, <1>9

\* A request is limited only if as many of its client as a limit allows were
\* let through shortly before, whatever order the threads took the lock in.
THEOREM CausedLimits == Spec => LimitedForCause
<1> DEFINE A == \A r \in Requests :
                  reply'[r] = "limited" /\ reply[r] = None =>
                    LET c == traffic[r].client
                    IN \/ Cardinality(Within(c, Window + MaxStale)) >= Rate
                       \/ Cardinality(Within(c, Span + MaxStale)) >= Burst
<1>1. ASSUME LimitInv, ReplyInv, [Next]_vars PROVE [A]_vars
  <2> SUFFICES ASSUME Next, NEW r \in Requests, reply'[r] = "limited", reply[r] = None
               PROVE  LET c == traffic[r].client
                      IN \/ Cardinality(Within(c, Window + MaxStale)) >= Rate
                         \/ Cardinality(Within(c, Span + MaxStale)) >= Burst
    BY <1>1
  <2> DEFINE c == traffic[r].client
             q == Pruned(buckets[c], now[r])
  <2>1. pc[r] = "limit" /\ (Full(q) \/ Cardinality(Recent(q, now[r])) >= Burst)
    BY <1>1, OnlyLimiter DEF Allow
  <2>2. /\ now[r] \in Nat /\ now[r] <= clock /\ clock <= now[r] + MaxStale /\ clock \in Nat
        /\ Follows(q, passed[c], clock) /\ (q # << >> => now[r] - q[1] <= Window)
    BY <1>1, <2>1, Judged
  <2> HIDE DEF q
  <2>3. CASE Full(q)
    BY <2>2, <2>3, FullForCause, WithinIsSince
  <2>4. CASE Cardinality(Recent(q, now[r])) >= Burst
    BY <2>2, <2>4, RecentForCause, WithinIsSince
  <2>5. QED
    BY <2>1, <2>3, <2>4
<1>2. LimitedForCause <=> [][A]_vars
  BY DEF LimitedForCause
<1>3. QED
  BY <1>1, <1>2, LimitAlways, ReplyAlways, PTL DEF Spec

-----------------------------------------------------------------------------
(* The profile on the disk.  A file is named after the thread that made    *)
(* it, and no thread makes two: what Fresh threads will make is not there  *)
(* yet, so the two names never stand for one file.                         *)

Fresh(s) ==
  IF s \in Requests THEN pc[s] \in {"idle", "limit", "forward"} \/ saver[s] = "open"
  ELSE -s > starts \/ (-s = starts /\ (phase = "serving" \/ saver[s] = "open"))

\* What a file can hold.
Texts == (SUBSET Routes) \cup {Torn}

FileInv ==
  /\ scenario \in DOMAIN Scenarios
  /\ phase \in {"serving", "closing", "stopped"} /\ starts \in 0..MaxRestarts
  /\ pc \in [Requests -> Stages]
  /\ \A r \in Requests : pc[r] \in {"limit", "forward"} => r \in DOMAIN traffic
  /\ phase = "stopped" => \A r \in Requests : pc[r] \in {"idle", "done", "killed"}
  /\ saver \in [Savers -> {"idle", "open", "write", "replace"}]
  /\ \A s \in Savers : saver[s] # "idle" =>
       IF s \in Requests THEN pc[s] = "saving" ELSE s = -starts /\ phase = "closing"
  /\ handle \in [Savers -> Savers \cup {None}]
  /\ \A s \in Saving : handle[s] \in Savers
  /\ {tmp, profile} \subseteq Savers \cup {None}
  /\ content \in [Savers -> Texts]
  /\ learned \in SUBSET Routes
  /\ \A s \in Savers : Fresh(s) => s \notin {tmp, profile}
  /\ tmp # None => tmp # profile

\* Without an overlap the one saver under way has the file under the temporary
\* name, and what it writes there holds all that was promised.
Orderly ==
  /\ \A s, u \in Saving : s = u
  /\ \A s \in Saving : tmp = handle[s]
  /\ \A s \in Savers : saver[s] = "write" => content[handle[s]] = Torn
  /\ \A s \in Savers : saver[s] = "replace" =>
       promised \subseteq content[handle[s]] /\ content[handle[s]] \in SUBSET learned
  /\ phase # "stopped" => promised \subseteq learned
  /\ promised \subseteq Loaded

KeptInv == ~overlapped => Orderly

LEMMA TextsHold == Torn \in Texts /\ \A S \in SUBSET Routes : S \in Texts
<1>1. Torn \in Texts
  <2>1. Torn \in {Torn}
    OBVIOUS
  <2>2. QED
    BY <2>1, Zenon DEF Texts
<1>2. ASSUME NEW S \in SUBSET Routes PROVE S \in Texts
  BY Zenon DEF Texts
<1>3. QED
  BY <1>1, <1>2

LEMMA SaverNames ==
  /\ None \notin Savers
  /\ \A k \in 0..MaxRestarts : -k \in Savers /\ -k \notin Requests
  /\ \A s \in Savers : s \notin Requests => s \in Int /\ -s \in 0..MaxRestarts
  /\ Requests \subseteq Savers /\ Savers \subseteq Int
<1>1. MaxRequests \in Nat /\ MaxRestarts \in Nat /\ None \notin (-MaxRestarts)..MaxRequests
  BY ShieldAssumption
<1>2. Savers \subseteq (-MaxRestarts)..MaxRequests
  BY <1>1 DEF Savers, Servers, Requests
<1>3. QED
  BY <1>1, <1>2 DEF Savers, Servers, Requests

LEMMA RouteOfTraffic ==
  ASSUME scenario \in DOMAIN Scenarios, NEW r \in DOMAIN traffic
  PROVE  traffic[r].path \in Routes
BY DEF traffic, Setting, Routes

LEMMA FileInit ==
  ASSUME Init
  PROVE  FileInv /\ KeptInv
<1>1. Saving = {} /\ \A s \in Savers : saver[s] = "idle"
  BY DEF Init, Saving
<1>2. 0 \in 0..MaxRestarts
  BY ShieldAssumption
<1>3. \A s \in Savers : s # None
  BY SaverNames
<1>4. FileInv
  <2>1. /\ pc \in [Requests -> Stages] /\ \A r \in Requests : pc[r] = "idle"
        /\ saver \in [Savers -> {"idle", "open", "write", "replace"}]
        /\ handle \in [Savers -> Savers \cup {None}]
        /\ content \in [Savers -> Texts]
    BY TextsHold DEF Init, Stages
  <2>2. tmp = None /\ profile = None /\ learned = {}
    BY DEF Init
  <2>3. scenario \in DOMAIN Scenarios /\ phase = "serving" /\ starts = 0
    BY DEF Init
  <2>4. \A s \in Savers : s \notin {tmp, profile}
    BY <1>3, <2>2
  <2>5. QED
    BY <1>1, <1>2, <2>1, <2>2, <2>3, <2>4 DEF FileInv
<1>5. KeptInv
  BY <1>1 DEF Init, KeptInv, Orderly
<1>6. QED
  BY <1>4, <1>5

\* Steps of handlers that do not save.
LEMMA DiskElsewhere ==
  ASSUME FileInv, KeptInv, traffic' = traffic,
         UNCHANGED <<scenario, phase, starts, learned, disk>>,
         pc' \in [Requests -> Stages],
         \A r \in Requests : pc'[r] # pc[r] =>
           /\ pc[r] \in {"idle", "limit", "forward"} /\ phase # "stopped"
           /\ pc'[r] \in {"limit", "forward", "done"} /\ r \in DOMAIN traffic
  PROVE  FileInv' /\ KeptInv'
<1>1. /\ scenario' = scenario /\ phase' = phase /\ starts' = starts /\ learned' = learned
      /\ saver' = saver /\ handle' = handle /\ tmp' = tmp /\ profile' = profile
      /\ content' = content /\ promised' = promised /\ overlapped' = overlapped
  BY DEF disk
<1>2. Saving' = Saving /\ Loaded' = Loaded
  BY <1>1 DEF Saving, Loaded
<1>3. KeptInv'
  BY <1>1, <1>2 DEF KeptInv, Orderly
<1>4. /\ \A r \in Requests : pc'[r] \in {"limit", "forward"} => r \in DOMAIN traffic
      /\ phase = "stopped" => \A r \in Requests : pc'[r] \in {"idle", "done", "killed"}
  BY DEF FileInv
<1>5. \A s \in Savers : saver[s] # "idle" =>
        IF s \in Requests THEN pc'[s] = "saving" ELSE s = -starts /\ phase = "closing"
  BY DEF FileInv
<1>6. \A s \in Savers : Fresh(s)' => s \notin {tmp, profile}
  <2>1. \A s \in Savers : Fresh(s)' => Fresh(s)
    BY <1>1 DEF Fresh
  <2>2. QED
    BY <2>1 DEF FileInv
<1>7. FileInv'
  BY <1>1, <1>2, <1>4, <1>5, <1>6 DEF FileInv
<1>8. QED
  BY <1>3, <1>7

LEMMA DiskForward ==
  ASSUME FileInv, KeptInv, traffic' = traffic, NEW r \in Requests, Forward(r)
  PROVE  FileInv' /\ KeptInv'
<1>1. /\ pc[r] = "forward" /\ r \in DOMAIN traffic /\ phase # "stopped"
  BY DEF Forward, FileInv
<1>2. /\ scenario' = scenario /\ phase' = phase /\ starts' = starts
      /\ handle' = handle /\ tmp' = tmp /\ profile' = profile
      /\ content' = content /\ promised' = promised /\ overlapped' = overlapped
      /\ learned' = learned \union {traffic[r].path}
      /\ \/ saver' = [saver EXCEPT ![r] = "open"] /\ pc' = [pc EXCEPT ![r] = "saving"]
         \/ saver' = saver /\ pc' = [pc EXCEPT ![r] = "done"]
  BY DEF Forward, Goto, Answer
<1>3. saver[r] = "idle" /\ r \in Savers /\ saver \in [Savers -> {"idle", "open", "write", "replace"}]
  BY <1>1, SaverNames DEF FileInv
<1>4. Saving' = Saving /\ Loaded' = Loaded
  BY <1>2, <1>3 DEF Saving, Loaded
<1>5. learned' \in SUBSET Routes
  BY <1>1, <1>2, RouteOfTraffic DEF FileInv
<1>6. KeptInv'
  <2>1. \A s \in Savers : saver'[s] \in {"write", "replace"} => saver'[s] = saver[s]
    BY <1>2, <1>3
  <2>2. learned \subseteq learned'
    BY <1>2
  <2>3. QED
    BY <1>2, <1>4, <2>1, <2>2 DEF KeptInv, Orderly
<1>7. \A s \in Savers : Fresh(s)' => s \notin {tmp, profile}
  <2>1. \A s \in Savers : Fresh(s)' => Fresh(s)
    <3> SUFFICES ASSUME NEW s \in Savers, Fresh(s)' PROVE Fresh(s)
      OBVIOUS
    <3>1. CASE s = r
      BY <1>1, <3>1 DEF Fresh
    <3>2. CASE s # r
      <4>1. saver'[s] = saver[s] /\ (s \in Requests => pc'[s] = pc[s])
        BY <1>2, <1>3, <3>2 DEF FileInv
      <4>2. QED
        BY <1>2, <4>1 DEF Fresh
    <3>3. QED
      BY <3>1, <3>2
  <2>2. QED
    BY <2>1 DEF FileInv
<1>8. /\ pc' \in [Requests -> Stages]
      /\ \A s \in Requests : pc'[s] \in {"limit", "forward"} => s \in DOMAIN traffic
      /\ saver' \in [Savers -> {"idle", "open", "write", "replace"}]
  BY <1>2, <1>3 DEF FileInv, Stages
<1>9. \A s \in Savers : saver'[s] # "idle" =>
        IF s \in Requests THEN pc'[s] = "saving" ELSE s = -starts /\ phase = "closing"
  BY <1>1, <1>2, <1>3 DEF FileInv
<1>10. FileInv'
  BY <1>1, <1>2, <1>4, <1>5, <1>7, <1>8, <1>9 DEF FileInv
<1>11. QED
  BY <1>6, <1>10

\* The file opened is under the temporary name now, and holds nothing yet.
LEMMA DiskOpen ==
  ASSUME FileInv, KeptInv, traffic' = traffic, NEW s \in Savers, OpenTmp(s)
  PROVE  FileInv' /\ KeptInv'
<1> DEFINE file == IF tmp = None THEN s ELSE tmp
<1>1. /\ saver[s] = "open" /\ s # None /\ None \notin Savers
  BY SaverNames DEF OpenTmp
<1>2. /\ tmp' = file /\ handle' = [handle EXCEPT ![s] = file]
      /\ content' = [content EXCEPT ![file] = Torn]
      /\ saver' = [saver EXCEPT ![s] = "write"]
      /\ overlapped' = (overlapped \/ Saving # {})
      /\ scenario' = scenario /\ phase' = phase /\ starts' = starts /\ pc' = pc
      /\ learned' = learned /\ profile' = profile /\ promised' = promised
  BY DEF OpenTmp
<1>3. Fresh(s)
  BY <1>1 DEF Fresh, FileInv
<1>4. file \in Savers /\ file # profile /\ file # None
  BY <1>1, <1>3 DEF FileInv
<1> HIDE DEF file
<1>5. saver \in [Savers -> {"idle", "open", "write", "replace"}]
      /\ handle \in [Savers -> Savers \cup {None}]
      /\ content \in [Savers -> Texts]
  BY DEF FileInv
<1>6. /\ saver' \in [Savers -> {"idle", "open", "write", "replace"}]
      /\ handle' \in [Savers -> Savers \cup {None}]
      /\ content' \in [Savers -> Texts]
      /\ {tmp', profile'} \subseteq Savers \cup {None}
  BY <1>2, <1>4, <1>5, TextsHold DEF FileInv
<1>7. Saving' = Saving \cup {s}
  BY <1>1, <1>2, <1>5 DEF Saving
<1>8. \A u \in Saving' : handle'[u] \in Savers
  BY <1>2, <1>4, <1>5, <1>7 DEF FileInv, Saving
<1>9. \A u \in Savers : saver'[u] # "idle" =>
        IF u \in Requests THEN pc'[u] = "saving" ELSE u = -starts' /\ phase' = "closing"
  BY <1>1, <1>2, <1>5 DEF FileInv
<1>10. \A u \in Savers : Fresh(u)' => u \notin {tmp', profile'}
  <2> SUFFICES ASSUME NEW u \in Savers, Fresh(u)' PROVE u \notin {tmp', profile'}
    OBVIOUS
  <2>1. u # s
    <3>1. saver'[s] = "write"
      BY <1>2, <1>5
    <3>2. IF s \in Requests THEN pc'[s] = "saving" ELSE s = -starts /\ phase = "closing"
      BY <1>1, <1>2 DEF FileInv
    <3>3. ~Fresh(s)'
      <4>1. starts \in Int /\ (s \notin Requests => -s = starts)
        BY <3>2, <1>2, ShieldAssumption DEF FileInv
      <4>2. QED
        BY <3>1, <3>2, <4>1, <1>2 DEF Fresh
    <3>4. QED
      BY <3>3
  <2>2. saver'[u] = saver[u]
    BY <1>2, <1>5, <2>1
  <2>3. Fresh(u)
    BY <1>2, <2>2 DEF Fresh
  <2>4. u \notin {tmp, profile}
    BY <2>3 DEF FileInv
  <2>5. u # file
    BY <2>1, <2>4 DEF file
  <2>6. QED
    BY <1>2, <2>4, <2>5
<1>11. FileInv'
  BY <1>2, <1>4, <1>6, <1>8, <1>9, <1>10 DEF FileInv
<1>12. Loaded' = Loaded
  BY <1>2, <1>4, <1>5 DEF Loaded, FileInv
<1>13. KeptInv'
  <2> SUFFICES ASSUME ~overlapped' PROVE Orderly'
    BY DEF KeptInv, Orderly
  <2>1. ~overlapped /\ Saving = {}
    BY <1>2
  <2>2. Saving' = {s} /\ \A u \in Savers : u # s => saver'[u] \notin {"write", "replace"}
    BY <1>2, <1>5, <1>7, <2>1 DEF Saving
  <2>3. saver'[s] = "write" /\ handle'[s] = file /\ content'[file] = Torn
    BY <1>2, <1>4, <1>5
  <2>4. QED
    BY <1>2, <1>12, <2>1, <2>2, <2>3 DEF KeptInv, Orderly
<1>14. QED
  BY <1>11, <1>13

LEMMA DiskWrite ==
  ASSUME FileInv, KeptInv, traffic' = traffic, NEW s \in Savers, WriteTmp(s)
  PROVE  FileInv' /\ KeptInv'
<1>1. saver[s] = "write" /\ s \in Saving
  BY DEF WriteTmp, Saving
<1>2. /\ saver' = [saver EXCEPT ![s] = "replace"]
      /\ \/ content' = [content EXCEPT ![handle[s]] = learned]
         \/ /\ content[handle[s]] # Torn \/ \E o \in Saving \ {s} : handle[o] = handle[s]
            /\ \E mix \in {Torn, content[handle[s]]} :
                 content' = [content EXCEPT ![handle[s]] = mix]
      /\ scenario' = scenario /\ phase' = phase /\ starts' = starts /\ pc' = pc
      /\ learned' = learned /\ profile' = profile /\ promised' = promised
      /\ handle' = handle /\ tmp' = tmp /\ overlapped' = overlapped
  BY DEF WriteTmp
<1>3. /\ saver \in [Savers -> {"idle", "open", "write", "replace"}]
      /\ content \in [Savers -> Texts]
      /\ handle[s] \in Savers /\ learned \in SUBSET Routes
  BY <1>1 DEF FileInv
<1>4. /\ saver' \in [Savers -> {"idle", "open", "write", "replace"}]
      /\ content' \in [Savers -> Texts]
      /\ Saving' = Saving
  BY <1>1, <1>2, <1>3, TextsHold DEF Saving
<1>5. \A u \in Savers : Fresh(u)' => Fresh(u)
  BY <1>2, <1>3 DEF Fresh
<1>6. \A u \in Savers : saver'[u] # "idle" =>
        IF u \in Requests THEN pc'[u] = "saving" ELSE u = -starts' /\ phase' = "closing"
  BY <1>1, <1>2, <1>3 DEF FileInv
<1>7. FileInv'
  BY <1>2, <1>4, <1>5, <1>6 DEF FileInv
<1>8. KeptInv'
  <2> SUFFICES ASSUME ~overlapped' PROVE Orderly'
    BY DEF KeptInv, Orderly
  <2>1. ~overlapped /\ \A u \in Saving : u = s
    BY <1>1, <1>2 DEF KeptInv, Orderly
  <2>2. tmp = handle[s] /\ content[handle[s]] = Torn
    BY <1>1, <1>2 DEF KeptInv, Orderly
  <2>3. content' = [content EXCEPT ![handle[s]] = learned]
    BY <1>2, <2>1, <2>2
  <2>4. phase # "stopped"
    <3>1. IF s \in Requests THEN pc[s] = "saving" ELSE phase = "closing"
      BY <1>1 DEF FileInv
    <3>2. QED
      BY <3>1 DEF FileInv
  <2>5. promised \subseteq learned
    BY <2>1, <2>4 DEF KeptInv, Orderly
  <2>6. /\ saver'[s] = "replace" /\ content'[handle[s]] = learned
        /\ \A u \in Savers : u # s => saver'[u] \notin {"write", "replace"}
    BY <1>2, <1>3, <2>1, <2>3 DEF Saving
  <2>7. Loaded' = Loaded
    <3>1. tmp # profile
      BY <1>3, <2>2, SaverNames DEF FileInv
    <3>2. \A f \in Savers : f # handle[s] => content'[f] = content[f]
      BY <1>3, <2>3
    <3>3. QED
      BY <1>2, <2>2, <3>1, <3>2 DEF Loaded, FileInv
  <2>8. QED
    BY <1>2, <1>4, <2>1, <2>2, <2>5, <2>6, <2>7 DEF KeptInv, Orderly
<1>9. QED
  BY <1>7, <1>8

\* What moving the temporary file into place leaves: without an overlap, the
\* text of the one saver is the profile.
LEMMA DiskReplace ==
  ASSUME FileInv, KeptInv, NEW s \in Savers, saver[s] = "replace", Replace
  PROVE  /\ {tmp', profile'} \subseteq Savers \cup {None}
         /\ content' \in [Savers -> Texts]
         /\ \A u \in Savers : u \notin {tmp, profile} => u \notin {tmp', profile'}
         /\ tmp' # None => tmp' # profile'
         /\ ~overlapped => promised' \subseteq learned /\ promised' \subseteq Loaded'
<1>1. s \in Saving /\ None \notin Savers
  BY SaverNames DEF Saving
<1>2. CASE tmp = None
  <2>1. tmp' = tmp /\ profile' = profile /\ content' = content /\ promised' = promised
    BY <1>2 DEF Replace
  <2>2. overlapped
    <3>1. ~overlapped => tmp = handle[s]
      BY <1>1 DEF KeptInv, Orderly
    <3>2. handle[s] \in Savers
      BY <1>1 DEF FileInv
    <3>3. QED
      BY <1>1, <1>2, <3>1, <3>2
  <2>3. QED
    BY <2>1, <2>2 DEF FileInv
<1>3. CASE tmp # None
  <2>1. /\ tmp \in Savers /\ profile \in Savers \cup {None} /\ tmp # profile
        /\ content \in [Savers -> Texts] /\ learned \in SUBSET Routes
    BY <1>3 DEF FileInv
  <2>2. /\ profile' = tmp /\ tmp' = None
        /\ content' = IF profile = None THEN content ELSE [content EXCEPT ![profile] = Torn]
        /\ promised' = IF content[tmp] = Torn THEN promised ELSE promised \union content[tmp]
    BY <1>3 DEF Replace
  <2>3. content' \in [Savers -> Texts] /\ content'[tmp] = content[tmp]
    BY <2>1, <2>2, TextsHold
  <2>4. ~overlapped => promised' \subseteq learned /\ promised' \subseteq Loaded'
    <3> SUFFICES ASSUME ~overlapped PROVE promised' \subseteq learned /\ promised' \subseteq Loaded'
      OBVIOUS
    <3>1. tmp = handle[s] /\ promised \subseteq content[tmp] /\ content[tmp] \in SUBSET learned
      BY <1>1 DEF KeptInv, Orderly
    <3>2. content[tmp] # Torn
      <4>1. content[tmp] \in SUBSET Routes
        BY <2>1, <3>1
      <4>2. QED
        BY <4>1, ShieldAssumption
    <3>3. Loaded' = content[tmp]
      BY <1>3, <2>2, <2>3, <3>2 DEF Loaded
    <3>4. promised' = content[tmp]
      BY <2>2, <3>1, <3>2
    <3>5. QED
      BY <3>1, <3>3, <3>4
  <2>5. QED
    BY <1>1, <2>1, <2>2, <2>3, <2>4
<1>4. QED
  BY <1>2, <1>3

LEMMA DiskHandlerSaved ==
  ASSUME FileInv, KeptInv, traffic' = traffic, NEW s \in Requests, ReplaceProfile(s)
  PROVE  FileInv' /\ KeptInv'
<1>1. /\ saver[s] = "replace" /\ Replace
      /\ pc' = [pc EXCEPT ![s] = "done"]
      /\ saver' = [saver EXCEPT ![s] = "idle"]
      /\ handle' = [handle EXCEPT ![s] = None]
      /\ phase' = phase /\ learned' = learned
      /\ scenario' = scenario /\ starts' = starts /\ overlapped' = overlapped
  BY DEF ReplaceProfile, Ready, Answer, Goto
<1>2. s \in Savers /\ None \notin Savers
  BY SaverNames
<1>3. /\ {tmp', profile'} \subseteq Savers \cup {None}
      /\ content' \in [Savers -> Texts]
      /\ \A u \in Savers : u \notin {tmp, profile} => u \notin {tmp', profile'}
      /\ tmp' # None => tmp' # profile'
      /\ ~overlapped => promised' \subseteq learned /\ promised' \subseteq Loaded'
  BY <1>1, <1>2, DiskReplace
<1>4. /\ saver' \in [Savers -> {"idle", "open", "write", "replace"}]
      /\ handle' \in [Savers -> Savers \cup {None}]
      /\ pc' \in [Requests -> Stages]
      /\ Saving' = Saving \ {s} /\ \A u \in Savers : u # s => saver'[u] = saver[u] /\ handle'[u] = handle[u]
      /\ \A r \in Requests : r # s => pc'[r] = pc[r]
      /\ pc'[s] = "done" /\ saver'[s] = "idle"
  BY <1>1, <1>2 DEF FileInv, Saving, Stages
<1>5. \A u \in Savers : saver'[u] # "idle" =>
        IF u \in Requests THEN pc'[u] = "saving" ELSE u = -starts' /\ phase' = "closing"
  BY <1>1, <1>4 DEF FileInv
<1>6. \A u \in Savers : Fresh(u)' => u \notin {tmp', profile'}
  <2>1. \A u \in Savers : Fresh(u)' => Fresh(u)
    BY <1>1, <1>4 DEF Fresh
  <2>2. QED
    BY <1>3, <2>1 DEF FileInv
<1>7. /\ \A r \in Requests : pc'[r] \in {"limit", "forward"} => r \in DOMAIN traffic'
      /\ phase' = "stopped" => \A r \in Requests : pc'[r] \in {"idle", "done", "killed"}
  BY <1>1, <1>4 DEF FileInv
<1>8. \A u \in Saving' : handle'[u] \in Savers
  BY <1>4 DEF FileInv, Saving
<1>9. FileInv'
  BY <1>1, <1>3, <1>4, <1>5, <1>6, <1>7, <1>8 DEF FileInv
<1>10. KeptInv'
  <2> SUFFICES ASSUME ~overlapped' PROVE Orderly'
    BY DEF KeptInv
  <2>1. ~overlapped /\ \A u \in Saving : u = s
    BY <1>1, <1>2 DEF KeptInv, Orderly, Saving
  <2>2. Saving' = {} /\ \A u \in Savers : saver'[u] \notin {"write", "replace"}
    BY <1>4, <2>1 DEF Saving
  <2>3. QED
    BY <1>1, <1>3, <2>1, <2>2 DEF Orderly
<1>11. QED
  BY <1>9, <1>10

\* The end of the process.
LEMMA DiskEnd ==
  ASSUME FileInv, traffic' = traffic, End, UNCHANGED <<scenario, starts>>,
         {tmp', profile'} \subseteq Savers \cup {None}, content' \in [Savers -> Texts],
         \A u \in Savers : u \notin {tmp, profile} => u \notin {tmp', profile'},
         tmp' # None => tmp' # profile',
         ~overlapped' => promised' \subseteq Loaded'
  PROVE  FileInv' /\ KeptInv'
<1>1. /\ phase' = "stopped" /\ learned' = {}
      /\ saver' = [u \in Savers |-> "idle"] /\ handle' = [u \in Savers |-> None]
      /\ \A r \in Requests : pc'[r] \in {"idle", "done", "killed"} /\ (pc'[r] = "idle" => pc[r] = "idle")
      /\ pc' \in [Requests -> Stages]
  BY DEF End, FileInv, Stages
<1>2. Saving' = {}
  BY <1>1 DEF Saving
<1>3. \A u \in Savers : Fresh(u)' => Fresh(u)
  <2> SUFFICES ASSUME NEW u \in Savers, Fresh(u)' PROVE Fresh(u)
    OBVIOUS
  <2>1. CASE u \in Requests
    BY <1>1, <2>1 DEF Fresh
  <2>2. CASE u \notin Requests
    BY <1>1, <2>2 DEF Fresh
  <2>3. QED
    BY <2>1, <2>2
<1>4. /\ saver' \in [Savers -> {"idle", "open", "write", "replace"}]
      /\ handle' \in [Savers -> Savers \cup {None}]
      /\ \A u \in Savers : saver'[u] = "idle"
  BY <1>1
<1>5. \A u \in Savers : Fresh(u)' => u \notin {tmp', profile'}
  BY <1>3 DEF FileInv
<1>6. FileInv'
  BY <1>1, <1>2, <1>4, <1>5 DEF FileInv
<1>7. KeptInv'
  BY <1>1, <1>2, <1>4 DEF KeptInv, Orderly
<1>8. QED
  BY <1>6, <1>7

LEMMA DiskStep ==
  ASSUME FileInv, KeptInv, [Next]_vars
  PROVE  FileInv' /\ KeptInv'
<1> USE SettingStays
<1>1. ASSUME Tick \/ UNCHANGED vars PROVE FileInv' /\ KeptInv'
  <2>1. pc' = pc /\ UNCHANGED <<scenario, phase, starts, learned, disk>>
    BY <1>1 DEF Tick, vars
  <2>2. pc' \in [Requests -> Stages]
    BY <2>1 DEF FileInv
  <2>3. QED
    BY <2>1, <2>2, DiskElsewhere
<1>2. ASSUME NEW r \in Requests, Arrive(r) \/ Allow(r) \/ Unavailable(r)
      PROVE  FileInv' /\ KeptInv'
  <2>1. UNCHANGED <<scenario, phase, starts, learned, disk>>
    BY <1>2 DEF Arrive, Allow, Unavailable
  <2>2. /\ pc[r] \in {"idle", "limit", "forward"} /\ r \in DOMAIN traffic
        /\ pc[r] = "idle" => phase = "serving"
    BY <1>2 DEF Arrive, Allow, Unavailable, FileInv
  <2>3. phase # "stopped"
    BY <2>2 DEF FileInv
  <2>4. \E w \in {"limit", "forward", "done"} : pc' = [pc EXCEPT ![r] = w]
    BY <1>2 DEF Arrive, Allow, Unavailable, Answer, Goto
  <2>5. /\ pc' \in [Requests -> Stages]
        /\ \A u \in Requests : pc'[u] # pc[u] => u = r /\ pc'[u] \in {"limit", "forward", "done"}
    BY <2>4 DEF FileInv, Stages
  <2>6. QED
    BY <2>1, <2>2, <2>3, <2>5, DiskElsewhere
<1>3. ASSUME NEW r \in Requests, Forward(r) PROVE FileInv' /\ KeptInv'
  BY <1>3, DiskForward
<1>4. ASSUME NEW s \in Savers, OpenTmp(s) PROVE FileInv' /\ KeptInv'
  BY <1>4, DiskOpen
<1>5. ASSUME NEW s \in Savers, WriteTmp(s) PROVE FileInv' /\ KeptInv'
  BY <1>5, DiskWrite
<1>6. ASSUME NEW s \in Savers, ReplaceProfile(s) PROVE FileInv' /\ KeptInv'
  <2>1. CASE s \in Requests
    BY <1>6, <2>1, DiskHandlerSaved
  <2>2. CASE s \notin Requests
    <3>1. saver[s] = "replace" /\ Replace /\ End /\ UNCHANGED <<scenario, starts>> /\ overlapped' = overlapped
      BY <1>6, <2>2 DEF ReplaceProfile, Ready
    <3>2. QED
      BY <3>1, DiskReplace, DiskEnd
  <2>3. QED
    BY <2>1, <2>2
<1>7. CASE Crash
  <2>1. /\ End /\ UNCHANGED <<scenario, starts>> /\ tmp' = tmp /\ profile' = profile
        /\ content' = content /\ promised' = promised /\ overlapped' = overlapped
    BY <1>7 DEF Crash
  <2>2. ~overlapped' => promised' \subseteq Loaded'
    BY <2>1 DEF Loaded, KeptInv, Orderly
  <2>3. QED
    BY <2>1, <2>2, DiskEnd DEF FileInv
<1>8. CASE Stop
  <2>1. /\ phase = "serving" /\ phase' = "closing" /\ saver' = [saver EXCEPT ![-starts] = "open"]
        /\ scenario' = scenario /\ starts' = starts /\ pc' = pc /\ learned' = learned
        /\ handle' = handle /\ tmp' = tmp /\ profile' = profile /\ content' = content
        /\ promised' = promised /\ overlapped' = overlapped
    BY <1>8 DEF Stop
  <2>2. /\ starts \in 0..MaxRestarts /\ -starts \in Savers /\ -starts \notin Requests
        /\ saver \in [Savers -> {"idle", "open", "write", "replace"}]
    BY SaverNames DEF FileInv
  <2>3. saver[-starts] = "idle"
    BY <2>1, <2>2 DEF FileInv
  <2>4. /\ saver' \in [Savers -> {"idle", "open", "write", "replace"}]
        /\ Saving' = Saving /\ Loaded' = Loaded
        /\ \A u \in Savers : u # -starts => saver'[u] = saver[u]
        /\ \A u \in Savers : saver'[u] \in {"write", "replace"} => saver'[u] = saver[u]
    BY <2>1, <2>2, <2>3 DEF Saving, Loaded
  <2>5. \A u \in Savers : saver'[u] # "idle" =>
          IF u \in Requests THEN pc'[u] = "saving" ELSE u = -starts' /\ phase' = "closing"
    BY <2>1, <2>2, <2>4 DEF FileInv
  <2>6. \A u \in Savers : Fresh(u)' => u \notin {tmp', profile'}
    <3>1. \A u \in Savers : Fresh(u)' => Fresh(u)
      <4> SUFFICES ASSUME NEW u \in Savers, Fresh(u)' PROVE Fresh(u)
        OBVIOUS
      <4>1. CASE u \in Requests
        BY <2>1, <2>2, <2>4, <4>1 DEF Fresh
      <4>2. CASE u \notin Requests
        BY <2>1, <4>2 DEF Fresh
      <4>3. QED
        BY <4>1, <4>2
    <3>2. QED
      BY <2>1, <3>1 DEF FileInv
  <2>7. FileInv'
    BY <2>1, <2>4, <2>5, <2>6 DEF FileInv
  <2>8. KeptInv'
    BY <2>1, <2>4 DEF KeptInv, Orderly
  <2>9. QED
    BY <2>7, <2>8
<1>9. CASE Restart
  <2>1. /\ phase = "stopped" /\ phase' = "serving" /\ starts' = starts + 1 /\ starts < MaxRestarts
        /\ learned' = Loaded /\ scenario' = scenario /\ pc' = pc
        /\ saver' = saver /\ handle' = handle /\ tmp' = tmp /\ profile' = profile
        /\ content' = content /\ promised' = promised /\ overlapped' = overlapped
    BY <1>9 DEF Restart, disk
  <2>2. starts \in 0..MaxRestarts /\ MaxRestarts \in Nat
    BY ShieldAssumption DEF FileInv
  <2>3. starts' \in 0..MaxRestarts /\ Saving' = Saving /\ Loaded' = Loaded
    BY <2>1, <2>2 DEF Saving, Loaded
  <2>4. \A u \in Savers : saver[u] = "idle"
    <3> SUFFICES ASSUME NEW u \in Savers, saver[u] # "idle" PROVE FALSE
      OBVIOUS
    <3>1. u \in Requests /\ pc[u] = "saving"
      BY <2>1 DEF FileInv
    <3>2. QED
      BY <2>1, <3>1 DEF FileInv
  <2>5. learned' \in SUBSET Routes
    <3>1. profile \in Savers => content[profile] \in Texts
      BY DEF FileInv
    <3>2. profile \in Savers \cup {None}
      BY DEF FileInv
    <3>3. ASSUME NEW x \in Texts, x # Torn PROVE x \in SUBSET Routes
      <4>1. x \in SUBSET Routes \/ x \in {Torn}
        BY Zenon DEF Texts
      <4>2. QED
        BY <4>1, <3>3
    <3>4. QED
      BY <2>1, <3>1, <3>2, <3>3 DEF Loaded
  <2>6. \A u \in Savers : Fresh(u)' => u \notin {tmp', profile'}
    <3>1. \A u \in Savers : Fresh(u)' => Fresh(u)
      <4> SUFFICES ASSUME NEW u \in Savers, Fresh(u)' PROVE Fresh(u)
        OBVIOUS
      <4>1. CASE u \in Requests
        BY <2>1, <4>1 DEF Fresh
      <4>2. CASE u \notin Requests
        <5>1. -u \in Int
          BY <4>2, SaverNames
        <5>2. -u > starts
          BY <2>1, <2>2, <4>2, <5>1 DEF Fresh
        <5>3. QED
          BY <4>2, <5>2 DEF Fresh
      <4>3. QED
        BY <4>1, <4>2
    <3>2. QED
      BY <2>1, <3>1 DEF FileInv
  <2>7. FileInv'
    BY <2>1, <2>3, <2>4, <2>5, <2>6 DEF FileInv
  <2>8. KeptInv'
    BY <2>1, <2>3, <2>4 DEF KeptInv, Orderly
  <2>9. QED
    BY <2>7, <2>8
<1>10. \A s \in Requests : s \in Savers
  BY DEF Savers
<1>11. \A s \in Servers : s \in Savers
  BY DEF Savers
<1>12. QED
  BY <1>1, <1>2, <1>3, <1>4, <1>5, <1>6, <1>7, <1>8, <1>9, <1>10, <1>11 DEF Next, Handle, Save

LEMMA FileAlways == Spec => [](FileInv /\ KeptInv)
<1>1. Init => FileInv /\ KeptInv
  BY FileInit
<1>2. FileInv /\ KeptInv /\ [Next]_vars => (FileInv /\ KeptInv)'
  BY DiskStep
<1>3. QED
  BY <1>1, <1>2, PTL DEF Spec

\* What a completed save has written survives crashes, stops and restarts, as
\* long as no two saves are under way at once.
THEOREM KeptSaves == Spec => []SavedIsKept
<1>1. KeptInv => SavedIsKept
  BY DEF KeptInv, Orderly, SavedIsKept
<1>2. QED
  BY <1>1, FileAlways, PTL

\* The state keeps its types.
THEOREM TypeCorrect == Spec => []TypeOK
<1>1. LimitInv /\ ReplyInv /\ FileInv => TypeOK
  BY DEF LimitInv, ReplyInv, Replies, FileInv, Texts, Stages, TypeOK
<1>2. QED
  BY <1>1, LimitAlways, ReplyAlways, FileAlways, PTL
=============================================================================
