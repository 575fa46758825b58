---------------------------- MODULE AuditLogProofs ----------------------------
(***************************************************************************)
(* The log its own runs leave, for any runs, any contents and any size of  *)
(* a report: chaining new records on a chain that holds gives a chain that *)
(* holds, and nothing else is written by overlap or death unless two runs  *)
(* fill the file at the same time; the hash of the last record commits to  *)
(* all the records before it, so that no edit of those goes unseen; and    *)
(* runs in turn lose nothing.                                              *)
(*                                                                         *)
(* The last part is about the other thing main runs several of: the scans  *)
(* of a target file (MultiTarget), for a file of any length and any number *)
(* of threads.  The two parts share no state and no lemma.                 *)
(***************************************************************************)
EXTENDS AuditLog, MultiTarget, SequenceTheorems, FiniteSetTheorems, WellFoundedInduction, TLAPS

\* A chain that holds, with the link of each record spelled out.
Link(chain, i) == IF i = 1 THEN << >> ELSE chain[i - 1].hash

Holds(chain) ==
  \A i \in 1..Len(chain) : /\ chain[i].prev = Link(chain, i)
                           /\ chain[i].hash = Append(chain[i].prev, chain[i].body)

ChainInv ==
  /\ batch \in [Runs -> Seq(Bodies)]
  /\ edits \in Nat /\ shared \subseteq Runs
  /\ loaded \in [Runs -> Seq(Records)] /\ file.chain \in Seq(Records)
  /\ edits = 0 /\ shared = {} => Holds(file.chain) /\ \A r \in Runs : Holds(loaded[r])

\* The i-th record of the log that a hash commits to.
Record(h, i) == [body |-> h[i], prev |-> SubSeq(h, 1, i - 1), hash |-> SubSeq(h, 1, i)]

\* Whatever is done to a log, runs have written every record its last hash
\* commits to: an edit leaves that hash alone.
Committed(h) == \A i \in 1..Len(h) : Record(h, i) \in written

CommitInv ==
  shared = {} =>
    Committed(LastHash(file.chain)) /\ \A r \in Runs : Committed(LastHash(loaded[r]))

\* A hash is still in a chain.
In(hash, chain) == hash # << >> => \E i \in 1..Len(chain) : chain[i].hash = hash

\* Runs in turn: at most one is under way, what it has loaded is what it will
\* empty, and while the file is torn it alone has the records of all the others.
Alone == \A p, q \in Runs : pc[p] \in Under /\ pc[q] \in Under => p = q
LoadedIsFile == \A r \in Runs : pc[r] = "open" => loaded[r] = file.chain
LoadedHasAll ==
  \A r \in Runs : pc[r] = "write" =>
    file.state = "torn" /\ \A q \in Runs : tip[q].said => In(tip[q].hash, loaded[r])
FileHasAll == (\A q \in Runs : pc[q] # "write") => \A r \in Runs : tip[r].said => Kept(r)

QuietInv ==
  ~ disturbed /\ edits = 0 =>
    shared = {} /\ Alone /\ LoadedIsFile /\ LoadedHasAll /\ FileHasAll

-----------------------------------------------------------------------------
LEMMA LinkBefore ==
  ASSUME NEW chain \in Seq(Records), NEW i \in 1..Len(chain)
  PROVE  LastHash(SubSeq(chain, 1, i - 1)) = Link(chain, i)
<1>1. i \in Nat \ {0} /\ Len(chain) \in Nat /\ i <= Len(chain)
  OBVIOUS
<1>2. CASE i = 1
  <2>1. SubSeq(chain, 1, i - 1) = << >>
    BY <1>2, SubSeqEmpty
  <2>2. QED
    BY <1>2, <2>1 DEF LastHash, Link
<1>3. CASE i # 1
  <2> DEFINE front == SubSeq(chain, 1, i - 1)
  <2>1. \A j \in 1..(i - 1) : chain[j] \in Records
    BY <1>1, ElementOfSeq
  <2>2. Len(front) = i - 1 /\ \A j \in 1..(i - 1) : front[j] = chain[j]
    BY <1>1, <1>3, <2>1, SubSeqProperties
  <2>3. front # << >> /\ front[Len(front)] = chain[i - 1]
    BY <1>1, <1>3, <2>2
  <2> HIDE DEF front
  <2>4. LastHash(front) = chain[i - 1].hash
    BY <2>3 DEF LastHash
  <2>5. QED
    BY <1>3, <2>4 DEF Link, front
<1>4. QED
  BY <1>2, <1>3

\* Every set of numbers that is not empty has a least one: of the intervals
\* that end in it, one contains no other.
LEMMA FirstOf ==
  ASSUME NEW S \in SUBSET Nat, S # {}
  PROVE  \E i \in S : \A j \in S : i <= j
<1> DEFINE ends == {1..i : i \in S}
<1>1. ends \subseteq FiniteSubsetsOf(Nat) /\ ends # {}
  <2>1. ASSUME NEW i \in S PROVE 1..i \in FiniteSubsetsOf(Nat)
    <3>1. i \in Nat
      OBVIOUS
    <3>2. IsFiniteSet(1..i)
      BY <3>1, FS_Interval
    <3>3. 1..i \in SUBSET Nat
      BY <3>1
    <3>4. QED
      BY <3>2, <3>3 DEF FiniteSubsetsOf
  <2>2. QED
    BY <2>1
<1>2. IsWellFoundedOn(StrictSubsetOrdering(Nat), FiniteSubsetsOf(Nat))
  BY FS_StrictSubsetOrderingWellFounded
<1>3. PICK x \in ends : \A y \in ends : ~ (<<y, x>> \in StrictSubsetOrdering(Nat))
  <2> HIDE DEF ends
  <2>1. QED
    BY <1>1, <1>2, WFMin
<1>4. PICK i \in S : x = 1..i
  OBVIOUS
<1>5. ASSUME NEW j \in S, ~(i <= j) PROVE FALSE
  <2>1. i \in Nat /\ j \in Nat /\ j < i
    BY <1>5
  <2>2. 1..j \subseteq 1..i /\ 1..j # 1..i /\ 1..i \in SUBSET Nat
    <3>1. i \in 1..i /\ i \notin 1..j /\ 1..j \subseteq 1..i /\ 1..i \in SUBSET Nat
      BY <2>1
    <3>2. QED
      BY <3>1
  <2>3. <<1..j, 1..i>> \in StrictSubsetOrdering(Nat)
    BY <2>2 DEF StrictSubsetOrdering
  <2>4. 1..j \in ends
    OBVIOUS
  <2>5. QED
    BY <1>3, <1>4, <2>3, <2>4
<1>6. QED
  BY <1>5

\* What verify_audit_log_integrity looks for is what Holds says.
LEMMA HoldsIsValid ==
  ASSUME NEW chain \in Seq(Records), Holds(chain)
  PROVE  Broken(chain) = {}
  BY LinkBefore DEF Holds, Broken

-----------------------------------------------------------------------------
\* The new records: well typed, linked among themselves, the first to prev.
LEMMA ChainedRecords ==
  ASSUME NEW prev \in Hashes, NEW bodies \in Seq(Bodies)
  PROVE  LET new == Chained(prev, bodies) IN
         /\ new \in Seq(Records) /\ Len(new) = Len(bodies)
         /\ \A i \in 1..Len(new) :
              /\ new[i].prev = IF i = 1 THEN prev ELSE new[i - 1].hash
              /\ new[i].hash = Append(new[i].prev, new[i].body)
<1> DEFINE new == Chained(prev, bodies)
           cut(i) == SubSeq(bodies, 1, i)
<1>1. Len(bodies) \in Nat /\ \A i \in 1..Len(bodies) : bodies[i] \in Bodies
  BY ElementOfSeq
<1>2. \A i \in 0..Len(bodies) :
        cut(i) \in Seq(Bodies) /\ Len(cut(i)) = i /\ \A j \in 1..i : cut(i)[j] = bodies[j]
  <2> SUFFICES ASSUME NEW i \in 0..Len(bodies)
               PROVE  cut(i) \in Seq(Bodies) /\ Len(cut(i)) = i /\ \A j \in 1..i : cut(i)[j] = bodies[j]
    OBVIOUS
  <2>1. \A j \in 1..i : bodies[j] \in Bodies
    BY <1>1
  <2>2. QED
    BY <1>1, <2>1, SubSeqProperties
<1>3. \A i \in 0..Len(bodies) :
        /\ prev \o cut(i) \in Hashes /\ Len(prev \o cut(i)) = Len(prev) + i
        /\ \A j \in 1..(Len(prev) + i) :
             (prev \o cut(i))[j] = IF j <= Len(prev) THEN prev[j] ELSE bodies[j - Len(prev)]
  <2> SUFFICES ASSUME NEW i \in 0..Len(bodies)
               PROVE  /\ prev \o cut(i) \in Hashes /\ Len(prev \o cut(i)) = Len(prev) + i
                      /\ \A j \in 1..(Len(prev) + i) : (prev \o cut(i))[j] =
                           IF j <= Len(prev) THEN prev[j] ELSE bodies[j - Len(prev)]
    OBVIOUS
  <2>1. cut(i) \in Seq(Bodies) /\ Len(cut(i)) = i /\ \A j \in 1..i : cut(i)[j] = bodies[j]
    BY <1>2
  <2> HIDE DEF cut
  <2>2. /\ prev \o cut(i) \in Seq(Bodies) /\ Len(prev \o cut(i)) = Len(prev) + Len(cut(i))
        /\ \A j \in 1..(Len(prev) + Len(cut(i))) : (prev \o cut(i))[j] =
             IF j <= Len(prev) THEN prev[j] ELSE cut(i)[j - Len(prev)]
    BY <2>1, ConcatProperties DEF Hashes
  <2>3. Len(prev) \in Nat
    BY DEF Hashes
  <2>4. QED
    BY <2>1, <2>2, <2>3 DEF Hashes
<1>4. \A i \in 1..Len(bodies) : Append(prev \o cut(i - 1), bodies[i]) = prev \o cut(i)
  <2> SUFFICES ASSUME NEW i \in 1..Len(bodies)
               PROVE  Append(prev \o cut(i - 1), bodies[i]) = prev \o cut(i)
    OBVIOUS
  <2> DEFINE s == prev \o cut(i - 1)
             t == prev \o cut(i)
  <2>0. i - 1 \in 0..Len(bodies) /\ i \in 0..Len(bodies)
    BY <1>1
  <2>1. /\ s \in Seq(Bodies) /\ Len(s) = Len(prev) + (i - 1)
        /\ \A j \in 1..(Len(prev) + (i - 1)) :
             s[j] = IF j <= Len(prev) THEN prev[j] ELSE bodies[j - Len(prev)]
    BY <1>3, <2>0 DEF Hashes
  <2>2. /\ t \in Seq(Bodies) /\ Len(t) = Len(prev) + i
        /\ \A j \in 1..(Len(prev) + i) :
             t[j] = IF j <= Len(prev) THEN prev[j] ELSE bodies[j - Len(prev)]
    BY <1>3, <2>0 DEF Hashes
  <2>3. Len(prev) \in Nat /\ bodies[i] \in Bodies /\ i \in Nat \ {0}
    BY <1>1 DEF Hashes
  <2> HIDE DEF s, t
  <2>4. /\ Append(s, bodies[i]) \in Seq(Bodies) /\ Len(Append(s, bodies[i])) = Len(s) + 1
        /\ \A j \in 1..Len(s) : Append(s, bodies[i])[j] = s[j]
        /\ Append(s, bodies[i])[Len(s) + 1] = bodies[i]
    BY <2>1, <2>3
  <2>5. \A j \in 1..Len(t) : Append(s, bodies[i])[j] = t[j]
    <3> SUFFICES ASSUME NEW j \in 1..Len(t) PROVE Append(s, bodies[i])[j] = t[j]
      OBVIOUS
    <3>1. CASE j = Len(prev) + i
      BY <2>1, <2>2, <2>3, <2>4, <3>1
    <3>2. CASE j \in 1..(Len(prev) + (i - 1))
      <4>1. j \in 1..Len(s) /\ j \in 1..(Len(prev) + i)
        BY <2>1, <2>3, <3>2
      <4>2. Append(s, bodies[i])[j] = s[j]
        BY <2>4, <4>1
      <4>3. QED
        BY <2>1, <2>2, <3>2, <4>1, <4>2
    <3>3. j \in 1..(Len(prev) + i)
      BY <2>2
    <3>4. j = Len(prev) + i \/ j \in 1..(Len(prev) + (i - 1))
      BY <2>3, <3>3
    <3>5. QED
      BY <3>1, <3>2, <3>4
  <2>6. Append(s, bodies[i]) = t
    BY <2>1, <2>2, <2>3, <2>4, <2>5, SeqEqual
  <2>7. QED
    BY <2>6 DEF s, t
<1>5. prev \o cut(0) = prev
  <2>1. cut(0) = << >>
    BY SubSeqEmpty
  <2>2. QED
    BY <2>1, ConcatEmptySeq DEF Hashes
<1>6. new = [i \in 1..Len(bodies) |->
               [body |-> bodies[i], prev |-> prev \o cut(i - 1), hash |-> prev \o cut(i)]]
  BY DEF Chained
<1> HIDE DEF new, cut
<1>7. \A i \in 1..Len(bodies) : i - 1 \in 0..Len(bodies) /\ i \in 0..Len(bodies)
  BY <1>1
<1>8. \A i \in 1..Len(bodies) : new[i] \in Records
  BY <1>1, <1>3, <1>6, <1>7 DEF Records
<1>9. new \in Seq(Records) /\ Len(new) = Len(bodies)
  <2>1. new \in [1..Len(bodies) -> Records]
    BY <1>6, <1>8
  <2>2. QED
    BY <1>1, <2>1
<1>10. \A i \in 1..Len(new) : new[i].hash = Append(new[i].prev, new[i].body)
  <2> SUFFICES ASSUME NEW i \in 1..Len(bodies)
               PROVE  new[i].hash = Append(new[i].prev, new[i].body)
    BY <1>9
  <2>1. /\ new[i].body = bodies[i] /\ new[i].prev = prev \o cut(i - 1)
        /\ new[i].hash = prev \o cut(i)
    BY <1>6
  <2>2. QED
    BY <1>4, <2>1
<1>11. \A i \in 1..Len(new) : new[i].prev = IF i = 1 THEN prev ELSE new[i - 1].hash
  <2> SUFFICES ASSUME NEW i \in 1..Len(bodies)
               PROVE  new[i].prev = IF i = 1 THEN prev ELSE new[i - 1].hash
    BY <1>9
  <2>1. CASE i = 1
    <3>1. i - 1 = 0 /\ new[i].prev = prev \o cut(i - 1)
      BY <1>6, <2>1
    <3>2. QED
      BY <1>5, <2>1, <3>1
  <2>2. CASE i # 1
    <3>1. i - 1 \in 1..Len(bodies)
      BY <1>1, <2>2
    <3>2. QED
      BY <1>6, <2>2, <3>1
  <2>3. QED
    BY <2>1, <2>2
<1>12. QED
  BY <1>9, <1>10, <1>11 DEF new

LEMMA LastHashType ==
  ASSUME NEW chain \in Seq(Records)
  PROVE  LastHash(chain) \in Hashes
<1>1. CASE chain = << >>
  BY <1>1 DEF LastHash, Hashes
<1>2. CASE chain # << >>
  <2>1. Len(chain) \in 1..Len(chain)
    BY <1>2, EmptySeq
  <2>2. chain[Len(chain)] \in Records
    BY <2>1, ElementOfSeq
  <2>3. QED
    BY <1>2, <2>2 DEF LastHash, Records
<1>3. QED
  BY <1>1, <1>2

\* A chain that holds still holds with new records chained on its last one.
LEMMA AppendHolds ==
  ASSUME NEW chain \in Seq(Records), NEW bodies \in Seq(Bodies)
  PROVE  LET longer == chain \o Chained(LastHash(chain), bodies) IN
         longer \in Seq(Records) /\ (Holds(chain) => Holds(longer))
<1> DEFINE new == Chained(LastHash(chain), bodies)
           longer == chain \o new
<1>1. LastHash(chain) \in Hashes
  BY LastHashType
<1>2. /\ new \in Seq(Records) /\ Len(new) = Len(bodies)
      /\ \A i \in 1..Len(new) :
           /\ new[i].prev = IF i = 1 THEN LastHash(chain) ELSE new[i - 1].hash
           /\ new[i].hash = Append(new[i].prev, new[i].body)
  BY <1>1, ChainedRecords
<1> HIDE DEF new
<1>3. /\ longer \in Seq(Records) /\ Len(longer) = Len(chain) + Len(new)
      /\ \A i \in 1..(Len(chain) + Len(new)) :
           longer[i] = IF i <= Len(chain) THEN chain[i] ELSE new[i - Len(chain)]
  <2>1. chain \in Seq(Records) /\ new \in Seq(Records)
    BY <1>2
  <2>2. QED
    BY <2>1, ConcatProperties
<1> HIDE DEF longer
<1>4. ASSUME Holds(chain), NEW i \in 1..Len(longer)
      PROVE  /\ longer[i].prev = Link(longer, i)
             /\ longer[i].hash = Append(longer[i].prev, longer[i].body)
  <2>1. Len(chain) \in Nat /\ Len(new) \in Nat /\ i \in Nat \ {0}
    BY <1>2, <1>3
  <2>2. CASE i <= Len(chain)
    <3>1. longer[i] = chain[i] /\ (i # 1 => longer[i - 1] = chain[i - 1])
      BY <1>3, <2>1, <2>2
    <3>2. Link(longer, i) = Link(chain, i)
      BY <3>1 DEF Link
    <3>3. QED
      BY <1>4, <2>1, <2>2, <3>1, <3>2 DEF Holds
  <2>3. CASE i = Len(chain) + 1
    <3>1. longer[i] = new[1] /\ 1 \in 1..Len(new)
      BY <1>3, <2>1, <2>3
    <3>2. Link(longer, i) = LastHash(chain)
      <4>1. CASE chain = << >>
        BY <2>3, <4>1 DEF Link, LastHash
      <4>2. CASE chain # << >>
        <5>1. Len(chain) # 0 /\ i # 1 /\ i - 1 = Len(chain)
          BY <2>1, <2>3, <4>2, EmptySeq
        <5>2. longer[i - 1] = chain[Len(chain)]
          BY <1>3, <2>1, <2>3, <5>1
        <5>3. QED
          BY <4>2, <5>1, <5>2 DEF Link, LastHash
      <4>3. QED
        BY <4>1, <4>2
    <3>3. QED
      BY <1>2, <3>1, <3>2
  <2>4. CASE i > Len(chain) + 1
    <3> DEFINE j == i - Len(chain)
    <3>1. j \in 1..Len(new) /\ j # 1 /\ i # 1 /\ j - 1 = (i - 1) - Len(chain)
      BY <1>3, <2>1, <2>4
    <3>2. longer[i] = new[j] /\ longer[i - 1] = new[j - 1]
      <4>1. /\ i \in 1..(Len(chain) + Len(new)) /\ ~ (i <= Len(chain))
            /\ i - 1 \in 1..(Len(chain) + Len(new)) /\ ~ (i - 1 <= Len(chain))
        BY <1>3, <2>1, <2>4
      <4>2. longer[i] = new[i - Len(chain)] /\ longer[i - 1] = new[(i - 1) - Len(chain)]
        BY <1>3, <4>1
      <4>3. QED
        BY <3>1, <4>2
    <3>3. Link(longer, i) = new[j - 1].hash
      BY <3>1, <3>2 DEF Link
    <3>4. QED
      BY <1>2, <3>1, <3>2, <3>3
  <2>5. QED
    BY <2>1, <2>2, <2>3, <2>4
<1>5. QED
  BY <1>3, <1>4 DEF Holds, longer, new

\* What two runs leave that fill the file together is still made of records.
LEMMA MixTypes ==
  ASSUME NEW a \in Seq(Records), NEW b \in Seq(Records), NEW mix \in Mixes(a, b)
  PROVE  mix \in Seq(Records)
<1>1. PICK k \in 0..Len(a) : mix = SubSeq(a, 1, k) \o SubSeq(b, k + 1, Len(b))
  BY DEF Mixes
<1>2. /\ Len(a) \in Nat /\ \A i \in 1..Len(a) : a[i] \in Records
      /\ Len(b) \in Nat /\ \A i \in 1..Len(b) : b[i] \in Records
  BY ElementOfSeq
<1>3. SubSeq(a, 1, k) \in Seq(Records)
  BY <1>2, SubSeqProperties
<1>4. SubSeq(b, k + 1, Len(b)) \in Seq(Records)
  BY <1>2, SubSeqProperties
<1>5. QED
  BY <1>1, <1>3, <1>4, ConcatProperties

LEMMA TextTypes ==
  ASSUME ChainInv, NEW r \in Runs
  PROVE  /\ loaded[r] \in Seq(Records) /\ batch[r] \in Seq(Bodies)
         /\ LastHash(loaded[r]) \in Hashes
         /\ New(r) \in Seq(Records) /\ Text(r) \in Seq(Records)
         /\ Holds(loaded[r]) => Holds(Text(r))
<1>1. loaded[r] \in Seq(Records) /\ batch[r] \in Seq(Bodies)
  BY DEF ChainInv
<1>2. LastHash(loaded[r]) \in Hashes
  BY <1>1, LastHashType
<1>3. New(r) \in Seq(Records)
  BY <1>1, <1>2, ChainedRecords DEF New
<1>4. Text(r) \in Seq(Records) /\ (Holds(loaded[r]) => Holds(Text(r)))
  BY <1>1, AppendHolds DEF Text, New
<1>5. QED
  BY <1>1, <1>2, <1>3, <1>4

LEMMA JumbledTypes ==
  ASSUME ChainInv, NEW r \in Runs, Jumbled(r)
  PROVE  /\ shared # {} /\ file'.chain \in Seq(Records)
         /\ file' = Torn \/ \E c : file' = Saved(c)
<1>1. CASE file' = Torn
  BY <1>1 DEF Jumbled, Torn
<1>2. ASSUME NEW q \in shared, NEW mix \in Mixes(Text(q), Text(r)) \union Mixes(Text(r), Text(q)),
             file' = Saved(mix)
      PROVE  file'.chain \in Seq(Records)
  <2>1. Text(q) \in Seq(Records) /\ Text(r) \in Seq(Records)
    BY TextTypes DEF ChainInv
  <2>2. mix \in Seq(Records)
    BY <2>1, MixTypes
  <2>3. QED
    BY <1>2, <2>2 DEF Saved
<1>3. QED
  BY <1>1, <1>2 DEF Jumbled

-----------------------------------------------------------------------------
LEMMA InitHolds == Init => ChainInv
<1> SUFFICES ASSUME Init PROVE ChainInv
  OBVIOUS
<1>1. << >> \in Seq(Records) /\ << >> \in Seq(Bodies) /\ Holds(<< >>)
  BY DEF Holds
<1>2. QED
  BY <1>1 DEF Init, ChainInv, Missing

LEMMA StepHolds == ChainInv /\ [Next]_vars => ChainInv'
<1> SUFFICES ASSUME ChainInv, [Next]_vars PROVE ChainInv'
  OBVIOUS
<1>e. << >> \in Seq(Records) /\ Holds(<< >>)
  BY DEF Holds
<1>1. ASSUME NEW r \in Runs, NEW n \in 0..MaxBatch, NEW bodies \in [1..n -> Bodies],
             Reverified(r, bodies)
      PROVE  ChainInv'
  <2>1. bodies \in Seq(Bodies)
    BY LogAssumption
  <2>2. batch' \in [Runs -> Seq(Bodies)]
    BY <1>1, <2>1 DEF Reverified, ChainInv
  <2>3. QED
    BY <1>1, <2>2 DEF Reverified, ChainInv
<1>2. ASSUME NEW r \in Runs, Load(r) PROVE ChainInv'
  <2>1. loaded' = [loaded EXCEPT ![r] = file.chain] /\ UNCHANGED <<file, batch, edits, shared>>
    BY <1>2 DEF Load
  <2>2. loaded' \in [Runs -> Seq(Records)]
    BY <2>1 DEF ChainInv
  <2>3. ASSUME edits = 0, shared = {}, NEW q \in Runs PROVE Holds(loaded'[q])
    BY <2>1, <2>3 DEF ChainInv
  <2>4. QED
    BY <2>1, <2>2, <2>3 DEF ChainInv
<1>3. ASSUME NEW r \in Runs, Open(r) PROVE ChainInv'
  <2>1. shared \subseteq shared' /\ shared' \subseteq Runs
    BY <1>3 DEF Open, Writing, ChainInv
  <2>2. QED
    BY <1>3, <1>e, <2>1 DEF Open, Torn, ChainInv
<1>f. ASSUME NEW r \in Runs, Flush(r) PROVE ChainInv'
  <2>1. Jumbled(r) /\ UNCHANGED <<batch, loaded, edits, shared>>
    BY <1>f DEF Flush
  <2>2. shared # {} /\ file'.chain \in Seq(Records)
    BY <2>1, JumbledTypes
  <2>3. QED
    BY <2>1, <2>2 DEF ChainInv
<1>4. ASSUME NEW r \in Runs, Write(r) PROVE ChainInv'
  <2>1. /\ file' = Saved(Text(r)) \/ Jumbled(r)
        /\ UNCHANGED <<batch, loaded, edits, shared>>
    BY <1>4 DEF Write
  <2>2. CASE file' = Saved(Text(r))
    <3>1. file'.chain = Text(r)
      BY <2>2 DEF Saved
    <3>2. file'.chain \in Seq(Records) /\ (Holds(loaded[r]) => Holds(file'.chain))
      BY <3>1, TextTypes
    <3>3. QED
      BY <2>1, <3>2 DEF ChainInv
  <2>3. CASE Jumbled(r)
    <3>1. shared # {} /\ file'.chain \in Seq(Records)
      BY <2>3, JumbledTypes
    <3>2. QED
      BY <2>1, <3>1 DEF ChainInv
  <2>4. QED
    BY <2>1, <2>2, <2>3
<1>5. ASSUME NEW r \in Runs, Die(r) PROVE ChainInv'
  BY <1>5 DEF Die, ChainInv
<1>6. ASSUME NEW k \in 1..Len(file.chain), NEW body \in Bodies, NEW relink \in BOOLEAN,
             NEW rehash \in BOOLEAN, Edit(k, body, relink, rehash)
      PROVE  ChainInv'
  <2> DEFINE chain == file.chain
             prev == IF relink THEN LastHash(SubSeq(chain, 1, k - 1)) ELSE chain[k].prev
             hash == IF rehash THEN Append(prev, body) ELSE chain[k].hash
             rec == [body |-> body, prev |-> prev, hash |-> hash]
  <2>1. /\ file' = Saved([chain EXCEPT ![k] = rec])
        /\ edits' = edits + 1 /\ UNCHANGED <<batch, loaded, shared>>
    BY <1>6 DEF Edit
  <2>2. chain \in Seq(Records) /\ chain[k] \in Records
    BY ElementOfSeq DEF ChainInv
  <2>3. rec \in Records
    <3>1. Link(chain, k) \in Hashes
      <4>1. CASE k = 1
        BY <4>1 DEF Link, Hashes
      <4>2. CASE k # 1
        <5>1. k - 1 \in 1..Len(chain)
          BY <2>2, <4>2 DEF chain
        <5>2. chain[k - 1] \in Records
          BY <2>2, <5>1, ElementOfSeq
        <5>3. QED
          BY <4>2, <5>2 DEF Link, Records
      <4>3. QED
        BY <4>1, <4>2
    <3>2. prev \in Hashes
      BY <2>2, <3>1, LinkBefore DEF Records
    <3> HIDE DEF prev
    <3>3. hash \in Hashes
      BY <2>2, <3>2 DEF Records, Hashes
    <3>4. QED
      BY <3>2, <3>3 DEF Records
  <2> HIDE DEF rec, chain
  <2>4. [chain EXCEPT ![k] = rec] \in Seq(Records)
    BY <2>2, <2>3, ExceptSeq DEF chain
  <2>5. file'.chain \in Seq(Records) /\ edits' \in Nat \ {0}
    BY <2>1, <2>4 DEF Saved, ChainInv
  <2>6. QED
    BY <2>1, <2>5 DEF ChainInv
<1>7. ASSUME NEW k \in 1..Len(file.chain), TakeOut(k) PROVE ChainInv'
  <2> DEFINE chain == file.chain
  <2>1. /\ file' = Saved(RemoveAt(chain, k)) /\ k \in 1..(Len(chain) - 1)
        /\ edits' = edits + 1 /\ UNCHANGED <<batch, loaded, shared>>
    BY <1>7 DEF TakeOut
  <2>2. chain \in Seq(Records)
    BY DEF ChainInv
  <2> HIDE DEF chain
  <2>3. RemoveAt(chain, k) \in Seq(Records)
    <3>1. Len(chain) \in Nat /\ \A i \in 1..Len(chain) : chain[i] \in Records
      BY <2>2, ElementOfSeq
    <3>2. SubSeq(chain, 1, k - 1) \in Seq(Records)
      BY <2>1, <3>1, SubSeqProperties
    <3>3. SubSeq(chain, k + 1, Len(chain)) \in Seq(Records)
      BY <2>1, <3>1, SubSeqProperties
    <3>4. QED
      BY <3>2, <3>3, ConcatProperties DEF RemoveAt
  <2>4. file'.chain \in Seq(Records) /\ edits' \in Nat \ {0}
    BY <2>1, <2>3 DEF Saved, ChainInv
  <2>5. QED
    BY <2>1, <2>4 DEF ChainInv
<1>8. CASE UNCHANGED vars
  BY <1>8 DEF vars, ChainInv
<1>9. QED
  BY <1>1, <1>2, <1>3, <1>f, <1>4, <1>5, <1>6, <1>7, <1>8 DEF Next, Step

\* However its runs overlap and wherever they die, unless two of them fill the
\* file at the same time: the log they leave is torn or verifies, and only an
\* edit makes verify_audit_log_integrity call it invalid.
THEOREM LogVerifies == Spec => []OwnLogVerifies
<1>1. ChainInv => OwnLogVerifies
  BY HoldsIsValid DEF ChainInv, OwnLogVerifies, Valid
<1>2. ChainInv /\ [Next]_vars => ChainInv'
  BY StepHolds
<1>3. Init => ChainInv
  BY InitHolds
<1>4. QED
  BY <1>1, <1>2, <1>3, PTL DEF Spec

-----------------------------------------------------------------------------
(* Types                                                                   *)

LEMMA InitTypes == Init => TypeOK
<1> SUFFICES ASSUME Init PROVE TypeOK
  OBVIOUS
<1>1. << >> \in Seq(Records) /\ << >> \in Seq(Bodies) /\ << >> \in Hashes
  BY DEF Hashes
<1>2. Missing \in [state : {"missing", "torn", "saved"}, chain : Seq(Records)]
  BY <1>1 DEF Missing
<1>3. NoTip \in [said : BOOLEAN, hash : Hashes]
  BY <1>1 DEF NoTip
<1>4. QED
  BY <1>1, <1>2, <1>3 DEF Init, TypeOK, Phases

LEMMA StepTypes == ChainInv /\ TypeOK /\ [Next]_vars => TypeOK'
<1> SUFFICES ASSUME ChainInv, TypeOK, [Next]_vars PROVE TypeOK'
  OBVIOUS
<1> DEFINE FileType == [state : {"missing", "torn", "saved"}, chain : Seq(Records)]
<1>0. /\ batch' \in [Runs -> Seq(Bodies)] /\ edits' \in Nat /\ shared' \subseteq Runs
      /\ loaded' \in [Runs -> Seq(Records)] /\ file'.chain \in Seq(Records)
  BY StepHolds DEF ChainInv
<1>a. \A f : f.chain \in Seq(Records) /\ (f = Torn \/ \E c : f = Saved(c)) => f \in FileType
  BY DEF Torn, Saved
<1>b. \A where \in Phases, r \in Runs : Goto(r, where) => pc' \in [Runs -> Phases]
  BY DEF TypeOK, Goto
<1>1. ASSUME NEW r \in Runs, NEW n \in 0..MaxBatch, NEW bodies \in [1..n -> Bodies],
             Reverified(r, bodies)
      PROVE  TypeOK'
  <2>1. pc' \in [Runs -> Phases] /\ disturbed' \in BOOLEAN
    BY <1>1, <1>b DEF Reverified, TypeOK, Phases, Under
  <2>2. QED
    BY <1>0, <1>1, <2>1 DEF Reverified, TypeOK
<1>2. ASSUME NEW r \in Runs, Load(r) PROVE TypeOK'
  <2>1. pc' \in [Runs -> Phases]
    BY <1>2, <1>b DEF Load, Phases, Under
  <2>2. QED
    BY <1>0, <1>2, <2>1 DEF Load, TypeOK
<1>3. ASSUME NEW r \in Runs, Open(r) PROVE TypeOK'
  <2>1. pc' \in [Runs -> Phases] /\ file' \in FileType
    BY <1>0, <1>3, <1>a, <1>b DEF Open, Phases, Under
  <2>2. QED
    BY <1>0, <1>3, <2>1 DEF Open, TypeOK
<1>f. ASSUME NEW r \in Runs, Flush(r) PROVE TypeOK'
  <2>1. Jumbled(r) /\ UNCHANGED <<pc, batch, loaded, tip, written, edits, disturbed, shared>>
    BY <1>f DEF Flush
  <2>2. file' \in FileType
    BY <1>0, <1>a, <2>1, JumbledTypes
  <2>3. QED
    BY <1>0, <2>1, <2>2 DEF TypeOK
<1>4. ASSUME NEW r \in Runs, Write(r) PROVE TypeOK'
  <2>1. New(r) \in Seq(Records) /\ Text(r) \in Seq(Records)
    BY TextTypes
  <2>2. /\ file' = Saved(Text(r)) \/ Jumbled(r)
        /\ written' = written \union ToSet(New(r))
        /\ tip' = [tip EXCEPT ![r] = [said |-> TRUE, hash |-> LastHash(Text(r))]]
        /\ Goto(r, "done")
        /\ UNCHANGED disturbed
    BY <1>4 DEF Write
  <2>3. file' = Torn \/ \E c : file' = Saved(c)
    BY <2>2, JumbledTypes
  <2>4. pc' \in [Runs -> Phases] /\ file' \in FileType
    BY <1>0, <1>a, <1>b, <2>2, <2>3 DEF Phases, Under
  <2>5. ToSet(New(r)) \subseteq Records
    BY <2>1, ElementOfSeq DEF ToSet
  <2>6. tip' \in [Runs -> [said : BOOLEAN, hash : Hashes]]
    <3>1. LastHash(Text(r)) \in Hashes
      BY <2>1, LastHashType
    <3>2. [said |-> TRUE, hash |-> LastHash(Text(r))] \in [said : BOOLEAN, hash : Hashes]
      BY <3>1
    <3>3. QED
      BY <2>2, <3>2 DEF TypeOK
  <2>7. QED
    BY <1>0, <2>2, <2>4, <2>5, <2>6 DEF TypeOK
<1>5. ASSUME NEW r \in Runs, Die(r) PROVE TypeOK'
  <2>1. pc' \in [Runs -> Phases] /\ disturbed' \in BOOLEAN
    BY <1>5, <1>b DEF Die, TypeOK, Phases, Under
  <2>2. QED
    BY <1>0, <1>5, <2>1 DEF Die, TypeOK
<1>6. ASSUME NEW k \in 1..Len(file.chain), NEW body \in Bodies, NEW relink \in BOOLEAN,
             NEW rehash \in BOOLEAN, Edit(k, body, relink, rehash)
      PROVE  TypeOK'
  <2>1. (\E c : file' = Saved(c)) /\ UNCHANGED <<pc, batch, loaded, tip, written, disturbed>>
    BY <1>6 DEF Edit
  <2>2. QED
    BY <1>0, <1>a, <2>1 DEF TypeOK
<1>7. ASSUME NEW k \in 1..Len(file.chain), TakeOut(k) PROVE TypeOK'
  <2>1. (\E c : file' = Saved(c)) /\ UNCHANGED <<pc, batch, loaded, tip, written, disturbed>>
    BY <1>7 DEF TakeOut
  <2>2. QED
    BY <1>0, <1>a, <2>1 DEF TypeOK
<1>8. CASE UNCHANGED vars
  BY <1>8 DEF vars, TypeOK
<1>9. QED
  BY <1>1, <1>2, <1>3, <1>f, <1>4, <1>5, <1>6, <1>7, <1>8 DEF Next, Step

\* The log, what runs have read of it and what they remember stay well typed,
\* whatever is appended, edited or taken out.
THEOREM TypeCorrect == Spec => []TypeOK
<1>1. ChainInv /\ TypeOK /\ [Next]_vars => (ChainInv /\ TypeOK)'
  BY StepHolds, StepTypes
<1>2. Init => ChainInv /\ TypeOK
  BY InitHolds, InitTypes
<1>3. QED
  BY <1>1, <1>2, PTL DEF Spec

-----------------------------------------------------------------------------
(* What the last hash commits to                                           *)

\* A chain that holds is, record by record, what its last hash commits to.
LEMMA HoldsCommits ==
  ASSUME NEW chain \in Seq(Records), Holds(chain), NEW k \in 1..Len(chain)
  PROVE  k \in 1..Len(LastHash(chain)) /\ chain[k] = Record(LastHash(chain), k)
<1> DEFINE n == Len(chain)
           fits(i) == /\ chain[i].hash \in Seq(Bodies) /\ Len(chain[i].hash) = i
                      /\ \A j \in 1..i : chain[i].hash[j] = chain[j].body
           bad == {i \in 1..n : ~ fits(i)}
<1>1. n \in Nat /\ \A i \in 1..n : chain[i] \in Records
  BY ElementOfSeq
<1>2. ASSUME NEW i \in 1..n, i # 1 => fits(i - 1)
      PROVE  /\ fits(i)
             /\ chain[i].prev \in Seq(Bodies) /\ Len(chain[i].prev) = i - 1
             /\ \A j \in 1..(i - 1) : chain[i].prev[j] = chain[j].body
  <2> DEFINE prev == chain[i].prev
             body == chain[i].body
  <2>1. /\ prev = Link(chain, i) /\ chain[i].hash = Append(prev, body)
        /\ body \in Bodies /\ i \in Nat \ {0}
    BY <1>1 DEF Holds, Records
  <2>2. prev \in Seq(Bodies) /\ Len(prev) = i - 1 /\ \A j \in 1..(i - 1) : prev[j] = chain[j].body
    <3>1. CASE i = 1
      <4>1. prev = << >>
        BY <2>1, <3>1 DEF Link
      <4>2. QED
        BY <3>1, <4>1
    <3>2. CASE i # 1
      <4>1. prev = chain[i - 1].hash
        BY <2>1, <3>2 DEF Link
      <4>2. QED
        BY <1>2, <3>2, <4>1
    <3>3. QED
      BY <3>1, <3>2
  <2> HIDE DEF prev, body
  <2>3. /\ Append(prev, body) \in Seq(Bodies) /\ Len(Append(prev, body)) = Len(prev) + 1
        /\ \A j \in 1..Len(prev) : Append(prev, body)[j] = prev[j]
        /\ Append(prev, body)[Len(prev) + 1] = body
    BY <2>1, <2>2
  <2>4. ASSUME NEW j \in 1..i PROVE Append(prev, body)[j] = chain[j].body
    <3>1. CASE j = i
      BY <2>1, <2>2, <2>3, <3>1 DEF body
    <3>2. CASE j \in 1..(i - 1)
      BY <2>2, <2>3, <3>2
    <3>3. j = i \/ j \in 1..(i - 1)
      BY <2>1
    <3>4. QED
      BY <3>1, <3>2, <3>3
  <2>5. Len(Append(prev, body)) = i
    BY <2>1, <2>2, <2>3
  <2>6. fits(i)
    BY <2>1, <2>3, <2>4, <2>5
  <2>7. QED
    BY <2>2, <2>6 DEF prev
<1> HIDE DEF fits
<1>3. bad = {}
  <2> SUFFICES ASSUME bad # {} PROVE FALSE
    OBVIOUS
  <2>1. bad \in SUBSET Nat
    OBVIOUS
  <2>2. PICK i \in bad : \A j \in bad : i <= j
    <3> HIDE DEF bad
    <3>1. QED
      BY <2>1, FirstOf
  <2>3. i \in 1..n /\ ~ fits(i)
    OBVIOUS
  <2>4. i # 1 => i - 1 \in 1..n /\ ~ (i <= i - 1)
    BY <1>1, <2>3
  <2>5. i # 1 => fits(i - 1)
    BY <2>2, <2>4
  <2>6. QED
    BY <1>2, <2>3, <2>5
<1>4. \A i \in 1..n : fits(i)
  BY <1>3
<1> HIDE DEF bad
<1> DEFINE h == LastHash(chain)
<1>5. n \in 1..n /\ k \in Nat \ {0} /\ k <= n /\ h = chain[n].hash
  <2>1. chain # << >> /\ n \in 1..n
    BY <1>1, EmptySeq
  <2>2. QED
    BY <1>1, <2>1 DEF LastHash
<1>6. h \in Seq(Bodies) /\ Len(h) = n /\ \A j \in 1..n : h[j] = chain[j].body
  BY <1>4, <1>5 DEF fits
<1> HIDE DEF h
<1>7. ASSUME NEW i \in 0..n, NEW s \in Seq(Bodies), Len(s) = i, \A j \in 1..i : s[j] = chain[j].body
      PROVE  s = SubSeq(h, 1, i)
  <2>1. /\ SubSeq(h, 1, i) \in Seq(Bodies) /\ Len(SubSeq(h, 1, i)) = i
        /\ \A j \in 1..i : SubSeq(h, 1, i)[j] = h[j]
    <3>1. \A j \in 1..i : h[j] \in Bodies
      BY <1>1, <1>6, ElementOfSeq
    <3>2. i \in Nat
      BY <1>1
    <3>3. QED
      BY <3>1, <3>2, SubSeqProperties
  <2>2. \A j \in 1..Len(s) : s[j] = SubSeq(h, 1, i)[j]
    BY <1>1, <1>6, <1>7, <2>1
  <2>3. QED
    BY <1>7, <2>1, <2>2, SeqEqual
<1>8. chain[k].hash = SubSeq(h, 1, k)
  <2>1. k \in 0..n /\ fits(k)
    BY <1>4, <1>5
  <2>2. QED
    BY <1>7, <2>1 DEF fits
<1>9. chain[k].prev = SubSeq(h, 1, k - 1)
  <2>1. k # 1 => k - 1 \in 1..n
    BY <1>1, <1>5
  <2>2. /\ chain[k].prev \in Seq(Bodies) /\ Len(chain[k].prev) = k - 1
        /\ \A j \in 1..(k - 1) : chain[k].prev[j] = chain[j].body
    BY <1>2, <1>4, <2>1
  <2>3. k - 1 \in 0..n
    BY <1>1, <1>5
  <2>4. QED
    BY <1>7, <2>2, <2>3
<1>10. chain[k] = [body |-> h[k], prev |-> SubSeq(h, 1, k - 1), hash |-> SubSeq(h, 1, k)]
  <2>1. chain[k] \in Records /\ chain[k].body = h[k]
    BY <1>1, <1>6
  <2>2. chain[k] = [body |-> chain[k].body, prev |-> chain[k].prev, hash |-> chain[k].hash]
    BY <2>1 DEF Records
  <2>3. QED
    BY <1>8, <1>9, <2>1, <2>2
<1>11. QED
  BY <1>5, <1>6, <1>10 DEF Record, h

\* The beginnings of one sequence followed by another.
LEMMA Beginnings ==
  ASSUME NEW s \in Seq(Bodies), NEW t \in Seq(Bodies)
  PROVE  /\ \A m \in 0..Len(s) : SubSeq(s \o t, 1, m) = SubSeq(s, 1, m)
         /\ \A m \in 0..Len(t) : SubSeq(s \o t, 1, Len(s) + m) = s \o SubSeq(t, 1, m)
<1> DEFINE h == s \o t
<1>1. /\ Len(s) \in Nat /\ \A i \in 1..Len(s) : s[i] \in Bodies
      /\ Len(t) \in Nat /\ \A i \in 1..Len(t) : t[i] \in Bodies
  BY ElementOfSeq
<1>2. /\ h \in Seq(Bodies) /\ Len(h) = Len(s) + Len(t)
      /\ \A i \in 1..(Len(s) + Len(t)) : h[i] = IF i <= Len(s) THEN s[i] ELSE t[i - Len(s)]
  BY ConcatProperties
<1> HIDE DEF h
<1>3. \A i \in 1..Len(h) : h[i] \in Bodies
  BY <1>2, ElementOfSeq
<1>4. ASSUME NEW m \in 0..(Len(s) + Len(t))
      PROVE  /\ SubSeq(h, 1, m) \in Seq(Bodies) /\ Len(SubSeq(h, 1, m)) = m
             /\ \A i \in 1..m : SubSeq(h, 1, m)[i] = h[i]
  <2>1. m \in Nat /\ \A i \in 1..m : h[i] \in Bodies
    BY <1>1, <1>2, <1>3
  <2>2. QED
    BY <2>1, SubSeqProperties
<1>5. ASSUME NEW m \in 0..Len(s) PROVE SubSeq(h, 1, m) = SubSeq(s, 1, m)
  <2>1. /\ SubSeq(s, 1, m) \in Seq(Bodies) /\ Len(SubSeq(s, 1, m)) = m
        /\ \A i \in 1..m : SubSeq(s, 1, m)[i] = s[i]
    <3>1. m \in Nat /\ \A i \in 1..m : s[i] \in Bodies
      BY <1>1
    <3>2. QED
      BY <3>1, SubSeqProperties
  <2>2. m \in 0..(Len(s) + Len(t)) /\ \A i \in 1..m : h[i] = s[i]
    BY <1>1, <1>2
  <2>3. QED
    BY <1>4, <2>1, <2>2, SeqEqual
<1>6. ASSUME NEW m \in 0..Len(t) PROVE SubSeq(h, 1, Len(s) + m) = s \o SubSeq(t, 1, m)
  <2> DEFINE cut == SubSeq(t, 1, m)
  <2>1. cut \in Seq(Bodies) /\ Len(cut) = m /\ \A i \in 1..m : cut[i] = t[i]
    <3>1. m \in Nat /\ \A i \in 1..m : t[i] \in Bodies
      BY <1>1
    <3>2. QED
      BY <3>1, SubSeqProperties
  <2> HIDE DEF cut
  <2>2. /\ s \o cut \in Seq(Bodies) /\ Len(s \o cut) = Len(s) + m
        /\ \A i \in 1..(Len(s) + m) : (s \o cut)[i] = IF i <= Len(s) THEN s[i] ELSE cut[i - Len(s)]
    BY <2>1, ConcatProperties
  <2>3. Len(s) + m \in 0..(Len(s) + Len(t))
    BY <1>1
  <2>4. ASSUME NEW i \in 1..(Len(s) + m) PROVE (s \o cut)[i] = h[i]
    <3>1. i \in 1..(Len(s) + Len(t)) /\ (~ (i <= Len(s)) => i - Len(s) \in 1..m)
      BY <1>1
    <3>2. CASE i <= Len(s)
      BY <1>2, <2>2, <3>1, <3>2
    <3>3. CASE ~ (i <= Len(s))
      BY <1>2, <2>1, <2>2, <3>1, <3>3
    <3>4. QED
      BY <3>2, <3>3
  <2>5. QED
    BY <1>4, <2>2, <2>3, <2>4, SeqEqual DEF cut
<1>7. QED
  BY <1>5, <1>6 DEF h

\* The hash of the last new record commits to what was there and to the new
\* records, whatever was there before them.
LEMMA ChainedCommits ==
  ASSUME NEW prev \in Hashes, NEW bodies \in Seq(Bodies), NEW i \in 1..Len(prev \o bodies)
  PROVE  \/ i \in 1..Len(prev) /\ Record(prev \o bodies, i) = Record(prev, i)
         \/ /\ i - Len(prev) \in 1..Len(bodies)
            /\ Record(prev \o bodies, i) = Chained(prev, bodies)[i - Len(prev)]
<1> DEFINE h == prev \o bodies
<1>1. /\ prev \in Seq(Bodies) /\ Len(prev) \in Nat /\ Len(bodies) \in Nat
      /\ Len(h) = Len(prev) + Len(bodies)
      /\ \A j \in 1..(Len(prev) + Len(bodies)) :
           h[j] = IF j <= Len(prev) THEN prev[j] ELSE bodies[j - Len(prev)]
  BY ConcatProperties DEF Hashes
<1>2. /\ \A m \in 0..Len(prev) : SubSeq(h, 1, m) = SubSeq(prev, 1, m)
      /\ \A m \in 0..Len(bodies) : SubSeq(h, 1, Len(prev) + m) = prev \o SubSeq(bodies, 1, m)
  BY <1>1, Beginnings
<1> HIDE DEF h
<1>3. CASE i \in 1..Len(prev)
  <2>1. h[i] = prev[i] /\ i \in 0..Len(prev) /\ i - 1 \in 0..Len(prev)
    BY <1>1, <1>3
  <2>2. SubSeq(h, 1, i - 1) = SubSeq(prev, 1, i - 1) /\ SubSeq(h, 1, i) = SubSeq(prev, 1, i)
    BY <1>2, <2>1
  <2>3. Record(h, i) = Record(prev, i)
    BY <2>1, <2>2 DEF Record
  <2>4. QED
    BY <1>3, <2>3 DEF h
<1>4. CASE i \notin 1..Len(prev)
  <2> DEFINE j == i - Len(prev)
  <2>1. i \in 1..(Len(prev) + Len(bodies))
    BY <1>1 DEF h
  <2>2. /\ j \in 1..Len(bodies) /\ j \in 0..Len(bodies) /\ j - 1 \in 0..Len(bodies)
        /\ i = Len(prev) + j /\ i - 1 = Len(prev) + (j - 1)
    BY <1>1, <1>4, <2>1
  <2>3. h[i] = bodies[j]
    BY <1>1, <1>4, <2>1
  <2> HIDE DEF j
  <2>4. /\ SubSeq(h, 1, i) = prev \o SubSeq(bodies, 1, j)
        /\ SubSeq(h, 1, i - 1) = prev \o SubSeq(bodies, 1, j - 1)
    BY <1>2, <2>2
  <2>5. Chained(prev, bodies)[j] = [body |-> bodies[j],
                                    prev |-> prev \o SubSeq(bodies, 1, j - 1),
                                    hash |-> prev \o SubSeq(bodies, 1, j)]
    BY <2>2 DEF Chained
  <2>6. Record(h, i) = Chained(prev, bodies)[j]
    BY <2>3, <2>4, <2>5 DEF Record
  <2>7. QED
    BY <2>2, <2>6 DEF h, j
<1>5. QED
  BY <1>3, <1>4

\* The last hash of a log with new records chained on it.
LEMMA LastOfChained ==
  ASSUME NEW chain \in Seq(Records), NEW bodies \in Seq(Bodies)
  PROVE  LastHash(chain \o Chained(LastHash(chain), bodies)) = LastHash(chain) \o bodies
<1> DEFINE prev == LastHash(chain)
           new == Chained(prev, bodies)
           longer == chain \o new
<1>1. prev \in Seq(Bodies)
  BY LastHashType DEF Hashes
<1> HIDE DEF prev
<1>2. new \in Seq(Records) /\ Len(new) = Len(bodies)
  BY <1>1, ChainedRecords DEF Hashes
<1>3. Len(bodies) \in Nat /\ Len(chain) \in Nat
  OBVIOUS
<1>4. CASE bodies = << >>
  <2>1. Len(new) = 0
    BY <1>2, <1>4
  <2>2. new = << >>
    <3> HIDE DEF new
    <3>1. QED
      BY <1>2, <2>1, EmptySeq
  <2>3. longer = chain /\ prev \o bodies = prev
    BY <1>1, <1>4, <2>2, ConcatEmptySeq
  <2>4. QED
    BY <2>3 DEF prev
<1>5. CASE bodies # << >>
  <2> DEFINE n == Len(bodies)
  <2>1. n \in Nat \ {0}
    BY <1>5, EmptySeq
  <2>2. new[n].hash = prev \o SubSeq(bodies, 1, n)
    BY <2>1, SMTT(30) DEF Chained
  <2>3. SubSeq(bodies, 1, n) = bodies
    BY SubSeqFull
  <2> HIDE DEF new
  <2>4. /\ longer \in Seq(Records) /\ Len(longer) = Len(chain) + n
        /\ \A i \in 1..(Len(chain) + n) :
             longer[i] = IF i <= Len(chain) THEN chain[i] ELSE new[i - Len(chain)]
    <3>1. /\ chain \o new \in Seq(Records) /\ Len(chain \o new) = Len(chain) + Len(new)
          /\ \A i \in 1..(Len(chain) + Len(new)) :
               (chain \o new)[i] = IF i <= Len(chain) THEN chain[i] ELSE new[i - Len(chain)]
      BY <1>2, ConcatProperties, Zenon
    <3>2. QED
      BY <1>2, <3>1
  <2> HIDE DEF longer
  <2>5. longer[Len(longer)] = new[n]
    <3>1. /\ Len(chain) + n \in 1..(Len(chain) + n) /\ ~ (Len(chain) + n <= Len(chain))
          /\ (Len(chain) + n) - Len(chain) = n
      BY <1>3, <2>1
    <3>2. QED
      BY <2>4, <3>1
  <2>6. longer # << >>
    <3>1. Len(longer) # 0
      BY <1>3, <2>1, <2>4
    <3>2. QED
      BY <3>1
  <2>7. LastHash(longer) = prev \o bodies
    BY <2>2, <2>3, <2>5, <2>6 DEF LastHash
  <2>8. QED
    BY <2>7 DEF longer, new, prev
<1>6. QED
  BY <1>4, <1>5

LEMMA InitCommits == Init => CommitInv
<1>1. LastHash(<< >>) = << >> /\ \A i \in 1..Len(<< >>) : FALSE
  BY DEF LastHash
<1>2. QED
  BY <1>1 DEF Init, CommitInv, Committed, Missing

\* Runs that have shared the file are not forgotten.
LEMMA SharedGrows ==
  ASSUME [Next]_vars
  PROVE  shared \subseteq shared'
<1>1. ASSUME NEW r \in Runs, Step(r) PROVE shared \subseteq shared'
  BY <1>1 DEF Step, Load, Open, Flush, Write
<1>2. ASSUME NEW r \in Runs, NEW bodies, Reverified(r, bodies) \/ Die(r)
      PROVE  shared \subseteq shared'
  BY <1>2 DEF Reverified, Die
<1>3. ASSUME NEW k, NEW body, NEW relink, NEW rehash,
             Edit(k, body, relink, rehash) \/ TakeOut(k)
      PROVE  shared \subseteq shared'
  BY <1>3 DEF Edit, TakeOut
<1>4. CASE UNCHANGED vars
  BY <1>4 DEF vars
<1>5. QED
  BY <1>1, <1>2, <1>3, <1>4 DEF Next

LEMMA StepCommits == ChainInv /\ CommitInv /\ [Next]_vars => CommitInv'
<1> SUFFICES ASSUME ChainInv, CommitInv, [Next]_vars PROVE CommitInv'
  OBVIOUS
<1> SUFFICES ASSUME shared' = {}, shared = {} PROVE CommitInv'
  <2>1. shared \subseteq shared'
    BY SharedGrows
  <2>2. QED
    BY <2>1 DEF CommitInv
<1>0. \A i \in 1..Len(LastHash(<< >>)) : FALSE
  BY DEF LastHash
<1>a. ASSUME UNCHANGED <<loaded, written>>, LastHash(file.chain)' \in {LastHash(file.chain), << >>}
      PROVE  CommitInv'
  <2>1. Committed(LastHash(file.chain))'
    <3>1. \A h : Committed(h) => Committed(h)'
      BY <1>a DEF Committed
    <3>2. Committed(<< >>)'
      BY DEF Committed
    <3>3. QED
      BY <1>a, <3>1, <3>2 DEF CommitInv, Committed
  <2>2. QED
    BY <1>a, <2>1 DEF CommitInv, Committed
<1>1. ASSUME NEW r \in Runs, NEW n \in 0..MaxBatch, NEW bodies \in [1..n -> Bodies],
             Reverified(r, bodies)
      PROVE  CommitInv'
  BY <1>1, <1>a DEF Reverified
<1>2. ASSUME NEW r \in Runs, Load(r) PROVE CommitInv'
  <2>1. loaded' = [loaded EXCEPT ![r] = file.chain] /\ UNCHANGED <<file, written>>
    BY <1>2 DEF Load
  <2>2. \A q \in Runs : loaded'[q] \in {loaded[q], file.chain}
    BY <2>1 DEF ChainInv
  <2>3. QED
    BY <2>1, <2>2 DEF CommitInv, Committed
<1>3. ASSUME NEW r \in Runs, Open(r) PROVE CommitInv'
  <2>1. LastHash(file.chain)' = << >> /\ UNCHANGED <<loaded, written>>
    BY <1>3 DEF Open, Torn, LastHash
  <2>2. QED
    BY <1>a, <2>1
<1>f. ASSUME NEW r \in Runs, Flush(r) PROVE FALSE
  BY <1>f DEF Flush, Jumbled
<1>4. ASSUME NEW r \in Runs, Write(r) PROVE CommitInv'
  <2> DEFINE prev == LastHash(loaded[r])
             new == Chained(prev, batch[r])
             last == prev \o batch[r]
  <2>1. loaded[r] \in Seq(Records) /\ batch[r] \in Seq(Bodies)
    BY DEF ChainInv
  <2>2. prev \in Hashes /\ LastHash(Text(r)) = last
    BY <2>1, LastHashType, LastOfChained DEF Text, New
  <2>3. new \in Seq(Records) /\ Len(new) = Len(batch[r])
    BY <2>1, <2>2, ChainedRecords
  <2>4. file' = Saved(Text(r)) /\ written' = written \union ToSet(new) /\ UNCHANGED loaded
    BY <1>4 DEF Write, Jumbled, New
  <2>5. ASSUME NEW i \in 1..Len(last) PROVE Record(last, i) \in written'
    <3>1. CASE i \in 1..Len(prev) /\ Record(last, i) = Record(prev, i)
      BY <2>4, <3>1 DEF CommitInv, Committed
    <3>2. CASE /\ i - Len(prev) \in 1..Len(batch[r])
               /\ Record(last, i) = new[i - Len(prev)]
      <4> HIDE DEF new, prev, last
      <4>1. new[i - Len(prev)] \in ToSet(new)
        BY <2>3, <3>2 DEF ToSet
      <4>2. QED
        BY <2>4, <3>2, <4>1
    <3>3. QED
      BY <2>1, <2>2, <3>1, <3>2, ChainedCommits
  <2> HIDE DEF new, last
  <2>6. Committed(LastHash(file.chain))'
    <3>1. LastHash(file.chain)' = last
      BY <2>2, <2>4 DEF Saved
    <3>2. QED
      BY <2>5, <3>1 DEF Committed
  <2>7. QED
    BY <2>4, <2>6 DEF CommitInv, Committed
<1>5. ASSUME NEW r \in Runs, Die(r) PROVE CommitInv'
  BY <1>5, <1>a DEF Die
<1>6. ASSUME NEW k \in 1..Len(file.chain), NEW body \in Bodies, NEW relink \in BOOLEAN,
             NEW rehash \in BOOLEAN, Edit(k, body, relink, rehash)
      PROVE  CommitInv'
  <2> DEFINE chain == file.chain
             n == Len(chain)
             prev == IF relink THEN LastHash(SubSeq(chain, 1, k - 1)) ELSE chain[k].prev
             hash == IF rehash THEN Append(prev, body) ELSE chain[k].hash
             rec == [body |-> body, prev |-> prev, hash |-> hash]
             edited == [chain EXCEPT ![k] = rec]
  <2>1. file' = Saved(edited) /\ (rehash => k < n) /\ UNCHANGED <<loaded, written>>
    BY <1>6 DEF Edit
  <2>2. chain \in Seq(Records) /\ n \in Nat /\ DOMAIN chain = 1..n /\ k \in Nat
    BY DEF ChainInv
  <2> HIDE DEF chain, rec
  <2>3. Len(edited) = n /\ DOMAIN edited = 1..n
    BY <2>2
  <2>4. n \in 1..n /\ chain # << >> /\ edited # << >>
    BY <2>2, <2>3 DEF chain
  <2>5. edited[n].hash = chain[n].hash
    <3>1. CASE k = n
      <4>1. edited[k] = rec
        BY <2>2, <2>4, <3>1, Zenon
      <4>2. ~ rehash
        BY <2>1, <2>2, <3>1
      <4>3. rec.hash = chain[k].hash
        BY <4>2 DEF rec
      <4>4. QED
        BY <3>1, <4>1, <4>3, Zenon
    <3>2. CASE k # n
      BY <2>2, <2>4, <3>2, Zenon
    <3>3. QED
      BY <3>1, <3>2
  <2>6. LastHash(edited) = LastHash(chain)
    <3> HIDE DEF edited
    <3>1. QED
      BY <2>3, <2>4, <2>5 DEF LastHash
  <2>7. LastHash(file.chain)' = LastHash(file.chain)
    BY <2>1, <2>6 DEF Saved, chain
  <2>8. QED
    BY <1>a, <2>1, <2>7
<1>7. ASSUME NEW k \in 1..Len(file.chain), TakeOut(k) PROVE CommitInv'
  <2> DEFINE chain == file.chain
             n == Len(chain)
             before == SubSeq(chain, 1, k - 1)
             after == SubSeq(chain, k + 1, n)
  <2>1. /\ file' = Saved(RemoveAt(chain, k)) /\ k \in 1..(n - 1)
        /\ UNCHANGED <<loaded, written>>
    BY <1>7 DEF TakeOut
  <2>2. chain \in Seq(Records) /\ n \in Nat /\ \A i \in 1..n : chain[i] \in Records
    BY ElementOfSeq DEF ChainInv
  <2> HIDE DEF chain
  <2>3. before \in Seq(Records) /\ Len(before) = k - 1
    <3>1. \A i \in 1..(k - 1) : chain[i] \in Records
      BY <2>1, <2>2
    <3>2. QED
      BY <2>1, <3>1, SubSeqProperties
  <2>4. after \in Seq(Records) /\ Len(after) = n - k /\ after[n - k] = chain[n]
    <3>1. \A i \in (k + 1)..n : chain[i] \in Records
      BY <2>1, <2>2
    <3>2. /\ after \in Seq(Records) /\ Len(after) = (IF k + 1 <= n THEN n - (k + 1) + 1 ELSE 0)
          /\ \A i \in 1..(n - (k + 1) + 1) : after[i] = chain[k + 1 + i - 1]
      BY <2>1, <2>2, <3>1, SubSeqProperties
    <3>3. QED
      BY <2>1, <2>2, <3>2
  <2> HIDE DEF before, after
  <2>5. LastHash(before \o after) = chain[n].hash
    <3> DEFINE rest == before \o after
    <3>1. /\ Len(rest) = Len(before) + Len(after)
          /\ \A i \in 1..(Len(before) + Len(after)) :
               rest[i] = IF i <= Len(before) THEN before[i] ELSE after[i - Len(before)]
      BY <2>3, <2>4, ConcatProperties
    <3> HIDE DEF rest
    <3>2. /\ Len(rest) = n - 1 /\ n - 1 \in 1..(Len(before) + Len(after))
          /\ ~ (n - 1 <= Len(before)) /\ (n - 1) - Len(before) = n - k
      BY <2>1, <2>2, <2>3, <2>4, <3>1, SMTT(30)
    <3>3. rest[n - 1] = chain[n] /\ rest # << >>
      <4>1. rest[n - 1] = after[(n - 1) - Len(before)]
        BY <3>1, <3>2
      <4>2. Len(rest) # 0
        BY <2>1, <3>2
      <4>3. QED
        BY <2>4, <3>2, <4>1, <4>2
    <3>4. QED
      BY <3>2, <3>3 DEF LastHash, rest
  <2>6. LastHash(chain) = chain[n].hash
    <3>1. chain # << >>
      BY <2>1, <2>2
    <3>2. QED
      BY <3>1 DEF LastHash
  <2>7. LastHash(file.chain)' = LastHash(file.chain)
    BY <2>1, <2>5, <2>6 DEF Saved, RemoveAt, chain, before, after
  <2>8. QED
    BY <1>a, <2>1, <2>7
<1>8. CASE UNCHANGED vars
  BY <1>8, <1>a DEF vars
<1>9. QED
  BY <1>1, <1>2, <1>3, <1>f, <1>4, <1>5, <1>6, <1>7, <1>8 DEF Next, Step

\* What verify_audit_log_integrity accepts holds as a chain.
LEMMA ValidHolds ==
  ASSUME NEW chain \in Seq(Records), Broken(chain) = {}
  PROVE  Holds(chain)
  BY LinkBefore DEF Holds, Broken

\* A log that verifies holds, record by record, what runs wrote, however it was
\* edited before its last record and whatever was appended since, as long as no
\* two runs filled the file at the same time.
THEOREM EditsAreShown == Spec => []EditsShow
<1>1. ChainInv /\ CommitInv => EditsShow
  <2> SUFFICES ASSUME ChainInv, CommitInv, shared = {}, Valid(file), NEW k \in 1..Len(file.chain)
               PROVE  file.chain[k] \in written
    BY DEF EditsShow, ToSet, ChainInv
  <2>1. file.chain \in Seq(Records) /\ Holds(file.chain)
    BY ValidHolds DEF Valid, ChainInv
  <2>2. k \in 1..Len(LastHash(file.chain)) /\ file.chain[k] = Record(LastHash(file.chain), k)
    BY <2>1, HoldsCommits
  <2>3. QED
    BY <2>2 DEF CommitInv, Committed
<1>2. ChainInv /\ CommitInv /\ [Next]_vars => (ChainInv /\ CommitInv)'
  BY StepHolds, StepCommits
<1>3. Init => ChainInv /\ CommitInv
  BY InitHolds, InitCommits
<1>4. QED
  BY <1>1, <1>2, <1>3, PTL DEF Spec

-----------------------------------------------------------------------------
(* Runs in turn                                                            *)

LEMMA InitQuiet == Init => QuietInv
  BY DEF Init, NoTip, Under, QuietInv, Alone, LoadedIsFile, LoadedHasAll, FileHasAll

\* What is in a chain stays in it when records are appended, and the last hash
\* of a chain is in it.
LEMMA InLonger ==
  ASSUME NEW chain \in Seq(Records), NEW new \in Seq(Records)
  PROVE  /\ \A h : In(h, chain) => In(h, chain \o new)
         /\ In(LastHash(chain), chain)
<1>1. Len(chain) \in Nat /\ Len(new) \in Nat
  OBVIOUS
<1>2. ASSUME NEW i \in 1..Len(chain)
      PROVE  i \in 1..Len(chain \o new) /\ (chain \o new)[i] = chain[i]
  <2>1. i \in 1..(Len(chain) + Len(new)) /\ i <= Len(chain)
    BY <1>1
  <2>2. QED
    BY <2>1, ConcatProperties
<1>3. \A h : In(h, chain) => In(h, chain \o new)
  BY <1>2 DEF In
<1>4. In(LastHash(chain), chain)
  <2>1. CASE chain = << >>
    BY <2>1 DEF LastHash, In
  <2>2. CASE chain # << >>
    <3>1. Len(chain) \in 1..Len(chain)
      BY <2>2, EmptySeq
    <3>2. QED
      BY <2>2, <3>1 DEF LastHash, In
  <2>3. QED
    BY <2>1, <2>2
<1>5. QED
  BY <1>3, <1>4

LEMMA StepQuiet == ChainInv /\ TypeOK /\ QuietInv /\ [Next]_vars => QuietInv'
<1> SUFFICES ASSUME ChainInv, TypeOK, QuietInv, [Next]_vars, ~ disturbed', edits' = 0
             PROVE  (shared = {} /\ Alone /\ LoadedIsFile /\ LoadedHasAll /\ FileHasAll)'
  BY DEF QuietInv
<1>p. ASSUME NEW r \in Runs, NEW where, Goto(r, where)
      PROVE  pc'[r] = where /\ \A q \in Runs : q # r => pc'[q] = pc[q]
  BY <1>p DEF Goto, TypeOK
<1>q. ASSUME ~ disturbed, edits = 0
      PROVE  shared = {} /\ Alone /\ LoadedIsFile /\ LoadedHasAll /\ FileHasAll
  BY <1>q DEF QuietInv
<1>1. ASSUME NEW r \in Runs, NEW n \in 0..MaxBatch, NEW bodies \in [1..n -> Bodies],
             Reverified(r, bodies)
      PROVE  (Alone /\ LoadedIsFile /\ LoadedHasAll /\ FileHasAll)'
  <2>1. ~ disturbed /\ edits = 0 /\ \A q \in Runs : pc[q] \notin Under
    BY <1>1 DEF Reverified, TypeOK
  <2>2. pc'[r] = "load" /\ \A q \in Runs : q # r => pc'[q] = pc[q]
    BY <1>1, <1>p DEF Reverified
  <2>3. Alone'
    BY <2>1, <2>2 DEF Alone
  <2>4. LoadedIsFile' /\ LoadedHasAll'
    BY <2>1, <2>2 DEF LoadedIsFile, LoadedHasAll, Under
  <2>5. FileHasAll'
    <3>1. \A q \in Runs : tip[q].said => Kept(q)
      BY <1>q, <2>1 DEF FileHasAll, Under
    <3>2. QED
      BY <1>1, <3>1 DEF Reverified, FileHasAll, Kept
  <2>6. QED
    BY <2>3, <2>4, <2>5
<1>2. ASSUME NEW r \in Runs, Load(r)
      PROVE  (Alone /\ LoadedIsFile /\ LoadedHasAll /\ FileHasAll)'
  <2>1. /\ ~ disturbed /\ edits = 0 /\ pc[r] = "load"
        /\ loaded' = [loaded EXCEPT ![r] = file.chain] /\ UNCHANGED <<file, tip>>
    BY <1>2 DEF Load
  <2>2. pc'[r] = "open" /\ \A q \in Runs : q # r => pc'[q] = pc[q]
    BY <1>2, <1>p DEF Load
  <2>3. \A q \in Runs : q # r => pc[q] \notin Under
    BY <1>q, <2>1 DEF Alone, Under
  <2>4. loaded'[r] = file.chain
    BY <2>1 DEF ChainInv
  <2>5. Alone'
    BY <2>2, <2>3 DEF Alone
  <2>6. LoadedIsFile' /\ LoadedHasAll'
    BY <2>1, <2>2, <2>3, <2>4 DEF LoadedIsFile, LoadedHasAll, Under
  <2>7. FileHasAll'
    <3>1. \A q \in Runs : tip[q].said => Kept(q)
      BY <1>q, <2>1, <2>3 DEF FileHasAll, Under
    <3>2. QED
      BY <2>1, <3>1 DEF FileHasAll, Kept
  <2>8. QED
    BY <2>5, <2>6, <2>7
<1>3. ASSUME NEW r \in Runs, Open(r)
      PROVE  (Alone /\ LoadedIsFile /\ LoadedHasAll /\ FileHasAll)'
  <2>1. /\ ~ disturbed /\ edits = 0 /\ pc[r] = "open"
        /\ file' = Torn /\ UNCHANGED <<loaded, tip>>
    BY <1>3 DEF Open
  <2>2. pc'[r] = "write" /\ \A q \in Runs : q # r => pc'[q] = pc[q]
    BY <1>3, <1>p DEF Open
  <2>3. \A q \in Runs : q # r => pc[q] \notin Under
    BY <1>q, <2>1 DEF Alone, Under
  <2>4. \A q \in Runs : tip[q].said => In(tip[q].hash, loaded[r])
    <3>1. loaded[r] = file.chain /\ \A q \in Runs : tip[q].said => Kept(q)
      BY <1>q, <2>1, <2>3 DEF LoadedIsFile, FileHasAll, Under
    <3>2. QED
      BY <3>1 DEF Kept, In
  <2>5. Alone'
    BY <2>2, <2>3 DEF Alone
  <2>6. LoadedIsFile'
    BY <2>2, <2>3 DEF LoadedIsFile, Under
  <2>7. LoadedHasAll'
    <3>1. file'.state = "torn" /\ \A q \in Runs : q # r => pc'[q] # "write"
      BY <2>1, <2>2, <2>3 DEF Torn, Under
    <3>2. QED
      BY <2>1, <2>4, <3>1 DEF LoadedHasAll, In
  <2>8. FileHasAll'
    BY <2>2 DEF FileHasAll
  <2>9. QED
    BY <2>5, <2>6, <2>7, <2>8
<1>f. ASSUME NEW r \in Runs, Flush(r) PROVE FALSE
  BY <1>f, <1>q DEF Flush, Jumbled
<1>4. ASSUME NEW r \in Runs, Write(r)
      PROVE  (Alone /\ LoadedIsFile /\ LoadedHasAll /\ FileHasAll)'
  <2> DEFINE new == New(r)
             chain == loaded[r] \o new
  <2>1. /\ ~ disturbed /\ edits = 0 /\ pc[r] = "write"
        /\ file' = Saved(chain)
        /\ tip' = [tip EXCEPT ![r] = [said |-> TRUE, hash |-> LastHash(chain)]]
    BY <1>4, <1>q DEF Write, Jumbled, Text
  <2>2. pc'[r] = "done" /\ \A q \in Runs : q # r => pc'[q] = pc[q]
    BY <1>4, <1>p DEF Write
  <2>3. \A q \in Runs : pc'[q] \notin Under
    BY <1>q, <2>1, <2>2 DEF Alone, Under
  <2>4. loaded[r] \in Seq(Records) /\ new \in Seq(Records) /\ chain \in Seq(Records)
    BY TextTypes DEF Text
  <2> HIDE DEF new
  <2>5. file' = Saved(chain) /\ \A q \in Runs : tip[q].said => In(tip[q].hash, chain)
    <3>1. file.state = "torn" /\ \A q \in Runs : tip[q].said => In(tip[q].hash, loaded[r])
      BY <1>q, <2>1 DEF LoadedHasAll
    <3>2. QED
      BY <2>1, <2>4, <3>1, InLonger
  <2>6. In(LastHash(chain), chain)
    BY <2>4, InLonger
  <2> HIDE DEF chain
  <2>7. \A q \in Runs : tip'[q].said => In(tip'[q].hash, chain)
    <3>1. tip'[r].hash = LastHash(chain) /\ \A q \in Runs : q # r => tip'[q] = tip[q]
      BY <2>1 DEF TypeOK
    <3>2. QED
      BY <2>5, <2>6, <3>1
  <2>8. Alone' /\ LoadedIsFile' /\ LoadedHasAll'
    BY <2>3 DEF Alone, LoadedIsFile, LoadedHasAll, Under
  <2>9. FileHasAll'
    <3>1. file'.chain = chain
      BY <2>5 DEF Saved
    <3>2. \A q \in Runs : tip'[q].said => Kept(q)'
      BY <2>7, <3>1 DEF Kept, In
    <3>3. QED
      BY <3>2 DEF FileHasAll
  <2>10. QED
    BY <2>8, <2>9
<1>5. ASSUME NEW r \in Runs, Die(r)
      PROVE  (Alone /\ LoadedIsFile /\ LoadedHasAll /\ FileHasAll)'
  <2>1. ~ disturbed /\ edits = 0 /\ pc[r] # "write" /\ UNCHANGED <<file, loaded, tip>>
    BY <1>5 DEF Die, TypeOK
  <2>2. pc'[r] = "died" /\ \A q \in Runs : q # r => pc'[q] = pc[q]
    BY <1>5, <1>p DEF Die
  <2>3. Alone' /\ LoadedIsFile'
    BY <1>q, <2>1, <2>2 DEF Alone, LoadedIsFile, Under
  <2>4. LoadedHasAll'
    BY <1>q, <2>1, <2>2 DEF LoadedHasAll, In
  <2>5. FileHasAll'
    BY <1>q, <2>1, <2>2 DEF FileHasAll, Kept
  <2>6. QED
    BY <2>3, <2>4, <2>5
<1>6. ASSUME NEW k \in 1..Len(file.chain), NEW body \in Bodies, NEW relink \in BOOLEAN,
             NEW rehash \in BOOLEAN, Edit(k, body, relink, rehash)
      PROVE  FALSE
  BY <1>6 DEF Edit, TypeOK
<1>7. ASSUME NEW k \in 1..Len(file.chain), TakeOut(k) PROVE FALSE
  BY <1>7 DEF TakeOut, TypeOK
<1>8. CASE UNCHANGED vars
  BY <1>8, <1>q DEF vars, Alone, LoadedIsFile, LoadedHasAll, FileHasAll, Kept, In
<1>9. (Alone /\ LoadedIsFile /\ LoadedHasAll /\ FileHasAll)'
  BY <1>1, <1>2, <1>3, <1>f, <1>4, <1>5, <1>6, <1>7, <1>8 DEF Next, Step
<1>10. shared' = {}
  <2>1. ASSUME NEW r \in Runs, Open(r) PROVE shared' = {}
    <3>1. pc[r] = "open" /\ ~ disturbed /\ edits = 0
      BY <2>1 DEF Open
    <3>2. shared = {} /\ Writing = {}
      BY <1>q, <3>1 DEF Alone, Under, Writing
    <3>3. QED
      BY <2>1, <3>2 DEF Open
  <2>2. ASSUME NEW r \in Runs, Load(r) \/ Write(r) PROVE shared' = {}
    BY <1>q, <2>2 DEF Load, Write
  <2>3. ASSUME NEW r \in Runs, NEW bodies, Reverified(r, bodies) \/ Die(r) PROVE shared' = {}
    BY <1>q, <2>3 DEF Reverified, Die, TypeOK
  <2>4. CASE UNCHANGED vars
    BY <1>q, <2>4 DEF vars
  <2>5. QED
    BY <1>f, <1>6, <1>7, <2>1, <2>2, <2>3, <2>4 DEF Next, Step
<1>11. QED
  BY <1>9, <1>10

\* Runs that do not overlap and do not die while they rewrite the file lose
\* nothing: whoever said it appended to the log is in it.
THEOREM QuietLogs == Spec => []QuietLogIsComplete
<1>1. QuietInv => QuietLogIsComplete
  BY DEF QuietInv, FileHasAll, QuietLogIsComplete
<1>2. ChainInv /\ TypeOK /\ QuietInv /\ [Next]_vars => (ChainInv /\ TypeOK /\ QuietInv)'
  BY StepHolds, StepTypes, StepQuiet
<1>3. Init => ChainInv /\ TypeOK /\ QuietInv
  BY InitHolds, InitTypes, InitQuiet
<1>4. QED
  BY <1>1, <1>2, <1>3, PTL DEF Spec

-----------------------------------------------------------------------------
(* A file of targets                                                       *)

Places == {"queued", "inside", "leaving", "left", "done", "collected"}
Outcomes == {"pass", "findings", "unwritten", "failure", "raised", "interrupted"}
Hosts == {host[t] : t \in Targets}

TargetsTypes ==
  /\ phase \in [Targets -> Places]
  /\ ended \in [Targets -> Outcomes \union {"not yet"}]
  /\ report \in [Hosts -> Targets \union {0}]
  /\ main \in {"running", "failing", "ended"}
  /\ workers \in Nat \ {0}
  /\ worst \in Nat /\ exit \in Nat

\* A command has an outcome once it is over, and not before.
EndedInv == \A t \in Targets : ended[t] = "not yet" <=> phase[t] \in {"queued", "inside"}

\* A report is never taken away, and stands under the host it is about, from
\* a target that has written it.
ReportsInv ==
  /\ \A h \in Hosts : report[h] # 0 =>
       host[report[h]] = h /\ ended[report[h]] \in Reports \union MayReport
  /\ \A t \in Targets : ended[t] \in Reports => report[host[t]] # 0

\* While main is not failing, the worst exit covers all it has collected.
WorstInv ==
  main = "running" => \A t \in Targets : phase[t] = "collected" =>
    ended[t] # "raised" /\ ExitCode[ended[t]] <= worst

\* What the exit code says of the targets, and what the pool has waited for.
ExitInv ==
  main = "ended" =>
    /\ exit = 0 => \A t \in Targets : phase[t] = "collected" /\ ended[t] = "pass"
    /\ Pooled => \A t \in Targets : phase[t] \in {"done", "collected"}

TargetsInv == TargetsTypes /\ EndedInv /\ ReportsInv /\ WorstInv /\ ExitInv

\* The pool as a batch of tasks, as for the scheduler (module Batch): nothing
\* makes it skip one.
TargetFate(t) ==
  CASE phase[t] = "queued" -> "waiting"
    [] phase[t] \in {"inside", "leaving", "left"} -> "running"
    [] phase[t] \in {"done", "collected"} -> "ran"

TargetFates == [t \in Targets |-> TargetFate(t)]

Pool == INSTANCE Batch WITH
  Tasks <- Targets, ceiling <- workers, fate <- TargetFates,
  gone <- FALSE, returned <- Pooled /\ main = "ended"

-----------------------------------------------------------------------------
LEMMA TargetsAreNumbers == N \in Nat /\ 0 \notin Targets
  BY MultiTargetAssumption DEF Targets

LEMMA InitTargets == TargetsInit => TargetsInv
<1> SUFFICES ASSUME TargetsInit PROVE TargetsInv
  OBVIOUS
<1>1. workers \in Nat \ {0}
  BY MultiTargetAssumption DEF TargetsInit
<1>2. TargetsTypes
  <2>1. report = [h \in Hosts |-> 0]
    BY DEF TargetsInit, Hosts
  <2>2. report \in [Hosts -> Targets \union {0}]
    BY <2>1
  <2>3. /\ phase = [t \in Targets |-> "queued"] /\ ended = [t \in Targets |-> "not yet"]
        /\ main = "running" /\ worst = 0 /\ exit = 0
    BY DEF TargetsInit
  <2>4. phase \in [Targets -> Places] /\ ended \in [Targets -> Outcomes \union {"not yet"}]
    BY <2>3 DEF Places
  <2>5. main \in {"running", "failing", "ended"} /\ worst \in Nat /\ exit \in Nat
    <3>1. main = "running" /\ worst = 0 /\ exit = 0
      BY <2>3
    <3>2. 0 \in Nat
      OBVIOUS
    <3>3. QED
      BY <3>1, <3>2, Zenon
  <2>6. QED
    BY <1>1, <2>2, <2>4, <2>5 DEF TargetsTypes
<1>3. EndedInv /\ ReportsInv
  BY DEF TargetsInit, EndedInv, ReportsInv, Reports, Hosts
<1>4. WorstInv /\ ExitInv
  BY DEF TargetsInit, WorstInv, ExitInv
<1>5. QED
  BY <1>2, <1>3, <1>4 DEF TargetsInv

LEMMA SameHosts ==
  ASSUME UNCHANGED host
  PROVE  Hosts' = Hosts
  BY DEF Hosts

\* A command's step moves its target and no other, and lets main be.
LEMMA OwnPhase ==
  ASSUME TargetsTypes, NEW t \in Targets, NEW where \in Places, Move(t, where)
  PROVE  /\ phase' \in [Targets -> Places]
         /\ phase'[t] = where /\ \A u \in Targets : u # t => phase'[u] = phase[u]
  BY DEF TargetsTypes, Move

\* While a command is under way main has not left the pool, and its exit code
\* is not 0.
LEMMA StillRunning ==
  ASSUME TargetsInv, NEW t \in Targets, phase[t] \notin {"done", "collected"}, main = "ended"
  PROVE  exit # 0 /\ ~ Pooled
  BY DEF TargetsInv, ExitInv

LEMMA StepTargets == TargetsInv /\ [TargetsNext]_targetsVars => TargetsInv'
<1> SUFFICES ASSUME TargetsInv, [TargetsNext]_targetsVars PROVE TargetsInv'
  OBVIOUS
<1> USE DEF TargetsInv
<1>a. ASSUME NEW t \in Targets, NEW where \in Places \ {"queued", "inside", "collected"},
             phase[t] \notin {"queued", "inside", "done", "collected"}, Move(t, where),
             UNCHANGED <<host, workers, main, ended, report, worst, exit>>
      PROVE  TargetsInv'
  <2>1. /\ phase' \in [Targets -> Places]
        /\ phase'[t] = where /\ \A u \in Targets : u # t => phase'[u] = phase[u]
    BY <1>a, OwnPhase
  <2>2. TargetsTypes' /\ ReportsInv'
    BY <1>a, <2>1, SameHosts DEF TargetsTypes, ReportsInv
  <2>3. EndedInv'
    BY <1>a, <2>1 DEF EndedInv
  <2>4. WorstInv'
    BY <1>a, <2>1 DEF WorstInv
  <2>5. ExitInv'
    BY <1>a, StillRunning DEF ExitInv, Pooled
  <2>6. QED
    BY <2>2, <2>3, <2>4, <2>5
<1>1. ASSUME NEW t \in Targets, Enter(t) PROVE TargetsInv'
  <2>1. /\ phase' \in [Targets -> Places]
        /\ phase'[t] = "inside" /\ \A u \in Targets : u # t => phase'[u] = phase[u]
    BY <1>1, OwnPhase DEF Enter, Places
  <2>2. phase[t] = "queued" /\ UNCHANGED <<host, workers, main, ended, report, worst, exit>>
    BY <1>1 DEF Enter
  <2>3. TargetsTypes' /\ ReportsInv'
    BY <2>1, <2>2, SameHosts DEF TargetsTypes, ReportsInv
  <2>4. EndedInv'
    BY <2>1, <2>2 DEF EndedInv
  <2>5. WorstInv'
    BY <2>1, <2>2 DEF WorstInv
  <2>6. ExitInv'
    BY <2>2, StillRunning DEF ExitInv, Pooled
  <2>7. QED
    BY <2>3, <2>4, <2>5, <2>6
<1>2. ASSUME NEW t \in Targets, PrintLine(t) PROVE TargetsInv'
  BY <1>2, SameHosts DEF PrintLine, TargetsTypes, EndedInv, ReportsInv, WorstInv, ExitInv, Pooled
<1>3. ASSUME NEW t \in Targets, End(t) PROVE TargetsInv'
  <2>1. PICK how \in Endings(t) :
          /\ ended' = [ended EXCEPT ![t] = how]
          /\ \/ how \in Reports \union MayReport /\ report' = [report EXCEPT ![host[t]] = t]
             \/ how \notin Reports /\ UNCHANGED report
    BY <1>3 DEF End
  <2>2. how \in Outcomes
    BY DEF Endings, Outcomes
  <2>3. /\ phase[t] = "inside" /\ UNCHANGED <<host, workers, main, worst, exit>>
        /\ Move(t, "leaving")
    BY <1>3 DEF End
  <2>4. /\ phase' \in [Targets -> Places]
        /\ phase'[t] = "leaving" /\ \A u \in Targets : u # t => phase'[u] = phase[u]
    BY <2>3, OwnPhase DEF Places
  <2>5. /\ ended' \in [Targets -> Outcomes \union {"not yet"}]
        /\ ended'[t] = how /\ \A u \in Targets : u # t => ended'[u] = ended[u]
    BY <2>1, <2>2 DEF TargetsTypes
  <2>6. host[t] \in Hosts /\ Hosts' = Hosts /\ report \in [Hosts -> Targets \union {0}]
    BY <2>3 DEF Hosts, TargetsTypes
  <2>7. report' \in [Hosts -> Targets \union {0}]
    BY <2>1, <2>6
  <2>8. \A h \in Hosts : report'[h] = report[h] \/ (how \in Reports \union MayReport /\ h = host[t] /\ report'[h] = t)
    BY <2>1, <2>6
  <2>9. how \in Reports => report'[host[t]] = t
    BY <2>1, <2>6
  <2>10. TargetsTypes'
    BY <2>3, <2>4, <2>5, <2>6, <2>7 DEF TargetsTypes
  <2>11. ReportsInv'
    <3>1. ASSUME NEW h \in Hosts, report'[h] # 0
          PROVE  host[report'[h]] = h /\ ended'[report'[h]] \in Reports \union MayReport
      <4>1. CASE how \in Reports \union MayReport /\ h = host[t] /\ report'[h] = t
        BY <2>5, <4>1
      <4>2. CASE report'[h] = report[h]
        <5>1. /\ report[h] \in Targets /\ host[report[h]] = h
              /\ ended[report[h]] \in Reports \union MayReport
          BY <2>6, <3>1, <4>2 DEF ReportsInv
        <5>2. ended[t] = "not yet"
          BY <2>3 DEF EndedInv
        <5>3. report[h] # t
          BY <5>1, <5>2 DEF Reports, MayReport
        <5>4. QED
          BY <2>5, <4>2, <5>1, <5>3
      <4>3. QED
        BY <2>8, <4>1, <4>2
    <3>2. \A u \in Targets : host[u] \in Hosts
      BY DEF Hosts
    <3>3. ASSUME NEW u \in Targets, ended'[u] \in Reports PROVE report'[host[u]] # 0
      <4>1. CASE u = t
        BY <2>5, <2>9, <3>3, <4>1, TargetsAreNumbers
      <4>2. CASE u # t
        BY <2>5, <2>8, <3>2, <3>3, <4>2, TargetsAreNumbers DEF ReportsInv
      <4>3. QED
        BY <4>1, <4>2
    <3>4. QED
      BY <2>3, <2>6, <3>1, <3>3 DEF ReportsInv
  <2>12. EndedInv'
    BY <2>2, <2>4, <2>5 DEF EndedInv, Outcomes
  <2>13. WorstInv'
    BY <2>3, <2>4, <2>5 DEF WorstInv
  <2>14. ExitInv'
    BY <2>3, StillRunning DEF ExitInv, Pooled
  <2>15. QED
    BY <2>10, <2>11, <2>12, <2>13, <2>14
<1>4. ASSUME NEW t \in Targets, Leave(t) PROVE TargetsInv'
  BY <1>4, <1>a DEF Leave, Places
<1>5. ASSUME NEW t \in Targets, Return(t) PROVE TargetsInv'
  BY <1>5, <1>a DEF Return, Places
<1>6. ASSUME NEW t \in Targets, Collect(t) PROVE TargetsInv'
  <2>1. /\ phase' \in [Targets -> Places]
        /\ phase'[t] = "collected" /\ \A u \in Targets : u # t => phase'[u] = phase[u]
    BY <1>6, OwnPhase DEF Collect, Places
  <2>2. /\ main = "running" /\ phase[t] = "done" /\ UNCHANGED <<host, workers, ended, report, exit>>
        /\ \/ ended[t] = "raised" /\ main' = "failing" /\ UNCHANGED worst
           \/ /\ ended[t] # "raised" /\ UNCHANGED main
              /\ worst' = Bigger(worst, ExitCode[ended[t]])
    BY <1>6 DEF Collect
  <2>3. ended[t] \in Outcomes
    BY <2>2 DEF EndedInv, TargetsTypes
  <2>4. \A how \in Outcomes \ {"raised"} : ExitCode[how] \in Nat
    BY DEF ExitCode, Outcomes
  <2>5. /\ worst' \in Nat /\ worst <= worst'
        /\ main' = "running" => ended[t] # "raised" /\ ExitCode[ended[t]] <= worst'
    <3>1. worst \in Nat
      BY DEF TargetsTypes
    <3>2. CASE ended[t] = "raised" /\ main' = "failing" /\ UNCHANGED worst
      BY <3>1, <3>2
    <3>3. CASE ended[t] # "raised" /\ worst' = Bigger(worst, ExitCode[ended[t]])
      <4>1. ExitCode[ended[t]] \in Nat
        BY <2>3, <2>4, <3>3
      <4>2. QED
        BY <3>1, <3>3, <4>1 DEF Bigger
    <3>4. QED
      BY <2>2, <3>2, <3>3
  <2>6. TargetsTypes' /\ ReportsInv'
    BY <2>1, <2>2, <2>5, SameHosts DEF TargetsTypes, ReportsInv
  <2>7. EndedInv'
    BY <2>1, <2>2 DEF EndedInv
  <2>8. WorstInv'
    <3> SUFFICES ASSUME main' = "running", NEW u \in Targets, phase'[u] = "collected"
                 PROVE  ended'[u] # "raised" /\ ExitCode[ended'[u]] <= worst'
      BY DEF WorstInv
    <3>1. CASE u = t
      BY <2>2, <2>5, <3>1
    <3>2. CASE u # t
      <4>1. ended[u] # "raised" /\ ExitCode[ended[u]] <= worst /\ ended[u] \in Outcomes
        BY <2>1, <2>2, <3>2 DEF WorstInv, EndedInv, TargetsTypes
      <4>2. ExitCode[ended[u]] \in Nat /\ worst \in Nat
        BY <2>4, <4>1 DEF TargetsTypes
      <4>3. QED
        BY <2>2, <2>5, <4>1, <4>2
    <3>3. QED
      BY <3>1, <3>2
  <2>9. ExitInv'
    BY <2>2 DEF ExitInv
  <2>10. QED
    BY <2>6, <2>7, <2>8, <2>9
<1>7. CASE Fail
  <2>1. /\ Settled /\ main' = "ended" /\ exit' = 1
        /\ UNCHANGED <<host, workers, phase, ended, report, worst>>
    BY <1>7 DEF Fail
  <2>2. EndedInv' /\ ReportsInv' /\ WorstInv'
    BY <2>1, SameHosts DEF EndedInv, ReportsInv, WorstInv
  <2>3. TargetsTypes'
    <3>1. main' \in {"running", "failing", "ended"} /\ exit' \in Nat
      BY <2>1
    <3>2. QED
      BY <2>1, <3>1, SameHosts DEF TargetsTypes
  <2>4. ExitInv'
    BY <2>1 DEF ExitInv, Pooled, Settled
  <2>5. QED
    BY <2>2, <2>3, <2>4
<1>8. CASE Finish
  <2>1. /\ main = "running" /\ Finished /\ main' = "ended" /\ exit' = worst
        /\ UNCHANGED <<host, workers, phase, ended, report, worst>>
    BY <1>8 DEF Finish
  <2>2. TargetsTypes' /\ EndedInv' /\ ReportsInv' /\ WorstInv'
    BY <2>1, SameHosts DEF TargetsTypes, EndedInv, ReportsInv, WorstInv
  <2>3. ASSUME worst = 0, NEW t \in Targets PROVE ended[t] = "pass"
    <3>1. ended[t] \in Outcomes \ {"raised"} /\ ExitCode[ended[t]] <= 0
      BY <2>1, <2>3 DEF Finished, WorstInv, EndedInv, TargetsTypes
    <3>2. QED
      BY <3>1 DEF Outcomes, ExitCode
  <2>4. ExitInv'
    BY <2>1, <2>3 DEF ExitInv, Finished
  <2>5. QED
    BY <2>2, <2>4
<1>9. CASE UNCHANGED targetsVars
  BY <1>9, SameHosts DEF targetsVars, TargetsTypes, EndedInv, ReportsInv, WorstInv, ExitInv, Pooled
<1>10. QED
  BY <1>1, <1>2, <1>3, <1>4, <1>5, <1>6, <1>7, <1>8, <1>9 DEF TargetsNext, Command

LEMMA TargetsInvariance == TargetsSpec => []TargetsInv
  BY InitTargets, StepTargets, PTL DEF TargetsSpec

\* For a file of any length and any number of threads: exit code 0 means that
\* every target passed and that there is a report of its host.
THEOREM PassesOfAll == TargetsSpec => []PassMeansAllPassed
<1>1. TargetsInv => PassMeansAllPassed
  <2> SUFFICES ASSUME TargetsInv, main = "ended", exit = 0, NEW t \in Targets
               PROVE  ended[t] = "pass" /\ host[report[host[t]]] = host[t]
    BY DEF PassMeansAllPassed
  <2>1. ended[t] = "pass"
    BY DEF TargetsInv, ExitInv
  <2>2. report[host[t]] # 0 /\ host[t] \in Hosts
    BY <2>1 DEF TargetsInv, ReportsInv, Reports, Hosts
  <2>3. QED
    BY <2>1, <2>2 DEF TargetsInv, ReportsInv
<1>2. QED
  BY <1>1, TargetsInvariance, PTL

\* ... and in the pool a target that raises takes no other down with it: what
\* another reported is in its file, or a later report on the same host is.
THEOREM FailuresAreLocal == TargetsSpec => []FailureIsLocal
<1>1. TargetsInv => FailureIsLocal
  <2> SUFFICES ASSUME TargetsInv, Pooled, main = "ended", NEW t \in Targets
               PROVE  ended[t] # "not yet" /\ (ended[t] \in Reports => InItsFile(t))
    BY DEF FailureIsLocal
  <2>1. phase[t] \in {"done", "collected"}
    BY DEF TargetsInv, ExitInv
  <2>2. ASSUME ended[t] \in Reports PROVE InItsFile(t)
    <3>1. host[t] \in Hosts /\ report[host[t]] # 0
      BY <2>2 DEF TargetsInv, ReportsInv, Hosts
    <3>2. /\ report[host[t]] \in Targets /\ host[report[host[t]]] = host[t]
          /\ ended[report[host[t]]] \in Reports \union MayReport
      BY <3>1 DEF TargetsInv, TargetsTypes, ReportsInv
    <3>3. QED
      BY <3>2 DEF InItsFile
  <2>3. QED
    BY <2>1, <2>2 DEF TargetsInv, EndedInv
<1>2. QED
  BY <1>1, TargetsInvariance, PTL

-----------------------------------------------------------------------------
\* Only the target that moves changes its fate.
LEMMA OneTarget ==
  ASSUME TargetsTypes, NEW t \in Targets, NEW where \in Places, Move(t, where)
  PROVE  TargetFates' = [TargetFates EXCEPT ![t] = TargetFate(t)']
<1>1. \A u \in Targets : u # t => TargetFate(u)' = TargetFate(u)
  BY OwnPhase DEF TargetFate
<1>2. QED
  BY <1>1 DEF TargetFates

LEMMA SamePhases ==
  ASSUME UNCHANGED phase
  PROVE  TargetFates' = TargetFates
  BY DEF TargetFates, TargetFate

\* What the pool shows of a step: one of the batch, or nothing.
PoolStutter == UNCHANGED <<workers, TargetFates, Pooled /\ main = "ended">>

LEMMA StepOfPool ==
  ASSUME TargetsInv, TargetsNext
  PROVE  Pool!BatchNext \/ PoolStutter
<1> USE DEF TargetsInv
<1>a. ASSUME NEW t \in Targets, NEW where \in Places, Move(t, where),
             TargetFate(t)' = TargetFate(t), UNCHANGED <<workers, Pooled /\ main = "ended">>
      PROVE  PoolStutter
  <2>1. TargetFates' = TargetFates
    BY <1>a, OneTarget DEF TargetFates
  <2>2. QED
    BY <1>a, <2>1 DEF PoolStutter
<1>1. ASSUME NEW t \in Targets, Enter(t) PROVE Pool!BatchNext
  <2>1. /\ Move(t, "inside") /\ phase[t] = "queued" /\ Cardinality(Running) < workers
        /\ UNCHANGED <<workers, main>>
    BY <1>1 DEF Enter
  <2>2. TargetFate(t) = "waiting" /\ TargetFate(t)' = "running"
    BY <2>1, OwnPhase DEF TargetFate, Places
  <2>3. TargetFates[t] = "waiting" /\ TargetFates' = [TargetFates EXCEPT ![t] = "running"]
    BY <2>1, <2>2, OneTarget DEF TargetFates, Places
  <2>4. {u \in Targets : TargetFates[u] = "running"} = Running
    BY DEF TargetFates, TargetFate, Running, TargetsTypes, Places
  <2>5. UNCHANGED <<workers, FALSE, Pooled /\ main = "ended">>
    BY <2>1 DEF Pooled
  <2>6. Pool!Start(t)
    BY <2>1, <2>3, <2>4, <2>5, Zenon DEF Pool!Start, Pool!Cardinality, Cardinality
  <2>7. QED
    BY <2>6 DEF Pool!BatchNext
<1>2. ASSUME NEW t \in Targets, PrintLine(t) PROVE PoolStutter
  BY <1>2, SamePhases DEF PrintLine, PoolStutter, Pooled
<1>3. ASSUME NEW t \in Targets, End(t) PROVE PoolStutter
  <2>1. Move(t, "leaving") /\ phase[t] = "inside" /\ UNCHANGED <<workers, main>>
    BY <1>3 DEF End
  <2>2. TargetFate(t)' = TargetFate(t)
    BY <2>1, OwnPhase DEF TargetFate, Places
  <2>3. QED
    BY <1>a, <2>1, <2>2 DEF Places, Pooled
<1>4. ASSUME NEW t \in Targets, Leave(t) PROVE PoolStutter
  <2>1. Move(t, "left") /\ phase[t] = "leaving" /\ UNCHANGED <<workers, main>>
    BY <1>4 DEF Leave
  <2>2. TargetFate(t)' = TargetFate(t)
    BY <2>1, OwnPhase DEF TargetFate, Places
  <2>3. QED
    BY <1>a, <2>1, <2>2 DEF Places, Pooled
<1>5. ASSUME NEW t \in Targets, Return(t) PROVE Pool!BatchNext
  <2>1. Move(t, "done") /\ phase[t] = "left" /\ UNCHANGED <<workers, main>>
    BY <1>5 DEF Return
  <2>2. TargetFate(t) = "running" /\ TargetFate(t)' = "ran"
    BY <2>1, OwnPhase DEF TargetFate, Places
  <2>3. TargetFates[t] = "running" /\ TargetFates' = [TargetFates EXCEPT ![t] = "ran"]
    BY <2>1, <2>2, OneTarget DEF TargetFates, Places
  <2>4. UNCHANGED <<workers, FALSE, Pooled /\ main = "ended">>
    BY <2>1 DEF Pooled
  <2>5. Pool!Stop(t)
    BY <2>3, <2>4 DEF Pool!Stop
  <2>6. QED
    BY <2>5 DEF Pool!BatchNext
<1>6. ASSUME NEW t \in Targets, Collect(t) PROVE PoolStutter
  <2>1. /\ Move(t, "collected") /\ phase[t] = "done" /\ UNCHANGED workers
        /\ main = "running" /\ main' \in {"running", "failing"}
    BY <1>6 DEF Collect
  <2>2. TargetFate(t)' = TargetFate(t)
    BY <2>1, OwnPhase DEF TargetFate, Places
  <2>3. UNCHANGED <<workers, Pooled /\ main = "ended">>
    BY <2>1
  <2>4. QED
    BY <1>a, <2>1, <2>2, <2>3 DEF Places
<1>7. ASSUME Fail \/ Finish PROVE Pool!BatchNext \/ PoolStutter
  <2>1. /\ main \in {"running", "failing"} /\ main' = "ended" /\ UNCHANGED <<workers, phase>>
        /\ Pooled => \A t \in Targets : phase[t] \in {"done", "collected"}
    BY <1>7 DEF Fail, Finish, Settled, Finished
  <2>2. TargetFates' = TargetFates
    BY <2>1, SamePhases
  <2>3. CASE Pooled
    <3>1. \A t \in Targets : TargetFates[t] \in {"ran", "skipped"}
      BY <2>1, <2>3 DEF TargetFates, TargetFate
    <3>2. (Pooled /\ main = "ended")' = TRUE
      BY <2>1, <2>3 DEF Pooled
    <3>3. Pool!GiveBack
      BY <2>1, <2>2, <3>1, <3>2 DEF Pool!GiveBack
    <3>4. QED
      BY <3>3 DEF Pool!BatchNext
  <2>4. CASE ~ Pooled
    BY <2>1, <2>2, <2>4 DEF PoolStutter, Pooled
  <2>5. QED
    BY <2>3, <2>4
<1>8. QED
  BY <1>1, <1>2, <1>3, <1>4, <1>5, <1>6, <1>7 DEF TargetsNext, Command

\* The pool of threads is a batch of tasks: each target is run once, none is
\* skipped, never more of them at a time than --max-workers, and main ends only
\* after all of them.
THEOREM PoolIsBatch == TargetsSpec => Pool!BatchSpec
<1>1. TargetsInit => Pool!BatchInit
  <2> SUFFICES ASSUME TargetsInit PROVE Pool!BatchInit
    OBVIOUS
  <2>1. workers \in Nat \ {0}
    BY MultiTargetAssumption DEF TargetsInit
  <2>2. TargetFates = [t \in Targets |-> "waiting"]
    BY DEF TargetsInit, TargetFates, TargetFate
  <2>3. (Pooled /\ main = "ended") = FALSE
    BY DEF TargetsInit
  <2>4. QED
    BY <2>1, <2>2, <2>3 DEF Pool!BatchInit
<1>2. TargetsInv /\ [TargetsNext]_targetsVars => [Pool!BatchNext]_(Pool!batchVars)
  <2>1. ASSUME UNCHANGED targetsVars PROVE PoolStutter
    BY <2>1, SamePhases DEF targetsVars, PoolStutter, Pooled
  <2>2. PoolStutter => UNCHANGED Pool!batchVars
    BY DEF PoolStutter, Pool!batchVars
  <2>3. QED
    BY <2>1, <2>2, StepOfPool
<1>3. QED
  BY <1>1, <1>2, TargetsInvariance, PTL DEF TargetsSpec, Pool!BatchSpec
=============================================================================
