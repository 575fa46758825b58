-------------------------- MODULE ScanCommandProofs --------------------------
(***************************************************************************)
(* The exposure table for any set of findings, any number of commands and  *)
(* any death.  A command changes rows from what it read some steps before; *)
(* the invariant says when that reading still holds (commands in turn) and *)
(* what is left when it does not (commands side by side).                  *)
(***************************************************************************)
EXTENDS ScanCommand, TLAPS

TypeInv ==
  /\ pc \in [Runs -> Phases]
  /\ scan \in [Runs -> [status : ScanStatuses \union {"none"}, findings : SUBSET Ids]]
  /\ rows \in [Ids -> RowStatuses]
  /\ snapshot \in [Runs -> [Ids -> RowStatuses]]
  /\ overlapped \in BOOLEAN
  /\ history \in Seq(SUBSET Ids)

\* Commands in turn: when one is under way, all the others are over.
TurnInv ==
  ~ overlapped => \A p, q \in Runs : p # q /\ pc[p] \notin Over => pc[q] \in Over

\* ... and what it read is what the table holds until it commits.
SnapshotInv ==
  ~ overlapped => \A r \in Runs : pc[r] \in {"change", "commit"} => snapshot[r] = rows

IInv == TypeInv /\ TurnInv /\ SnapshotInv /\ RowsFollowScans /\ LastScanIsOpen

-----------------------------------------------------------------------------
\* One more committed scan moves a finding exactly as CommitHistory does.
LEMMA StatusStep ==
  ASSUME NEW scans \in Seq(SUBSET Ids), NEW found \in SUBSET Ids, NEW c \in Ids
  PROVE  /\ StatusAfter(scans, c) \in RowStatuses
         /\ StatusAfter(Append(scans, found), c) =
              IF c \in found THEN Found(StatusAfter(scans, c))
              ELSE IF StatusAfter(scans, c) \in Open THEN "resolved" ELSE StatusAfter(scans, c)
<1> DEFINE n == Len(scans)
           seen == SeenIn(scans, c)
           more == Append(scans, found)
           seenMore == SeenIn(more, c)
           before == StatusAfter(scans, c)
           after == StatusAfter(more, c)
<1>1. n \in Nat /\ Len(more) = n + 1 /\ more[n + 1] = found /\ \A i \in 1..n : more[i] = scans[i]
  OBVIOUS
<1>2. seen \subseteq 1..n /\ n + 1 \notin seen
  BY <1>1 DEF SeenIn
<1>3. seenMore = IF c \in found THEN seen \union {n + 1} ELSE seen
  <2>1. \A i : i \in seenMore <=> i \in 1..(n + 1) /\ c \in more[i]
    BY <1>1 DEF SeenIn
  <2>2. \A i : i \in 1..(n + 1) <=> i \in 1..n \/ i = n + 1
    BY <1>1
  <2>3. \A i : i \in seenMore <=> i \in seen \/ (i = n + 1 /\ c \in found)
    BY <1>1, <2>1, <2>2 DEF SeenIn
  <2>4. QED  BY <2>3
<1>4. /\ after = CASE seenMore = {} -> "absent"
                   [] n + 1 \in seenMore /\ seenMore = {n + 1} -> "new"
                   [] n + 1 \in seenMore /\ n \in seenMore -> "persistent"
                   [] n + 1 \in seenMore /\ seenMore # {n + 1} /\ n \notin seenMore -> "reintroduced"
                   [] seenMore # {} /\ n + 1 \notin seenMore -> "resolved"
  <2>1. (n + 1) - 1 = n
    BY <1>1
  <2>2. QED
    BY <1>1, <2>1 DEF StatusAfter
<1> HIDE DEF n, seen, more, seenMore, after
<1>5. before = CASE seen = {} -> "absent"
                 [] n \in seen /\ seen = {n} -> "new"
                 [] n \in seen /\ n - 1 \in seen -> "persistent"
                 [] n \in seen /\ seen # {n} /\ n - 1 \notin seen -> "reintroduced"
                 [] seen # {} /\ n \notin seen -> "resolved"
  BY DEF StatusAfter, n, seen
<1> HIDE DEF before
<1>6. n # n + 1 /\ n # n - 1
  BY <1>1
<1>7. CASE seen = {}
  BY <1>3, <1>4, <1>5, <1>6, <1>7 DEF Found, Open, RowStatuses, after, before, more
<1>8. CASE n \in seen
  <2>1. before \in Open
    BY <1>5, <1>6, <1>8 DEF Open
  <2>2. after = IF c \in found THEN "persistent" ELSE "resolved"
    BY <1>2, <1>3, <1>4, <1>6, <1>8
  <2>3. QED
    BY <2>1, <2>2 DEF Found, Open, RowStatuses, after, before, more
<1>9. CASE seen # {} /\ n \notin seen
  <2>1. before = "resolved"
    BY <1>5, <1>6, <1>9
  <2>2. after = IF c \in found THEN "reintroduced" ELSE "resolved"
    BY <1>2, <1>3, <1>4, <1>6, <1>9
  <2>3. QED
    BY <2>1, <2>2 DEF Found, Open, RowStatuses, after, before, more
<1>10. QED
  BY <1>7, <1>8, <1>9

-----------------------------------------------------------------------------
\* What a process that has ended leaves in its place has the right type.
LEMMA EmptyTypes ==
  /\ NoScan \in [status : ScanStatuses \union {"none"}, findings : SUBSET Ids]
  /\ Blank \in [Ids -> RowStatuses]
  BY DEF NoScan, Blank, RowStatuses

LEMMA InitHolds == Init => IInv
<1> SUFFICES ASSUME Init PROVE IInv
  OBVIOUS
<1>1. TypeInv
  <2>1. history \in Seq(SUBSET Ids)
    BY DEF Init
  <2>2. QED
    BY <2>1, EmptyTypes DEF Init, TypeInv, Phases, Over
<1>1a. TurnInv /\ SnapshotInv
  <2>1. \A r \in Runs : pc[r] = "idle"
    BY DEF Init
  <2>2. QED
    BY <2>1 DEF TurnInv, SnapshotInv, Over
<1>2. RowsFollowScans /\ LastScanIsOpen
  <2>1. \A c \in Ids : StatusAfter(<< >>, c) = "absent"
    <3>1. \A c \in Ids : SeenIn(<< >>, c) = {}
      BY DEF SeenIn
    <3>2. QED  BY <3>1 DEF StatusAfter
  <2>2. QED
    BY <2>1 DEF Init, Blank, RowsFollowScans, LastScanIsOpen
<1>3. QED
  BY <1>1, <1>1a, <1>2 DEF IInv

\* A step that leaves the table alone and does not enter its transaction.
LEMMA QuietStep ==
  ASSUME IInv, NEW r \in Runs, NEW where \in Phases \ {"change", "commit"},
         Goto(r, where), TypeInv',
         ~ overlapped' => ~ overlapped /\ (pc[r] \notin Over \/ \A q \in Runs : pc[q] \in Over),
         UNCHANGED <<rows, history>>,
         \A q \in Runs \ {r} : snapshot'[q] = snapshot[q]
  PROVE  IInv'
<1> USE DEF IInv
<1>1. TurnInv'
  BY DEF Goto, TypeInv, TurnInv
<1>2. SnapshotInv'
  BY DEF Goto, TypeInv, SnapshotInv
<1>3. RowsFollowScans' /\ LastScanIsOpen'
  BY DEF RowsFollowScans, LastScanIsOpen, TypeInv
<1>4. QED
  BY <1>1, <1>2, <1>3

LEMMA ReadHolds == ASSUME IInv, NEW r \in Runs, ReadHistory(r) PROVE IInv'
<1> USE DEF IInv, ReadHistory, persistent
<1>1. TypeInv'
  BY DEF Goto, TypeInv, Phases
<1>2. TurnInv'
  BY DEF Goto, TypeInv, TurnInv, Over
<1>3. SnapshotInv'
  BY DEF Goto, TypeInv, TurnInv, SnapshotInv, Over
<1>4. RowsFollowScans' /\ LastScanIsOpen'
  BY DEF RowsFollowScans, LastScanIsOpen
<1>5. QED
  BY <1>1, <1>2, <1>3, <1>4

LEMMA FoundIsOpen == ASSUME NEW s \in RowStatuses PROVE Found(s) \in Open
  BY DEF RowStatuses, Found, Open

LEMMA ChangeHolds == ASSUME IInv, NEW r \in Runs, ChangeHistory(r) PROVE IInv'
<1> USE DEF IInv, ChangeHistory
<1>1. TypeInv'
  BY DEF Goto, TypeInv, Phases
<1>2. TurnInv'
  BY DEF Goto, TypeInv, TurnInv, Over
<1>3. SnapshotInv'
  BY DEF Goto, TypeInv, SnapshotInv
<1>4. RowsFollowScans' /\ LastScanIsOpen'
  BY DEF RowsFollowScans, LastScanIsOpen
<1>5. QED
  BY <1>1, <1>2, <1>3, <1>4

LEMMA CommitHolds == ASSUME IInv, NEW r \in Runs, CommitHistory(r) PROVE IInv'
<1> USE DEF IInv
<1> DEFINE found == scan[r].findings
<1>1. /\ pc[r] = "commit" /\ Goto(r, "record")
      /\ UNCHANGED <<scan, snapshot, overlapped>>
      /\ found \in SUBSET Ids
      /\ history' = Append(history, found)
      /\ history' \in Seq(SUBSET Ids)
  BY DEF CommitHistory, TypeInv
<1>2. \A c \in Ids : rows'[c] = IF c \in found THEN Found(snapshot[r][c])
                                ELSE IF snapshot[r][c] \in Open THEN "resolved" ELSE rows[c]
  <2>1. \A c \in Ids : rows'[c] = IF c \in found \union Missed(r) THEN Claim(r)[c] ELSE rows[c]
    BY <1>1 DEF CommitHistory
  <2>2. QED
    BY <2>1 DEF Claim, Missed
<1>3. TypeInv'
  <2>1. Claim(r) \in [Ids -> RowStatuses]
    BY FoundIsOpen DEF Claim, TypeInv, RowStatuses
  <2>2. rows' \in [Ids -> RowStatuses]
    BY <2>1 DEF CommitHistory, TypeInv
  <2>3. QED
    BY <1>1, <2>2 DEF Goto, TypeInv, Phases
<1>4. TurnInv'
  BY <1>1 DEF Goto, TypeInv, TurnInv, Over
<1>5. SnapshotInv'
  BY <1>1 DEF Goto, TypeInv, TurnInv, SnapshotInv, Over
<1>5a. \A c \in Ids : StatusAfter(Append(history, found), c) =
          IF c \in found THEN Found(StatusAfter(history, c))
          ELSE IF StatusAfter(history, c) \in Open THEN "resolved" ELSE StatusAfter(history, c)
  <2>1. history \in Seq(SUBSET Ids) /\ found \in SUBSET Ids
    BY <1>1 DEF TypeInv
  <2> HIDE DEF found
  <2>2. QED
    BY <2>1, StatusStep
<1>6. RowsFollowScans'
  <2> SUFFICES ASSUME ~ overlapped', NEW c \in Ids
               PROVE  rows'[c] = StatusAfter(history', c)
    BY DEF RowsFollowScans
  <2>1. snapshot[r] = rows /\ rows[c] = StatusAfter(history, c)
    BY <1>1 DEF SnapshotInv, RowsFollowScans
  <2>2. StatusAfter(history', c) = IF c \in found THEN Found(rows[c])
          ELSE IF rows[c] \in Open THEN "resolved" ELSE rows[c]
    <3>1. history' = Append(history, found)
      BY <1>1
    <3> HIDE DEF found
    <3>2. StatusAfter(history', c) = StatusAfter(Append(history, found), c)
      BY <3>1
    <3>3. QED
      BY <1>5a, <2>1, <3>2
  <2>3. QED
    BY <1>2, <2>1, <2>2
<1>7. LastScanIsOpen'
  <2> SUFFICES ASSUME NEW c \in Ids
               PROVE  /\ c \in history'[Len(history')] => rows'[c] \in Open
                      /\ rows'[c] = "absent" => \A i \in 1..Len(history') : c \notin history'[i]
    BY DEF LastScanIsOpen
  <2>1. /\ Len(history) \in Nat /\ Len(history') = Len(history) + 1
        /\ history'[Len(history')] = found
        /\ \A i \in 1..Len(history) : history'[i] = history[i]
    BY <1>1 DEF TypeInv
  <2>2. snapshot[r][c] \in RowStatuses
    BY DEF TypeInv
  <2>3. c \in found => rows'[c] \in Open
    BY <1>2, <2>2, FoundIsOpen
  <2>4. ASSUME rows'[c] = "absent" PROVE \A i \in 1..Len(history') : c \notin history'[i]
    <3>1. c \notin found /\ rows[c] = "absent"
      BY <1>2, <2>3, <2>4 DEF Open
    <3>2. \A i \in 1..Len(history) : c \notin history[i]
      <4>1. CASE history = << >>
        BY <4>1
      <4>2. CASE history # << >>
        BY <3>1, <4>2 DEF LastScanIsOpen
      <4>3. QED  BY <4>1, <4>2
    <3>3. QED
      BY <2>1, <3>1, <3>2
  <2>5. QED
    BY <2>1, <2>3, <2>4
<1>8. QED
  BY <1>3, <1>4, <1>5, <1>6, <1>7

-----------------------------------------------------------------------------
LEMMA StepHolds == IInv /\ [Next]_vars => IInv'
<1> SUFFICES ASSUME IInv, [Next]_vars PROVE IInv'
  OBVIOUS
<1> USE DEF persistent
<1>t. TypeInv
  BY DEF IInv
<1>1. ASSUME NEW r \in Runs, NEW status \in ScanStatuses, NEW found \in SUBSET Ids,
             Scanned(r, status, found)
      PROVE  IInv'
  <2>1. PICK where \in Phases \ {"change", "commit"} : Goto(r, where)
    BY <1>1 DEF Scanned, Exit, End, AfterBaseline, Phases, Over
  <2>2. TypeInv'
    <3>1. overlapped' \in BOOLEAN
      BY <1>1, <1>t DEF Scanned, TypeInv
    <3>2. snapshot' \in [Runs -> [Ids -> RowStatuses]]
      BY <1>1, <1>t, EmptyTypes DEF Scanned, Exit, End, TypeInv
    <3>3. scan' \in [Runs -> [status : ScanStatuses \union {"none"}, findings : SUBSET Ids]]
      BY <1>1, <1>t, EmptyTypes DEF Scanned, Exit, End, TypeInv
    <3>4. QED
      BY <1>1, <1>t, <2>1, <3>1, <3>2, <3>3 DEF Scanned, Goto, TypeInv, persistent
  <2>3. ~ overlapped' => ~ overlapped /\ \A q \in Runs : pc[q] \in Over
    BY <1>1 DEF Scanned
  <2>4. UNCHANGED <<rows, history>> /\ \A q \in Runs \ {r} : snapshot'[q] = snapshot[q]
    BY <1>1, <1>t DEF Scanned, Exit, End, TypeInv
  <2>5. QED
    BY <2>1, <2>2, <2>3, <2>4, QuietStep
<1>2. ASSUME NEW r \in Runs, OpenBaseline(r) \/ SaveBaseline(r) PROVE IInv'
  <2>1. PICK where \in Phases \ {"change", "commit"} : Goto(r, where)
    BY <1>2 DEF OpenBaseline, SaveBaseline, AfterBaseline, Phases, Over
  <2>2. TypeInv'
    BY <1>2, <1>t, <2>1 DEF OpenBaseline, SaveBaseline, Goto, TypeInv
  <2>3. QED
    BY <1>2, <2>1, <2>2, QuietStep DEF OpenBaseline, SaveBaseline, Over
<1>3. ASSUME NEW r \in Runs, Locked(r) \/ RecordScan(r) \/ Die(r) PROVE IInv'
  <2>1. PICK where \in Phases \ {"change", "commit"} : Goto(r, where)
    BY <1>3 DEF Locked, RecordScan, Die, End, Phases, Over
  <2>2. TypeInv'
    <3>1. UNCHANGED <<rows, history, overlapped>>
      BY <1>3 DEF Locked, RecordScan, Die
    <3>2. \/ UNCHANGED <<scan, snapshot>>
          \/ /\ scan' = [scan EXCEPT ![r] = NoScan]
             /\ snapshot' = [snapshot EXCEPT ![r] = Blank]
      BY <1>3 DEF Locked, RecordScan, Die, End
    <3>3. pc' \in [Runs -> Phases]
      BY <1>t, <2>1 DEF Goto, TypeInv
    <3>4. scan' \in [Runs -> [status : ScanStatuses \union {"none"}, findings : SUBSET Ids]]
      BY <1>t, <3>2, EmptyTypes DEF TypeInv
    <3>5. snapshot' \in [Runs -> [Ids -> RowStatuses]]
      BY <1>t, <3>2, EmptyTypes DEF TypeInv
    <3>6. QED
      BY <1>t, <3>1, <3>3, <3>4, <3>5 DEF TypeInv
  <2>3. pc[r] \notin Over /\ overlapped' = overlapped
    BY <1>3 DEF Locked, RecordScan, Die, Over
  <2>4. UNCHANGED <<rows, history>> /\ \A q \in Runs \ {r} : snapshot'[q] = snapshot[q]
    BY <1>3, <1>t DEF Locked, RecordScan, Die, End, TypeInv
  <2>5. QED
    BY <2>1, <2>2, <2>3, <2>4, QuietStep
<1>4. ASSUME NEW r \in Runs, NEW written \in BOOLEAN, Publish(r, written) PROVE IInv'
  <2>1. Goto(r, "exited") /\ "exited" \in Phases \ {"change", "commit"}
    BY <1>4 DEF Publish, Exit, End, Phases, Over
  <2>2. TypeInv'
    BY <1>4, <1>t, <2>1, EmptyTypes DEF Publish, Exit, End, Goto, TypeInv
  <2>3. QED
    BY <1>4, <1>t, <2>1, <2>2, QuietStep DEF Publish, Exit, End, Over, TypeInv
<1>5. CASE UNCHANGED vars
  BY <1>5 DEF vars, IInv, TypeInv, TurnInv, SnapshotInv, RowsFollowScans,
     LastScanIsOpen
<1>6. QED
  BY <1>1, <1>2, <1>3, <1>4, <1>5, ReadHolds, ChangeHolds, CommitHolds DEF Next, Step, Finished

LEMMA Invariance == Spec => []IInv
<1>1. IInv /\ [Next]_vars => IInv'
  BY StepHolds
<1>2. Init => IInv
  BY InitHolds
<1>3. QED
  BY <1>1, <1>2, PTL DEF Spec

\* With one command at a time the exposure table says of every finding what
\* the sequence of committed scans says: new, persistent, resolved,
\* reintroduced, wherever commands died in between.
THEOREM ExposureIsHistory == Spec => []RowsFollowScans
<1>1. IInv => RowsFollowScans
  BY DEF IInv
<1>2. QED
  BY <1>1, Invariance, PTL

\* Commands that overlap read stale rows, but what the scan that committed
\* last found is never left resolved, and no committed finding lacks a row.
THEOREM OverlapKeepsFindings == Spec => []LastScanIsOpen
<1>1. IInv => LastScanIsOpen
  BY DEF IInv
<1>2. QED
  BY <1>1, Invariance, PTL

-----------------------------------------------------------------------------
\* What a command under way already has on its side: a scan that reached the
\* target, its row in the table, the baseline it has written.
Backed(r) ==
  /\ pc[r] \notin Over => scan[r].status \in {"completed", "incomplete"}
  /\ HistoryGiven /\ pc[r] = "publish" => r \in recorded
  /\ BaselineGiven /\ ~ overlapped /\ pc[r] = "save" => baseline.state = "torn"
  /\ BaselineGiven /\ ~ overlapped /\ pc[r] \notin Over \union {"baseline", "save"} =>
       baseline = [state |-> "saved", ids |-> scan[r].findings]

BackedInv ==
  /\ exit \in [Runs -> {"none", "0", "1", "2"}]
  /\ \A r \in Runs : Backed(r)

\* A command does not lose what it has by what another one does.
LEMMA OthersBacked ==
  ASSUME TypeInv, TurnInv, NEW r \in Runs, NEW q \in Runs \ {r}, Backed(q),
         pc'[q] = pc[q], scan'[q] = scan[q], recorded \subseteq recorded',
         overlapped => overlapped',
         baseline' = baseline \/ pc[r] \notin Over
  PROVE  Backed(q)'
<1>1. CASE overlapped'
  BY <1>1 DEF Backed
<1>2. CASE baseline' = baseline
  BY <1>2 DEF Backed, TypeInv
<1>3. CASE ~ overlapped' /\ pc[r] \notin Over
  <2>1. pc[q] \in Over
    BY <1>3 DEF TurnInv
  <2>2. QED
    BY <2>1 DEF Backed, Over
<1>4. QED
  BY <1>1, <1>2, <1>3

LEMMA BackedStep == IInv /\ BackedInv /\ [Next]_vars => BackedInv'
<1> SUFFICES ASSUME IInv, BackedInv, [Next]_vars PROVE BackedInv'
  OBVIOUS
<1> USE DEF persistent
<1>t. TypeInv /\ TurnInv
  BY DEF IInv
<1>b. exit \in [Runs -> {"none", "0", "1", "2"}] /\ \A q \in Runs : Backed(q)
  BY DEF BackedInv
<1>1. ASSUME NEW r \in Runs, NEW status \in ScanStatuses, NEW found \in SUBSET Ids,
             Scanned(r, status, found)
      PROVE  BackedInv'
  <2>1. exit' \in [Runs -> {"none", "0", "1", "2"}]
    BY <1>1, <1>b DEF Scanned, Exit
  <2>2. \A q \in Runs \ {r} : Backed(q)'
    <3>1. /\ \A q \in Runs \ {r} : pc'[q] = pc[q] /\ scan'[q] = scan[q]
          /\ UNCHANGED <<recorded, baseline>> /\ (overlapped => overlapped')
      BY <1>1, <1>t DEF Scanned, Exit, End, Goto, TypeInv
    <3>2. QED
      BY <3>1, <1>t, <1>b, OthersBacked
  <2>3. Backed(r)'
    <3>1. CASE status \in {"unreachable", "error"}
      <4>1. pc'[r] = "exited"
        BY <1>1, <1>t, <3>1 DEF Scanned, Exit, End, Goto, TypeInv
      <4>2. QED
        BY <4>1 DEF Backed, Over
    <3>2. CASE status \notin {"unreachable", "error"}
      <4>1. /\ scan'[r] = [status |-> status, findings |-> found]
            /\ pc'[r] = IF BaselineGiven THEN "baseline" ELSE AfterBaseline
        BY <1>1, <1>t, <3>2 DEF Scanned, Goto, TypeInv
      <4>2. status \in {"completed", "incomplete"}
        BY <3>2 DEF ScanStatuses
      <4>3. QED
        BY <4>1, <4>2 DEF Backed, AfterBaseline, Over
    <3>3. QED
      BY <3>1, <3>2
  <2>4. QED
    BY <2>1, <2>2, <2>3 DEF BackedInv
<1>2. ASSUME NEW r \in Runs, OpenBaseline(r) \/ SaveBaseline(r) PROVE BackedInv'
  <2>1. /\ pc[r] \in {"baseline", "save"}
        /\ UNCHANGED <<scan, recorded, exit, overlapped>>
        /\ \A q \in Runs \ {r} : pc'[q] = pc[q]
    BY <1>2, <1>t DEF OpenBaseline, SaveBaseline, Goto, TypeInv
  <2>2. \A q \in Runs \ {r} : Backed(q)'
    BY <2>1, <1>t, <1>b, OthersBacked DEF Over
  <2>3. Backed(r)'
    <3>1. CASE OpenBaseline(r)
      <4>1. baseline'.state = "torn" /\ pc'[r] = "save"
        BY <3>1, <1>t DEF OpenBaseline, Goto, TypeInv
      <4>2. QED
        BY <4>1, <2>1, <1>b DEF Backed, Over
    <3>2. CASE SaveBaseline(r)
      <4>1. pc[r] = "save" /\ pc'[r] = AfterBaseline
        BY <3>2, <1>t DEF SaveBaseline, Goto, TypeInv
      <4>2. \/ baseline' = [state |-> "saved", ids |-> scan[r].findings]
            \/ baseline.state = "saved"
        BY <3>2 DEF SaveBaseline
      <4>3. Backed(r)
        BY <1>b
      <4>4. QED
        BY <2>1, <4>1, <4>2, <4>3 DEF Backed, AfterBaseline, Over
    <3>3. QED
      BY <1>2, <3>1, <3>2
  <2>4. QED
    BY <1>b, <2>1, <2>2, <2>3 DEF BackedInv
<1>3. ASSUME NEW r \in Runs,
             ReadHistory(r) \/ ChangeHistory(r) \/ CommitHistory(r) \/ RecordScan(r)
      PROVE  BackedInv'
  <2>1. /\ pc[r] \in {"select", "change", "commit", "record"}
        /\ pc'[r] \in {"change", "commit", "record", "publish"}
        /\ (pc'[r] = "publish" => recorded' = recorded \union {r})
        /\ UNCHANGED <<scan, baseline, exit, overlapped>> /\ recorded \subseteq recorded'
        /\ \A q \in Runs \ {r} : pc'[q] = pc[q]
    BY <1>3, <1>t DEF ReadHistory, ChangeHistory, CommitHistory, RecordScan, Goto, TypeInv
  <2>2. \A q \in Runs \ {r} : Backed(q)'
    BY <2>1, <1>t, <1>b, OthersBacked
  <2>3. Backed(r)'
    BY <2>1, <1>b DEF Backed, Over
  <2>4. QED
    BY <1>b, <2>1, <2>2, <2>3 DEF BackedInv
<1>4. ASSUME NEW r \in Runs, NEW written \in BOOLEAN,
             Locked(r) \/ Die(r) \/ Publish(r, written)
      PROVE  BackedInv'
  <2>1. /\ pc'[r] \in {"died", "exited"}
        /\ UNCHANGED <<baseline, recorded, overlapped>>
        /\ \A q \in Runs \ {r} : pc'[q] = pc[q] /\ scan'[q] = scan[q]
    BY <1>4, <1>t DEF Locked, Die, Publish, Exit, End, Goto, TypeInv
  <2>2. exit' \in [Runs -> {"none", "0", "1", "2"}]
    BY <1>4, <1>b DEF Locked, Die, Publish, Exit
  <2>3. \A q \in Runs \ {r} : Backed(q)'
    BY <2>1, <1>t, <1>b, OthersBacked
  <2>4. Backed(r)'
    BY <2>1 DEF Backed, Over
  <2>5. QED
    BY <2>2, <2>3, <2>4 DEF BackedInv
<1>5. CASE UNCHANGED vars
  BY <1>5 DEF vars, BackedInv, Backed
<1>6. QED
  BY <1>1, <1>2, <1>3, <1>4, <1>5 DEF Next, Step, Finished

\* Exit code 0 is only given by Publish, to a command that has it all.
LEMMA PassStep ==
  ASSUME TypeInv, BackedInv, [Next]_vars, NEW r \in Runs, exit[r] # "0", exit'[r] = "0"
  PROVE  /\ scan[r].status = "completed"
         /\ report' = r
         /\ HistoryGiven => r \in recorded
         /\ BaselineGiven /\ ~ overlapped =>
              baseline = [state |-> "saved", ids |-> scan[r].findings]
         /\ FailOn => scan[r].findings = {}
<1> USE DEF persistent
<1>1. PICK written \in BOOLEAN : Publish(r, written)
  <2>1. ASSUME NEW q \in Runs, NEW status \in ScanStatuses, NEW found \in SUBSET Ids,
               Scanned(q, status, found)
        PROVE  FALSE
    BY <2>1 DEF Scanned, Exit, BackedInv
  <2>2. ASSUME NEW q \in Runs,
               \/ OpenBaseline(q) \/ SaveBaseline(q) \/ ReadHistory(q) \/ ChangeHistory(q)
               \/ Locked(q) \/ CommitHistory(q) \/ RecordScan(q) \/ Die(q)
        PROVE  FALSE
    BY <2>2 DEF OpenBaseline, SaveBaseline, ReadHistory, ChangeHistory, Locked, CommitHistory,
                RecordScan, Die
  <2>3. ASSUME NEW q \in Runs, NEW written \in BOOLEAN, Publish(q, written)
        PROVE  q = r
    BY <2>3 DEF Publish, Exit, BackedInv
  <2>4. exit' # exit
    OBVIOUS
  <2>5. QED
    BY <2>1, <2>2, <2>3, <2>4 DEF Next, Step, Finished, vars
<1>2. /\ written /\ scan[r].status # "incomplete"
      /\ FailOn => scan[r].findings = {}
      /\ pc[r] = "publish" /\ report' = r
  BY <1>1 DEF Publish, Exit, BackedInv
<1>3. QED
  BY <1>2 DEF BackedInv, Backed, Over

\* A pass that CI reads is backed: by a complete scan, its row in the history,
\* its report, its own baseline (unless commands overlapped), and no finding
\* that should have failed it, for any commands killed anywhere.
THEOREM PassesAreBacked == Spec => PassIsBacked
<1>1. Init => BackedInv
  BY DEF Init, BackedInv, Backed, Over
<1>2. IInv /\ BackedInv /\ [Next]_vars =>
        [\A r \in Runs : exit[r] # "0" /\ exit'[r] = "0" =>
           /\ scan[r].status = "completed"
           /\ report' = r
           /\ HistoryGiven => r \in recorded
           /\ BaselineGiven /\ ~ overlapped =>
                baseline = [state |-> "saved", ids |-> scan[r].findings]
           /\ FailOn => scan[r].findings = {}]_vars
  BY PassStep DEF IInv
<1>3. QED
  BY <1>1, <1>2, BackedStep, Invariance, PTL DEF Spec, PassIsBacked
-----------------------------------------------------------------------------
\* What the commands share besides the table.
SharedTypes ==
  /\ baseline \in [state : {"missing", "torn", "saved"}, ids : SUBSET Ids]
  /\ writer \in Runs \union {NoRun}
  /\ recorded \subseteq Runs
  /\ report \in Runs \union {NoRun}

LEMMA SharedStep == IInv /\ SharedTypes /\ [Next]_vars => SharedTypes'
<1> SUFFICES ASSUME IInv, SharedTypes, [Next]_vars PROVE SharedTypes'
  OBVIOUS
<1> USE DEF SharedTypes, persistent
<1>1. ASSUME NEW r \in Runs, NEW status \in ScanStatuses, NEW found \in SUBSET Ids,
             Scanned(r, status, found)
      PROVE  SharedTypes'
  BY <1>1 DEF Scanned
<1>2. ASSUME NEW r \in Runs, OpenBaseline(r) PROVE SharedTypes'
  BY <1>2 DEF OpenBaseline
<1>3. ASSUME NEW r \in Runs, SaveBaseline(r) PROVE SharedTypes'
  <2>1. scan[r].findings \in SUBSET Ids
    BY DEF IInv, TypeInv
  <2>2. QED
    BY <1>3, <2>1 DEF SaveBaseline
<1>4. ASSUME NEW r \in Runs,
             ReadHistory(r) \/ ChangeHistory(r) \/ Locked(r) \/ CommitHistory(r) \/ RecordScan(r) \/ Die(r)
      PROVE  SharedTypes'
  BY <1>4 DEF ReadHistory, ChangeHistory, Locked, CommitHistory, RecordScan, Die
<1>5. ASSUME NEW r \in Runs, NEW written \in BOOLEAN, Publish(r, written) PROVE SharedTypes'
  BY <1>5 DEF Publish
<1>6. CASE UNCHANGED vars
  BY <1>6 DEF vars
<1>7. QED
  BY <1>1, <1>2, <1>3, <1>4, <1>5, <1>6 DEF Next, Step, Finished

\* Whatever commands overlap and die, what they keep and what they leave on
\* disk has the types of the code.
THEOREM TypeCorrect == Spec => []TypeOK
<1>1. Init => SharedTypes /\ BackedInv
  BY DEF Init, SharedTypes, NoFile, BackedInv, Backed, Over
<1>2. IInv /\ BackedInv /\ SharedTypes => TypeOK
  BY DEF IInv, TypeInv, BackedInv, SharedTypes, TypeOK
<1>3. QED
  BY <1>1, <1>2, SharedStep, BackedStep, Invariance, PTL DEF Spec
=============================================================================
