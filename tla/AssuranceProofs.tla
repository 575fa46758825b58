--------------------------- MODULE AssuranceProofs ---------------------------
(***************************************************************************)
(* Assurance, for any identities, policy, invariants, redirect limit and   *)
(* number of verifications and approvals: the verifier stays in scope,     *)
(* what the reports say has been observed, and the gate stops what breaks  *)
(* an approved contract and nothing else.                                  *)
(***************************************************************************)
EXTENDS Assurance, SequenceTheorems, TLAPS

Statuses == {"none", "ok", "denied", "moved"}
RowSet == [verdict : {"pass", "violation", "inconclusive", "not_tested"},
           status : Statuses, fields : SUBSET Fields]

\* A row's verdict is the one its status calls for, and only an answer has a
\* status: what the reports count is what the site said.
Fits(i, row) ==
  \/ row.verdict \in {"not_tested", "inconclusive"} /\ row.status = "none"
  \/ row.verdict = "pass" /\ row.status = Expected(i)
  \/ row.verdict = "violation" /\ row.status \notin {"none", Expected(i)}

FlightInv ==
  /\ todo \subseteq Identities
  /\ flight # None => flight.identity \in Identities /\ flight.place \in Places

RowInv ==
  /\ DOMAIN rows \subseteq Identities /\ rows = [i \in DOMAIN rows |-> rows[i]]
  /\ \A i \in DOMAIN rows : rows[i] \in RowSet /\ Fits(i, rows[i])

ReportInv ==
  /\ reports \in Seq([Identities -> RowSet])
  /\ \A k \in DOMAIN reports : \A i \in Identities : Fits(i, reports[k][i])

VerifyInv == FlightInv /\ RowInv /\ ReportInv

\* What a bundle holds was approved: an active contract has been given a date
\* or none, and its date is one it was given.
Backed(bundle, given) ==
  \A c \in Contracts :
    /\ bundle[c].active => given[c] # {}
    /\ bundle[c].expires # "none" => bundle[c].expires \in given[c]

\* The dates once the approval under way is written.
Coming == [c \in Contracts |-> IF c \in writing.ids THEN dates[c] \union {writing.expires} ELSE dates[c]]

\* The bundle, whole, holds every contract of the last approval as active.
FileInv ==
  /\ granted \subseteq Contracts
  /\ dates = [c \in Contracts |-> dates[c]]
  /\ file \notin {None, Torn} => Backed(file, dates) /\ \A c \in granted : file[c].active
  /\ writing # None =>
       /\ writing.ids \subseteq Contracts
       /\ Backed(writing.bundle, Coming) /\ \A c \in writing.ids : writing.bundle[c].active

-----------------------------------------------------------------------------
\* The scope is asked before every request, so what was asked is in it.
THEOREM ScopeKept == Spec => []StaysInScope
<1>1. Init => StaysInScope
  BY DEF Init, StaysInScope
<1>2. StaysInScope /\ [Next]_vars => StaysInScope'
  <2> SUFFICES ASSUME StaysInScope, [Next]_vars PROVE StaysInScope'
    OBVIOUS
  <2> USE DEF StaysInScope
  <2>1. CASE Begin \/ Report
    BY <2>1 DEF Begin, Report
  <2>2. CASE \E i \in Identities : OutOfScope(i) \/ NoCredential(i) \/ Ask(i)
    BY <2>2 DEF OutOfScope, NoCredential, Ask, Record
  <2>3. CASE Denied \/ Failed
    BY <2>3 DEF Denied, Failed, Record, MayRequest
  <2>4. CASE \E place \in Places : Redirected(place)
    <3>1. UNCHANGED scope /\ flight.place \in scope /\ asked' = asked \union {flight.place}
      BY <2>4 DEF Redirected, Record, MayRequest
    <3>2. QED
      BY <3>1
  <2>5. CASE MayRequest /\ \E answer \in Answers(flight.place) : Answered(answer)
    BY <2>5 DEF Answered, Record, MayRequest
  <2>6. CASE Review \/ UNCHANGED vars
    BY <2>6 DEF Review, vars, verification, Approve, Written, Killed, Tick
  <2>7. QED
    BY <2>1, <2>2, <2>3, <2>4, <2>5, <2>6 DEF Next, Verify
<1>3. QED
  BY <1>1, <1>2, PTL DEF Spec

-----------------------------------------------------------------------------
LEMMA JudgedFits ==
  ASSUME NEW i \in Identities, NEW place \in Places, NEW answer \in Answers(place)
  PROVE  Judged(i, answer) \in RowSet /\ Fits(i, Judged(i, answer))
<1>1. answer.status \in {"ok", "denied", "moved"} /\ answer.fields \subseteq Fields
  <2>1. CASE place = "resource"
    <3>1. Answers(place) = [status : {"ok", "denied"}, fields : SUBSET Fields]
                             \union [status : {"moved"}, fields : {{}}]
      BY <2>1, Zenon DEF Answers
    <3>2. QED
      BY <3>1
  <2>2. CASE place \in {"login", "outside"}
    <3>1. Answers(place) = [status : {"ok"}, fields : {{}}]
      BY <2>2, Zenon DEF Answers
    <3>2. QED
      BY <3>1
  <2>3. QED
    BY <2>1, <2>2 DEF Places
<1>2. Expected(i) \in {"ok", "denied"}
  BY DEF Expected
<1>3. QED
  BY <1>1, <1>2 DEF Judged, RowSet, Statuses, Fits

\* A row that fits can be recorded for its identity.
LEMMA RecordHolds ==
  ASSUME VerifyInv, NEW i \in Identities, NEW row \in RowSet, Fits(i, row), Record(i, row),
         todo' \subseteq todo
  PROVE  VerifyInv'
<1>1. FlightInv'
  BY DEF Record, VerifyInv, FlightInv
<1>2. ReportInv'
  BY DEF Record, VerifyInv, ReportInv, Fits, Expected
<1>3. RowInv'
  <2>1. DOMAIN rows' = DOMAIN rows \union {i}
    BY DEF Record
  <2>2. \A j \in DOMAIN rows' : rows'[j] = IF j = i THEN row ELSE rows[j]
    BY <2>1 DEF Record
  <2>3. rows' = [j \in DOMAIN rows' |-> rows'[j]]
    BY <2>1, <2>2 DEF Record
  <2>4. QED
    BY <2>1, <2>2, <2>3 DEF VerifyInv, RowInv, Fits, Expected
<1>4. QED
  BY <1>1, <1>2, <1>3 DEF VerifyInv

LEMMA NoAnswerFits ==
  ASSUME NEW i \in Identities
  PROVE  /\ Untested \in RowSet /\ Fits(i, Untested)
         /\ Inconclusive \in RowSet /\ Fits(i, Inconclusive)
  BY DEF Untested, Inconclusive, RowSet, Statuses, Fits

LEMMA VerifyInvInit == Init => VerifyInv
  BY DEF Init, VerifyInv, FlightInv, RowInv, ReportInv

LEMMA VerifyInvNext == VerifyInv /\ [Next]_vars => VerifyInv'
<1> SUFFICES ASSUME VerifyInv, [Next]_vars PROVE VerifyInv'
  OBVIOUS
<1>1. CASE Begin
  BY <1>1 DEF Begin, VerifyInv, FlightInv, RowInv, ReportInv, Fits, Expected
<1>2. CASE Report
  <2>1. rows \in [Identities -> RowSet] /\ \A i \in Identities : Fits(i, rows[i])
    BY <1>2 DEF Report, VerifyInv, RowInv
  <2>2. reports' \in Seq([Identities -> RowSet]) /\ Len(reports') = Len(reports) + 1
        /\ \A k \in 1..Len(reports') : reports'[k] = IF k <= Len(reports) THEN reports[k] ELSE rows
    BY <1>2, <2>1, AppendProperties DEF Report, VerifyInv, ReportInv
  <2>3. ReportInv'
    <3>1. DOMAIN reports = 1..Len(reports) /\ DOMAIN reports' = 1..Len(reports') /\ Len(reports) \in Nat
      BY <2>2, LenProperties DEF VerifyInv, ReportInv
    <3>2. ASSUME NEW k \in DOMAIN reports', NEW i \in Identities PROVE Fits(i, reports'[k][i])
      BY <2>1, <2>2, <3>1 DEF VerifyInv, ReportInv
    <3>3. QED
      BY <2>2, <3>2 DEF ReportInv, Fits, Expected
  <2>4. RowInv' /\ FlightInv'
    BY <1>2 DEF Report, VerifyInv, RowInv, FlightInv
  <2>5. QED
    BY <2>3, <2>4 DEF VerifyInv
<1>3. CASE \E i \in Identities : OutOfScope(i) \/ NoCredential(i)
  BY <1>3, RecordHolds, NoAnswerFits DEF OutOfScope, NoCredential
<1>4. CASE \E i \in Identities : Ask(i)
  <2>1. FlightInv'
    BY <1>4 DEF Ask, VerifyInv, FlightInv, Places
  <2>2. QED
    BY <1>4, <2>1 DEF Ask, VerifyInv, RowInv, ReportInv, Fits, Expected
<1>5. CASE Denied \/ Failed
  BY <1>5, RecordHolds, NoAnswerFits DEF Denied, Failed, MayRequest, VerifyInv, FlightInv
<1>6. CASE \E place \in Places : Redirected(place)
  <2>1. PICK place \in Places : Redirected(place)
    BY <1>6
  <2>2. CASE flight.hops = MaxRedirects
    BY <2>1, <2>2, RecordHolds, NoAnswerFits DEF Redirected, MayRequest, VerifyInv, FlightInv
  <2>3. CASE flight.hops # MaxRedirects
    <3>1. flight' = [identity |-> flight.identity, place |-> place, hops |-> flight.hops + 1] /\ flight # None
          /\ UNCHANGED <<todo, rows, reports>>
      BY <2>1, <2>3 DEF Redirected, MayRequest
    <3>2. FlightInv'
      BY <2>1, <3>1 DEF VerifyInv, FlightInv
    <3>3. QED
      BY <3>1, <3>2 DEF VerifyInv, RowInv, ReportInv, Fits, Expected
  <2>4. QED
    BY <2>2, <2>3
<1>7. CASE MayRequest /\ \E answer \in Answers(flight.place) : Answered(answer)
  <2>1. PICK answer \in Answers(flight.place) : Answered(answer)
    BY <1>7
  <2>2. flight.identity \in Identities /\ flight.place \in Places
    BY <1>7 DEF MayRequest, VerifyInv, FlightInv
  <2>3. QED
    BY <2>1, <2>2, RecordHolds, JudgedFits DEF Answered
<1>8. CASE Review \/ UNCHANGED vars
  <2>1. UNCHANGED verification
    BY <1>8 DEF Review, vars, Approve, Written, Killed, Tick
  <2>2. QED
    BY <2>1 DEF verification, VerifyInv, FlightInv, RowInv, ReportInv, Fits, Expected
<1>9. QED
  BY <1>1, <1>2, <1>3, <1>4, <1>5, <1>6, <1>7, <1>8 DEF Next, Verify

LEMMA RowsFit == Spec => []VerifyInv
  BY VerifyInvInit, VerifyInvNext, PTL DEF Spec

-----------------------------------------------------------------------------
\* What the reports compute, of rows that fit.
Fitting == {r \in [Identities -> RowSet] : \A i \in Identities : Fits(i, r[i])}

LEMMA StatusNamed ==
  ASSUME NEW i
  PROVE  Expected(i) \in {"ok", "denied"}
  BY DEF Expected

LEMMA ReportsFit ==
  ASSUME VerifyInv, NEW k \in DOMAIN reports
  PROVE  reports[k] \in Fitting
<1>1. k \in 1..Len(reports)
  BY LenProperties DEF VerifyInv, ReportInv
<1>2. reports[k] \in [Identities -> RowSet]
  BY <1>1, ElementOfSeq DEF VerifyInv, ReportInv
<1>3. QED
  BY <1>2 DEF VerifyInv, ReportInv, Fitting

LEMMA OverallSays ==
  ASSUME NEW verdicts, NEW bad, bad # "pass"
  PROVE  /\ Overall(verdicts, bad) = "pass" => verdicts \subseteq {"pass"}
         /\ bad \in verdicts => Overall(verdicts, bad) = "fail"
  BY DEF Overall

\* A cell that passes was answered with what it must and must not show.
LEMMA CaseSays ==
  ASSUME NEW r \in Fitting, NEW i \in Identities
  PROVE  /\ Case(r, i) = "pass" => StatusRight(r, i) /\ FieldsRight(r, i)
         /\ StatusWrong(r, i) => Case(r, i) = "violation"
<1>1. Fits(i, r[i])
  BY DEF Fitting
<1>2. CASE r[i].verdict \in {"not_tested", "inconclusive"}
  <2>1. Case(r, i) = r[i].verdict
    BY <1>2, Zenon DEF Case
  <2>2. r[i].status = "none"
    BY <1>1, <1>2 DEF Fits
  <2>3. QED
    BY <1>2, <2>1, <2>2 DEF StatusWrong
<1>3. CASE r[i].verdict \notin {"not_tested", "inconclusive"}
  <2>1. Case(r, i) = IF r[i].status # Expected(i) \/ Forbidden[i] \intersect r[i].fields # {} THEN "violation"
                     ELSE IF Required[i] # {} /\ r[i].fields = {} THEN "observation_unavailable"
                     ELSE IF Required[i] \subseteq r[i].fields THEN "pass" ELSE "violation"
    BY <1>3, Zenon DEF Case
  <2>2. QED
    BY <2>1 DEF StatusRight, FieldsRight, StatusWrong
<1>4. QED
  BY <1>2, <1>3

LEMMA VerdictSays ==
  ASSUME NEW r \in Fitting, NEW i \in Identities
  PROVE  /\ r[i].verdict = "pass" => StatusRight(r, i)
         /\ r[i].verdict = "violation" <=> StatusWrong(r, i)
  BY StatusNamed DEF Fitting, Fits, StatusRight, StatusWrong

LEMMA MatrixSays ==
  ASSUME NEW r \in Fitting
  PROVE  /\ MatrixStatus(r) = "pass" => \A i \in Identities : StatusRight(r, i)
         /\ (\E i \in Identities : StatusWrong(r, i)) => MatrixStatus(r) = "fail"
  BY OverallSays, VerdictSays DEF MatrixStatus

LEMMA AssuranceSays ==
  ASSUME NEW r \in Fitting
  PROVE  /\ AssuranceStatus(r) = "pass" => \A i \in Identities : StatusRight(r, i) /\ FieldsRight(r, i)
         /\ (\E i \in Identities : StatusWrong(r, i)) => AssuranceStatus(r) = "fail"
  BY OverallSays, CaseSays DEF AssuranceStatus

LEMMA EngineSays ==
  ASSUME NEW r \in Fitting
  PROVE  LET covered == UNION {Related(inv) : inv \in Invariants} IN
         /\ EngineStatus(r) = "pass" => \A i \in covered : StatusRight(r, i)
         /\ (\E i \in covered : StatusWrong(r, i)) => EngineStatus(r) = "fail"
<1> DEFINE verdicts(inv) == {r[i].verdict : i \in Related(inv)}
<1>1. ASSUME NEW inv \in Invariants PROVE Related(inv) \subseteq Identities
  BY PolicyAssumption DEF Related
<1>2. ASSUME NEW inv \in Invariants, NEW i \in Related(inv), EngineResult(r, inv) = "pass"
      PROVE  StatusRight(r, i)
  <2>1. verdicts(inv) = {"pass"}
    BY <1>2 DEF EngineResult, InvariantState
  <2>2. r[i].verdict = "pass" /\ i \in Identities
    BY <2>1, <1>1, <1>2
  <2>3. QED
    BY <2>2, VerdictSays
<1>3. ASSUME NEW inv \in Invariants, NEW i \in Related(inv), StatusWrong(r, i)
      PROVE  EngineResult(r, inv) = "violated"
  <2>1. r[i].verdict = "violation"
    BY <1>1, <1>3, VerdictSays
  <2>2. "violation" \in verdicts(inv) /\ verdicts(inv) # {}
    BY <2>1, <1>3
  <2>3. QED
    BY <2>2 DEF EngineResult, InvariantState
<1>4. QED
  BY <1>2, <1>3, OverallSays DEF EngineStatus

\* A report passes only what was observed to hold in every cell it covers, and
\* fails whenever a wrong status was observed in one.
THEOREM EarnedReports == Spec => []ReportsAreEarned
<1>1. VerifyInv => ReportsAreEarned
  BY ReportsFit, EngineSays, MatrixSays, AssuranceSays, Zenon DEF ReportsAreEarned
<1>2. QED
  BY <1>1, RowsFit, PTL

\* A remediation is verified only if all that was violated is answered right.
THEOREM ProvenRemediation == Spec => []RemediationIsProven
<1>1. ASSUME NEW before \in Fitting, NEW after \in Fitting, Remediation(before, after) = "verified"
      PROVE  /\ \E i \in Violations(before) : StatusRight(after, i) /\ FieldsRight(after, i)
             /\ \A i \in Violations(before) : StatusRight(after, i) /\ FieldsRight(after, i)
             /\ \A i \in Identities : ~StatusWrong(after, i)
  <2> DEFINE gone == Violations(before) \ Violations(after)
             resolved == {i \in gone : Case(after, i) = "pass"}
  <2>1. resolved # {} /\ gone = resolved /\ Violations(after) = {}
    BY <1>1 DEF Remediation
  <2>2. Violations(before) \subseteq Identities /\ resolved = Violations(before)
    BY <2>1 DEF Violations
  <2>3. \A i \in Violations(before) : StatusRight(after, i) /\ FieldsRight(after, i)
    BY <2>2, CaseSays
  <2>4. \A i \in Identities : ~StatusWrong(after, i)
    BY <2>1, CaseSays DEF Violations
  <2>5. QED
    BY <2>1, <2>2, <2>3, <2>4
<1>2. VerifyInv => RemediationIsProven
  BY <1>1, ReportsFit, Zenon DEF RemediationIsProven
<1>3. QED
  BY <1>2, RowsFit, PTL

-----------------------------------------------------------------------------
\* What a gate may do with a bundle.
LEMMA DraftsBacked == \A given : Backed(Drafts, given)
  BY DEF Backed, Drafts

\* later: what was given, and what an approval of ids gives.
Grants(given, ids, expires, later) ==
  \A c \in Contracts : later[c] = IF c \in ids THEN given[c] \union {expires} ELSE given[c]

\* An approval keeps what is backed, and backs what it approves.
LEMMA ApprovedBacked ==
  ASSUME NEW bundle, NEW given, Backed(bundle, given), NEW ids \in SUBSET Contracts, NEW expires,
         NEW later, Grants(given, ids, expires, later)
  PROVE  Backed(Approved(bundle, ids, expires), later) /\ \A c \in ids : Approved(bundle, ids, expires)[c].active
<1>1. ASSUME NEW c \in Contracts, c \in ids
      PROVE  /\ Approved(bundle, ids, expires)[c].active
             /\ Approved(bundle, ids, expires)[c].expires = IF expires = "none" THEN bundle[c].expires ELSE expires
  BY <1>1 DEF Approved
<1>2. ASSUME NEW c \in Contracts, c \notin ids
      PROVE  Approved(bundle, ids, expires)[c] = bundle[c]
  BY <1>2 DEF Approved
<1>3. QED
  BY <1>1, <1>2 DEF Backed, Grants

LEMMA FileInvInit == Init => FileInv
  BY DEF Init, FileInv

LEMMA FileInvNext == FileInv /\ [Next]_vars => FileInv'
<1> SUFFICES ASSUME FileInv, [Next]_vars PROVE FileInv'
  OBVIOUS
<1>1. CASE \E source \in Sources, c \in Contracts, expires \in {"none", "soon", "unreadable"} :
             Approve(source, {c}, expires)
  <2>1. PICK source \in Sources, c \in Contracts, expires \in {"none", "soon", "unreadable"} :
               Approve(source, {c}, expires)
    BY <1>1
  <2>2. Backed(source, dates)
    BY <2>1, DraftsBacked DEF Sources, FileInv
  <2>3. /\ file' = Torn /\ UNCHANGED <<dates, granted>>
        /\ writing' = [ids |-> {c}, expires |-> expires, bundle |-> Approved(source, {c}, expires)]
    BY <2>1 DEF Approve
  <2>4. Grants(dates, {c}, expires, Coming')
    BY <2>3 DEF Coming, Grants
  <2>5. Backed(Approved(source, {c}, expires), Coming') /\ \A d \in {c} : Approved(source, {c}, expires)[d].active
    BY <2>2, <2>4, ApprovedBacked, {c} \in SUBSET Contracts, Zenon
  <2>6. QED
    BY <2>3, <2>5 DEF FileInv, Backed
<1>2. CASE Written
  <2>1. dates' = Coming /\ file' = writing.bundle /\ granted' = writing.ids /\ writing # None /\ writing' = None
    BY <1>2 DEF Written, Coming
  <2>2. QED
    BY <2>1 DEF FileInv, Backed, Coming
<1>3. CASE Killed
  BY <1>3 DEF Killed, FileInv, Backed
<1>4. CASE Verify \/ Tick \/ UNCHANGED vars
  <2>1. UNCHANGED <<file, writing, granted, dates>>
    <3>1. CASE Verify
      BY <3>1 DEF Verify, contracts, Begin, Report, OutOfScope, NoCredential, Ask, Denied, Failed,
                 Redirected, Answered, Record
    <3>2. CASE Tick \/ UNCHANGED vars
      BY <3>2 DEF Tick, vars, contracts
    <3>3. QED
      BY <1>4, <3>1, <3>2
  <2>2. QED
    BY <2>1 DEF FileInv, Backed, Coming
<1>5. QED
  BY <1>1, <1>2, <1>3, <1>4 DEF Next, Review

LEMMA FileHolds == Spec => []FileInv
  BY FileInvInit, FileInvNext, PTL DEF Spec

\* A report speaks against a contract when its rows do, unless the contract is
\* not seen; else only for the number of its finding or its own mark.
LEMMA RegressedSays ==
  ASSUME NEW c \in Contracts, NEW r \in Fitting, NEW findings \in BOOLEAN
  PROVE  /\ Observed(c, r) => Regressed(c, r, findings) \/ Unseen(c)
         /\ Regressed(c, r, findings) => Observed(c, r) \/ WithoutEvidence(c, findings)
<1>0. \A inv \in Invariants : Related(inv) \subseteq Identities
  BY PolicyAssumption DEF Related
<1>1. CASE c.type = "cell"
  <2>1. c.identity \in Identities /\ About(c) = {c.identity}
    BY <1>1, Zenon DEF Contracts, About
  <2>2. Regressed(c, r, findings) <=> r[c.identity].verdict = "violation"
    BY <1>1 DEF Regressed
  <2>3. QED
    BY <2>1, <2>2, VerdictSays DEF Observed
<1>2. CASE c.type = "invariant"
  <2>1. c.inv \in Invariants
    BY <1>2 DEF Contracts
  <2>2. About(c) = Related(c.inv)
    BY <1>2, Zenon DEF About
  <2>3. Regressed(c, r, findings) <=> InvariantResult(r, c.inv) = "violated"
    BY <1>2 DEF Regressed
  <2>4. CASE c.inv.named
    <3>1. InvariantResult(r, c.inv) = InvariantState({r[i].verdict : i \in Related(c.inv)})
      BY <2>4 DEF InvariantResult
    <3>2. InvariantState({r[i].verdict : i \in Related(c.inv)}) = "violated"
            <=> \E i \in Related(c.inv) : r[i].verdict = "violation"
      BY DEF InvariantState
    <3>3. \A i \in Related(c.inv) : r[i].verdict = "violation" <=> StatusWrong(r, i)
      BY <1>0, <2>1, VerdictSays
    <3>4. QED
      BY <2>2, <2>3, <3>1, <3>2, <3>3 DEF Observed
  <2>5. CASE ~ c.inv.named
    <3>1. InvariantResult(r, c.inv) = "not_tested"
      BY <2>5 DEF InvariantResult, InvariantState
    <3>2. QED
      BY <1>2, <2>3, <2>5, <3>1 DEF Unseen
  <2>6. QED
    BY <2>4, <2>5
<1>3. CASE c.type = "finding"
  <2>1. Regressed(c, r, findings) <=> findings \/ \E i \in Identities : r[i].verdict = "violation"
    BY <1>3 DEF Regressed
  <2>2. About(c) = Identities
    BY <1>3, Zenon DEF About
  <2>3. QED
    BY <1>3, <2>1, <2>2, VerdictSays DEF Observed, WithoutEvidence
<1>4. CASE c.type = "inferred"
  <2>1. Regressed(c, r, findings) <=> c.violated
    BY <1>4 DEF Regressed
  <2>2. About(c) = {}
    BY <1>4, Zenon DEF About
  <2>3. QED
    BY <1>4, <2>1, <2>2 DEF Observed, WithoutEvidence
<1>5. QED
  BY <1>1, <1>2, <1>3, <1>4 DEF Contracts

\* The gate stops a report only for an approved contract that was seen to be
\* broken or that it stops for without evidence, and lets none through that was
\* seen to break one it sees that is approved and not expired.
THEOREM JustGate == Spec => []GateIsJust
<1>1. ASSUME VerifyInv, FileInv, NEW r \in Fitting, NEW findings \in BOOLEAN
      PROVE  /\ Gate(r, findings) = 0 =>
                  \A c \in granted : Observed(c, r) => (late /\ "soon" \in dates[c]) \/ Unseen(c)
             /\ Gate(r, findings) = 1 =>
                  \E c \in Contracts : dates[c] # {} /\ (Observed(c, r) \/ WithoutEvidence(c, findings))
             /\ file = Torn => Gate(r, findings) = 2
  <2>1. ASSUME Gate(r, findings) = 0, NEW c \in granted, Observed(c, r), ~Unseen(c)
        PROVE  late /\ "soon" \in dates[c]
    <3>1. file \notin {None, Torn} /\ c \in Contracts /\ ~Breaks(c, r, findings)
      BY <1>1, <2>1 DEF Gate, FileInv
    <3>2. file[c].active /\ Backed(file, dates) /\ Regressed(c, r, findings)
      BY <1>1, <2>1, <3>1, RegressedSays DEF FileInv
    <3>3. Expired(file[c])
      BY <3>1, <3>2 DEF Breaks
    <3>4. QED
      BY <3>1, <3>2, <3>3 DEF Expired, Backed
  <2>2. ASSUME Gate(r, findings) = 1
        PROVE  \E c \in Contracts : dates[c] # {} /\ (Observed(c, r) \/ WithoutEvidence(c, findings))
    <3>1. PICK c \in Contracts : Breaks(c, r, findings)
      BY <2>2 DEF Gate
    <3>2. Backed(file, dates) /\ file[c].active
      BY <1>1, <2>2, <3>1 DEF Gate, FileInv, Breaks
    <3>3. file[c].expires = "unreadable" \/ Regressed(c, r, findings)
      BY <3>1 DEF Breaks
    <3>4. "unreadable" \in dates[c] => WithoutEvidence(c, findings)
      BY DEF WithoutEvidence
    <3>5. Observed(c, r) \/ WithoutEvidence(c, findings)
      BY <1>1, <3>2, <3>3, <3>4, RegressedSays DEF Backed
    <3>6. QED
      BY <3>1, <3>2, <3>5 DEF Backed
  <2>3. QED
    BY <2>1, <2>2 DEF Gate
<1>2. VerifyInv /\ FileInv => GateIsJust
  BY <1>1, ReportsFit, Zenon DEF GateIsJust
<1>3. QED
  BY <1>2, RowsFit, FileHolds, PTL
=============================================================================
