----------------------------- MODULE Assurance -----------------------------
(***************************************************************************)
(* From a model of who may read what to a gate that stops a release:       *)
(*  - the verifier requests one resource as every identity, through a      *)
(*    transport that follows redirects (ersec_behavior.py,                 *)
(*    ersec_transport.py, the callbacks in ersec_core.py);                 *)
(*  - three reports are computed from its rows: the invariants, the matrix *)
(*    and the semantic assurance, which also reads the response fields     *)
(*    (ersec_authorization.py);                                            *)
(*  - two assurance reports are compared (ersec_authorization_model.py);   *)
(*  - a reviewer approves contracts in a file, and the gate judges a       *)
(*    report by that file (ersec_core.py).                                 *)
(*                                                                         *)
(* The site may answer differently to every request.  One resource and one *)
(* method: what is done for another resource touches none of this state.   *)
(***************************************************************************)
EXTENDS Naturals, Sequences

CONSTANTS
  Identities, Anonymous,   \* Anonymous \in Identities needs no credential
  Allowed,                 \* the identities that own the resource or share its tenant
  Required, Forbidden,     \* [Identities -> SUBSET Fields]: what the response must, must not show
  Fields,
  Invariants,              \* each [subject, named]: whom it is about, whether it names the resource
  None, Torn,
  MaxRedirects,            \* bound of the code (5 there)
  MaxRounds, MaxApprovals  \* bounds of the model: verifications, approvals

ASSUME PolicyAssumption ==
  /\ Anonymous \in Identities /\ Allowed \subseteq Identities
  /\ Required \in [Identities -> SUBSET Fields] /\ Forbidden \in [Identities -> SUBSET Fields]
  /\ Invariants \subseteq [subject : Identities \union {None}, named : BOOLEAN]

VARIABLES
  scope,     \* the places this verification may request
  creds,     \* the identities it has credentials of
  todo,      \* the identities not yet verified
  flight,    \* the request under way: [identity, place, hops], or None
  asked,     \* the places this verification has requested
  rows,      \* the verifier's rows so far
  reports,   \* the rows of every finished verification
  file,      \* the bundle of active contracts: None, Torn or the state of each contract
  writing,   \* what an approval is about to write, or None
  granted,   \* the contracts of the last finished approval
  dates,     \* per contract, every expiry an approval has given it
  late,      \* whether the nearest of those dates has passed
  approvals
verification == <<scope, creds, todo, flight, asked, rows, reports>>
contracts == <<file, writing, granted, dates, late, approvals>>
vars == <<verification, contracts>>

Places == {"resource", "login", "outside"}

\* What a place answers: a status, and the JSON fields that can be seen in the body.
Answers(place) ==
  CASE place = "resource" -> [status : {"ok", "denied"}, fields : SUBSET Fields]
                               \union [status : {"moved"}, fields : {{}}]
    [] place = "login"    -> [status : {"ok"}, fields : {{}}]
    [] place = "outside"  -> [status : {"ok"}, fields : {{}}]
Expected(i) == IF i \in Allowed THEN "ok" ELSE "denied"

Untested == [verdict |-> "not_tested", status |-> "none", fields |-> {}]
Inconclusive == [verdict |-> "inconclusive", status |-> "none", fields |-> {}]
Judged(i, answer) ==
  [verdict |-> IF answer.status = Expected(i) THEN "pass" ELSE "violation",
   status |-> answer.status, fields |-> answer.fields]

-----------------------------------------------------------------------------
(* The reports over the rows of one verification.                          *)

\* Mutant: what was never tested is no reason for doubt.
Overall_Lenient(verdicts, bad) ==
  IF bad \in verdicts THEN "fail" ELSE IF "inconclusive" \in verdicts THEN "inconclusive" ELSE "pass"

\* One violation fails; what is not passed is not secure.
Overall(verdicts, bad) ==
  IF bad \in verdicts THEN "fail" ELSE IF verdicts \subseteq {"pass"} THEN "pass" ELSE "inconclusive"

Related(inv) == IF inv.subject = None THEN Identities ELSE {inv.subject}
InvariantState(verdicts) ==
  IF verdicts = {} THEN "not_tested"
  ELSE IF "violation" \in verdicts THEN "violated"
  ELSE IF verdicts = {"pass"} THEN "pass" ELSE "inconclusive"

\* The verifier's own results: an invariant that names no resource meets no row.
InvariantResult(r, inv) ==
  InvariantState(IF inv.named THEN {r[i].verdict : i \in Related(inv)} ELSE {})
\* The engine's: it meets every row.
EngineResult(r, inv) == InvariantState({r[i].verdict : i \in Related(inv)})
EngineStatus(r) == Overall({EngineResult(r, inv) : inv \in Invariants}, "violated")
MatrixStatus(r) == Overall({r[i].verdict : i \in Identities}, "violation")

\* The semantic verdict of one cell: the status first, then the fields.
Case(r, i) ==
  CASE r[i].verdict \in {"not_tested", "inconclusive"} -> r[i].verdict
    [] OTHER ->
         IF r[i].status # Expected(i) \/ Forbidden[i] \intersect r[i].fields # {} THEN "violation"
         ELSE IF Required[i] # {} /\ r[i].fields = {} THEN "observation_unavailable"
         ELSE IF Required[i] \subseteq r[i].fields THEN "pass" ELSE "violation"
Violations(r) == {i \in Identities : Case(r, i) = "violation"}
AssuranceStatus(r) == Overall({Case(r, i) : i \in Identities}, "violation")

\* Mutant: a violation that is not seen any more is resolved.
Remediation_Gone(before, after) ==
  IF Violations(before) # {} /\ Violations(after) = {} THEN "verified"
  ELSE IF Violations(before) \ Violations(after) # {} THEN "partial" ELSE "unchanged"

\* Two assurance reports compared.
Remediation(before, after) ==
  LET gone == Violations(before) \ Violations(after)
      resolved == {i \in gone : Case(after, i) = "pass"}
  IN IF resolved # {} /\ gone = resolved /\ Violations(after) = {} THEN "verified"
     ELSE IF gone # {} THEN "partial" ELSE "unchanged"

-----------------------------------------------------------------------------
(* The verifier and its transport.                                         *)

Begin ==
  /\ todo = {} /\ rows = << >> /\ flight = None
  /\ Len(reports) < MaxRounds /\ approvals = 0 /\ ~late
  /\ todo' = Identities
  /\ scope' \in {{}, {"resource"}, {"resource", "login"}}
  /\ creds' \in SUBSET (Identities \ {Anonymous})
  /\ asked' = {}
  /\ UNCHANGED <<flight, rows, reports, contracts>>

\* The cell of identity i is decided.
Record(i, row) ==
  /\ rows' = [j \in DOMAIN rows \union {i} |-> IF j = i THEN row ELSE rows[j]]
  /\ flight' = None
  /\ UNCHANGED <<scope, creds, reports, contracts>>

\* The verifier asks the scope before anything else.
OutOfScope(i) ==
  /\ i \in todo /\ flight = None /\ "resource" \notin scope
  /\ todo' = todo \ {i} /\ Record(i, Untested) /\ UNCHANGED asked

NoCredential(i) ==
  /\ i \in todo /\ flight = None /\ "resource" \in scope /\ i \notin creds \union {Anonymous}
  /\ todo' = todo \ {i} /\ Record(i, Inconclusive) /\ UNCHANGED asked

Ask(i) ==
  /\ i \in todo /\ flight = None /\ "resource" \in scope /\ i \in creds \union {Anonymous}
  /\ todo' = todo \ {i}
  /\ flight' = [identity |-> i, place |-> "resource", hops |-> 0]
  /\ UNCHANGED <<scope, creds, asked, rows, reports, contracts>>

\* Mutant: only the first request is checked.
MayRequest_Once == flight # None /\ (flight.hops > 0 \/ flight.place \in scope)

\* The transport asks the scope again at every hop.
MayRequest == flight # None /\ flight.place \in scope

Denied ==
  /\ flight # None /\ ~MayRequest
  /\ Record(flight.identity, Inconclusive) /\ UNCHANGED <<todo, asked>>

\* No answer: the connection, the resolver, the client's budget.
Failed ==
  /\ MayRequest
  /\ asked' = asked \union {flight.place}
  /\ Record(flight.identity, Inconclusive) /\ UNCHANGED todo

Redirected(place) ==
  /\ MayRequest
  /\ asked' = asked \union {flight.place}
  /\ IF flight.hops = MaxRedirects
     THEN Record(flight.identity, Inconclusive)
     ELSE /\ flight' = [identity |-> flight.identity, place |-> place, hops |-> flight.hops + 1]
          /\ UNCHANGED <<scope, creds, rows, reports, contracts>>
  /\ UNCHANGED todo

Answered(answer) ==
  /\ MayRequest
  /\ asked' = asked \union {flight.place}
  /\ Record(flight.identity, Judged(flight.identity, answer)) /\ UNCHANGED todo

Report ==
  /\ DOMAIN rows = Identities
  /\ reports' = Append(reports, rows) /\ rows' = << >>
  /\ scope' = {} /\ creds' = {} /\ asked' = {}
  /\ UNCHANGED <<todo, flight, contracts>>

-----------------------------------------------------------------------------
(* Contracts: approved in a file, judged by the gate.                      *)

\* One for every cell, one for every invariant; one for a finding of an earlier scan; and for an
\* invariant that scan inferred, which says for good whether it was violated then.
Contracts ==
  [type : {"cell"}, identity : Identities] \union [type : {"invariant"}, inv : Invariants]
    \union [type : {"finding"}] \union [type : {"inferred"}, violated : BOOLEAN]

\* The contracts come from a report.  A bound of the model: the gate judges one report, so there is
\* no second verification once contracts are reviewed, and no review after a second one.
Idle == Len(reports) = 1 /\ todo = {} /\ rows = << >> /\ flight = None

\* The bundle a scan wrote, every contract of it a draft.
Drafts == [c \in Contracts |-> [active |-> FALSE, expires |-> "none"]]

Approved(bundle, ids, expires) ==
  [c \in Contracts |->
     IF c \in ids
     THEN [active |-> TRUE, expires |-> IF expires = "none" THEN bundle[c].expires ELSE expires]
     ELSE bundle[c]]

Sources == {Drafts} \union ({file} \ {None, Torn})

\* The output is opened, and so emptied, before it is written.
Approve(source, ids, expires) ==
  /\ Idle /\ writing = None /\ approvals < MaxApprovals
  /\ file' = Torn
  /\ writing' = [ids |-> ids, expires |-> expires, bundle |-> Approved(source, ids, expires)]
  /\ approvals' = approvals + 1
  /\ UNCHANGED <<verification, granted, dates, late>>

Written ==
  /\ writing # None
  /\ file' = writing.bundle /\ writing' = None
  /\ granted' = writing.ids
  /\ dates' = [c \in Contracts |-> IF c \in writing.ids THEN dates[c] \union {writing.expires} ELSE dates[c]]
  /\ UNCHANGED <<verification, late, approvals>>

Killed ==
  /\ writing # None /\ writing' = None
  /\ UNCHANGED <<verification, file, granted, dates, late, approvals>>

Tick ==
  /\ Idle /\ ~late /\ late' = TRUE
  /\ UNCHANGED <<verification, file, writing, granted, dates, approvals>>

\* Whether a report speaks against a contract.  findings: the scan's detectors found something,
\* so the number of the contract's finding is in use again.
Regressed(c, r, findings) ==
  CASE c.type = "cell"      -> r[c.identity].verdict = "violation"
    [] c.type = "invariant" -> InvariantResult(r, c.inv) = "violated"
    [] c.type = "finding"   -> findings \/ \E i \in Identities : r[i].verdict = "violation"
    [] c.type = "inferred"  -> c.violated

Expired(entry) == entry.expires = "soon" /\ late
Breaks(c, r, findings) ==
  /\ file[c].active /\ ~Expired(file[c])
  /\ file[c].expires = "unreadable" \/ Regressed(c, r, findings)

\* Mutant: a bundle that cannot be read holds no contracts.
Gate_Lenient(r, findings) ==
  IF file \notin {None, Torn} /\ \E c \in Contracts : Breaks(c, r, findings) THEN 1 ELSE 0

\* The exit code of the gate for a report and the bundle as it is now.
Gate(r, findings) ==
  IF file \in {None, Torn} THEN 2
  ELSE IF \E c \in Contracts : Breaks(c, r, findings) THEN 1 ELSE 0

-----------------------------------------------------------------------------
Init ==
  /\ scope = {} /\ creds = {} /\ todo = {} /\ flight = None /\ asked = {} /\ rows = << >> /\ reports = << >>
  /\ file = None /\ writing = None /\ granted = {} /\ late = FALSE /\ approvals = 0
  /\ dates = [c \in Contracts |-> {}]

Verify ==
  \/ Begin \/ Report
  \/ \E i \in Identities : OutOfScope(i) \/ NoCredential(i) \/ Ask(i)
  \/ Denied \/ Failed
  \/ \E place \in Places : Redirected(place)
  \/ MayRequest /\ \E answer \in Answers(flight.place) : Answered(answer)

Review ==
  \/ \E source \in Sources, c \in Contracts, expires \in {"none", "soon", "unreadable"} :
       Approve(source, {c}, expires)
  \/ Written \/ Killed \/ Tick

Next == Verify \/ Review

Spec == Init /\ [][Next]_vars
-----------------------------------------------------------------------------
(* Properties.                                                             *)

\* What answered cell i, as far as its row tells, was what the policy wants.
StatusRight(r, i) == r[i].status = Expected(i)
FieldsRight(r, i) == Required[i] \subseteq r[i].fields /\ Forbidden[i] \intersect r[i].fields = {}
\* The site answered, with another status.
StatusWrong(r, i) == r[i].status \notin {"none", Expected(i)}

\* No redirect, of any length, takes the verifier to a place outside the scope it was given
\* (ScopedTransportClient.request asks again at every hop).
StaysInScope == asked \subseteq scope

\* A report says "pass" only of a policy that was observed to hold in every cell it covers, never
\* of a cell that was skipped, denied or lost; and a wrong status in one of those cells makes it say
\* "fail", whatever the other cells are (SecurityInvariantEngine, SecurityAuthorizationMatrix,
\* AuthorizationAssuranceEngine).
ReportsAreEarned ==
  \A k \in DOMAIN reports :
    LET r == reports[k]
        covered == UNION {Related(inv) : inv \in Invariants}
    IN /\ EngineStatus(r) = "pass" => \A i \in covered : StatusRight(r, i)
       /\ MatrixStatus(r) = "pass" => \A i \in Identities : StatusRight(r, i)
       /\ AssuranceStatus(r) = "pass" => \A i \in Identities : StatusRight(r, i) /\ FieldsRight(r, i)
       /\ (\E i \in covered : StatusWrong(r, i)) => EngineStatus(r) = "fail"
       /\ (\E i \in Identities : StatusWrong(r, i)) => MatrixStatus(r) = "fail" /\ AssuranceStatus(r) = "fail"

\* "verified" means that what was wrong before is answered right now, and that nothing else is
\* wrong: an earlier violation that could not be tested again is not resolved (remediation_delta).
RemediationIsProven ==
  \A k \in DOMAIN reports, l \in DOMAIN reports :
    Remediation(reports[k], reports[l]) = "verified" =>
      /\ \E i \in Violations(reports[k]) : StatusRight(reports[l], i) /\ FieldsRight(reports[l], i)
      /\ \A i \in Violations(reports[k]) : StatusRight(reports[l], i) /\ FieldsRight(reports[l], i)
      /\ \A i \in Identities : ~StatusWrong(reports[l], i)

\* The cells a contract is about, and whether one of them was seen to break it.
About(c) ==
  CASE c.type = "cell"      -> {c.identity}
    [] c.type = "invariant" -> Related(c.inv)
    [] c.type = "finding"   -> Identities
    [] c.type = "inferred"  -> {}
Observed(c, r) == \E i \in About(c) : StatusWrong(r, i)

\* Where the gate does not see: an invariant that names no resource has no rows.
Unseen(c) == c.type = "invariant" /\ ~c.inv.named

\* Where it stops without "concrete evidence of regression" in the report (10083-10084): a date it
\* cannot read, a number that another finding bears now ("Finding IDs are intentionally not used",
\* 9972), a violation of the scan that drafted the contract.
WithoutEvidence(c, findings) ==
  \/ "unreadable" \in dates[c]
  \/ c.type = "finding" /\ findings
  \/ c.type = "inferred" /\ c.violated

\* The gate lets a report through only if no contract of the last finished approval was seen to be
\* broken in it, but for a contract that was once given a date now passed and those it does not
\* see; it stops one only for a contract that somebody approved, that was seen to be broken or that
\* it stops for without evidence.  A bundle that an approval left half written lets nothing through
\* (SecurityContractApprover.approve, SecurityContractGate).
GateIsJust ==
  \A k \in DOMAIN reports, findings \in BOOLEAN :
    LET r == reports[k] IN
    /\ Gate(r, findings) = 0 =>
         \A c \in granted : Observed(c, r) => (late /\ "soon" \in dates[c]) \/ Unseen(c)
    /\ Gate(r, findings) = 1 =>
         \E c \in Contracts : dates[c] # {} /\ (Observed(c, r) \/ WithoutEvidence(c, findings))
    /\ file = Torn => Gate(r, findings) = 2
=============================================================================
