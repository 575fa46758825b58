---------------------------- MODULE ScanRunProofs ----------------------------
(***************************************************************************)
(* What every scan guarantees, for all sets of jobs, every ceiling and     *)
(* every budget.  A report that says completed rests on facts collected    *)
(* long before it is written, so the invariant carries them from stage to  *)
(* stage: a failure is in the ledger, a skip needs a spent budget, a stage *)
(* that is past left no invocation unsettled and lost none of its findings.*)
(***************************************************************************)
EXTENDS ScanRun, FiniteSetTheorems, TLAPS

TypeInv ==
  /\ config \in Configs
  /\ phase \in [Jobs -> {"waiting", "running", "ended", "recorded", "returned", "skipped"}]
  /\ verdict \in [Jobs -> {"none", "clean", "finding", "error"}]
  /\ findings \subseteq Jobs
  /\ ledger \in [ok : Nat, error : Nat, emitted : Nat]
  /\ component_errors \in Nat
  /\ exhausted \in BOOLEAN
  /\ report \in [scan_status : Statuses, request_budget_exhausted : BOOLEAN,
                 findings : SUBSET Jobs]

PastStatus == {"repeatability", "maturity", "report", "done"}
PastApi == PastStatus \union Components \union {"heuristics", "model", "agents", "status"}
PastForms == PastApi \union {"api"}
PastParam == PastForms \union {"forms", "schema_mining"}
PastUrl == PastParam \union {"param"}

StageInv == stage \in PastUrl \union {"crawl", "url"} \union Raised

\* Only a run that is past its status, or that reached nothing, has a report.
ReportInv ==
  /\ stage \notin PastStatus <=> report.scan_status = "none"
  /\ report.scan_status = "unreachable" => stage = "done"

\* What the fields of an invocation say of each other and of the shared counts.
JobInv ==
  \A j \in Jobs :
    /\ phase[j] \in {"waiting", "running", "skipped"} => verdict[j] = "none"
    /\ phase[j] \in {"ended", "recorded", "returned"} => verdict[j] # "none"
    /\ phase[j] \in {"recorded", "returned"} /\ verdict[j] = "error" => ledger.error > 0
    /\ phase[j] = "skipped" => exhausted

SettledJobs(S) == \A j \in S : phase[j] \in {"returned", "skipped"}
Kept(S) == \A j \in S : phase[j] = "returned" /\ verdict[j] = "finding" => j \in findings
Untouched(S) == \A j \in S : phase[j] = "waiting"

Reached == report.scan_status # "unreachable"

\* A stage that is past settled its invocations; a passive scan never enters
\* the stages in between.
OrderInv ==
  Reached =>
    /\ stage \in PastUrl => SettledJobs(UrlJobs)
    /\ ~ config.passive =>
         /\ stage \in PastParam => SettledJobs(ParamJobs) /\ Kept(ParamJobs)
         /\ Kept(FormJobs)
         /\ stage \in PastForms \union {"schema_mining"} => SettledJobs(FormJobs)
         /\ stage \in PastApi => SettledJobs(ApiJobs) /\ Kept(ApiJobs)
    /\ config.passive =>
         /\ stage \notin {"param", "forms", "schema_mining", "api", "heuristics"}
         /\ Untouched(ParamJobs \union FormJobs \union ApiJobs)

\* Nothing is in the list that no invocation found.
FindingsInv == \A j \in findings : verdict[j] = "finding"

IInv == /\ TypeInv /\ StageInv /\ ReportInv /\ JobInv /\ OrderInv /\ FindingsInv
        /\ CompletedIsComplete /\ ReportKeepsFindings

-----------------------------------------------------------------------------
USE DEF Jobs, Components, Raised, PastStatus, PastApi, PastForms, PastParam, PastUrl

LEMMA InitHolds == Init => IInv
<1> SUFFICES ASSUME Init PROVE IInv
  OBVIOUS
<1>1. TypeInv
  BY DEF Init, TypeInv, NoReport, Statuses
<1>2. StageInv /\ ReportInv /\ JobInv /\ FindingsInv
  BY DEF Init, StageInv, ReportInv, JobInv, FindingsInv, NoReport
<1>3. OrderInv
  BY DEF Init, OrderInv, SettledJobs, Kept, Untouched
<1>4. CompletedIsComplete /\ ReportKeepsFindings
  BY DEF Init, NoReport, CompletedIsComplete, ReportKeepsFindings
<1>5. QED
  BY <1>1, <1>2, <1>3, <1>4 DEF IInv

\* Invocations run in their own stage only.
LEMMA OwnStage ==
  ASSUME StageInv, NEW j \in JobsOf(stage)
  PROVE  /\ j \in Jobs
         /\ stage \in {"url", "param", "forms", "api"}
         /\ j \in UrlJobs <=> stage = "url"
         /\ j \in ParamJobs <=> stage = "param"
         /\ j \in FormJobs <=> stage = "forms"
         /\ j \in ApiJobs <=> stage = "api"
<1>1. stage \in {"url", "param", "forms", "api"}
  BY DEF JobsOf, StageInv
<1>2. QED
  BY <1>1, ScanAssumption DEF JobsOf

-----------------------------------------------------------------------------
LEMMA LedgerGrows ==
  ASSUME NEW l \in [ok : Nat, error : Nat, emitted : Nat]
  PROVE  /\ [l EXCEPT !.error = @ + 1] \in [ok : Nat, error : Nat, emitted : Nat]
         /\ [l EXCEPT !.ok = @ + 1] \in [ok : Nat, error : Nat, emitted : Nat]
         /\ [l EXCEPT !.ok = @ + 1, !.emitted = @ + 1] \in [ok : Nat, error : Nat, emitted : Nat]
<1>1. /\ [l EXCEPT !.error = @ + 1] \in [ok : Nat, error : Nat, emitted : Nat]
      /\ [l EXCEPT !.ok = @ + 1] \in [ok : Nat, error : Nat, emitted : Nat]
  OBVIOUS
<1>2. \A m \in [ok : Nat, error : Nat, emitted : Nat] :
        [m EXCEPT !.emitted = @ + 1] \in [ok : Nat, error : Nat, emitted : Nat]
  OBVIOUS
<1>3. [l EXCEPT !.ok = @ + 1, !.emitted = @ + 1]
        = [[l EXCEPT !.ok = @ + 1] EXCEPT !.emitted = @ + 1]
  OBVIOUS
<1>4. QED
  BY <1>1, <1>2, <1>3

\* A request moves the counters of the budget and nothing else.
LEMMA AskingHolds ==
  ASSUME IInv, AskBudget,
         UNCHANGED <<stage, JobVars, findings, progress, component_errors, report>>
  PROVE  IInv'
<1> USE DEF IInv, JobVars
<1>1. exhausted' \in BOOLEAN /\ (exhausted => exhausted')
  BY DEF AskBudget, TypeInv
<1>2. TypeInv' /\ StageInv' /\ ReportInv' /\ FindingsInv' /\ JobInv'
  BY <1>1 DEF TypeInv, StageInv, ReportInv, FindingsInv, JobInv
<1>3. OrderInv' /\ CompletedIsComplete' /\ ReportKeepsFindings'
  BY DEF OrderInv, Reached, SettledJobs, Kept, Untouched, CompletedIsComplete, Planned, ReportKeepsFindings
<1>4. QED  BY <1>2, <1>3

\* The steps of an invocation touch the fields of that invocation only, and
\* keep or raise the shared counts.
LEMMA JobStepHolds ==
  ASSUME IInv, NEW j \in Jobs, JobStep(j)
  PROVE  IInv'
<1> USE DEF IInv, Active
<1>1. CASE Begin(j)
  <2>1. TypeInv' /\ StageInv' /\ ReportInv' /\ FindingsInv' /\ JobInv'
    BY <1>1 DEF Begin, TypeInv, StageInv, ReportInv, FindingsInv, JobInv
  <2>2. OrderInv' /\ CompletedIsComplete' /\ ReportKeepsFindings'
    BY <1>1, OwnStage DEF Begin, TypeInv, ReportInv, OrderInv, Reached, SettledJobs, Kept, Untouched,
       CompletedIsComplete, Planned, ReportKeepsFindings
  <2>3. QED  BY <2>1, <2>2
<1>2. CASE Skip(j)
  <2>1. TypeInv' /\ StageInv' /\ ReportInv' /\ FindingsInv' /\ JobInv'
    BY <1>2 DEF Skip, TypeInv, StageInv, ReportInv, FindingsInv, JobInv
  <2>2. OrderInv' /\ CompletedIsComplete' /\ ReportKeepsFindings'
    BY <1>2, OwnStage DEF Skip, TypeInv, ReportInv, OrderInv, Reached, SettledJobs, Kept, Untouched,
       CompletedIsComplete, Planned, ReportKeepsFindings
  <2>3. QED  BY <2>1, <2>2
<1>3. CASE \E v \in {"clean", "finding", "error"} : End(j, v)
  <2>1. PICK v \in {"clean", "finding", "error"} : End(j, v)
    BY <1>3
  <2>2. TypeInv' /\ StageInv' /\ ReportInv' /\ FindingsInv' /\ JobInv'
    BY <2>1 DEF End, TypeInv, StageInv, ReportInv, FindingsInv, JobInv
  <2>3. OrderInv' /\ CompletedIsComplete' /\ ReportKeepsFindings'
    BY <2>1, OwnStage DEF End, TypeInv, ReportInv, OrderInv, Reached, SettledJobs, Kept, Untouched,
       CompletedIsComplete, Planned, ReportKeepsFindings
  <2>4. QED  BY <2>2, <2>3
<1>4. CASE Record(j)
  <2>0. ledger' \in [ok : Nat, error : Nat, emitted : Nat]
    <3>1. verdict[j] \in {"clean", "finding", "error"}
      BY <1>4 DEF Record, TypeInv, JobInv
    <3>2. ledger \in [ok : Nat, error : Nat, emitted : Nat]
      BY DEF TypeInv
    <3>3. \/ ledger' = [ledger EXCEPT !.error = @ + 1]
          \/ ledger' = [ledger EXCEPT !.ok = @ + 1, !.emitted = @ + 1]
          \/ ledger' = [ledger EXCEPT !.ok = @ + 1]
      BY <1>4, <3>1 DEF Record
    <3>4. QED
      BY <3>2, <3>3, LedgerGrows
  <2>1. TypeInv' /\ StageInv' /\ ReportInv' /\ FindingsInv'
    BY <1>4, <2>0 DEF Record, TypeInv, StageInv, ReportInv, FindingsInv
  <2>2. JobInv'
    <3>0. verdict[j] \in {"clean", "finding", "error"}
      BY <1>4 DEF Record, TypeInv, JobInv
    <3>1. ledger'.error \in Nat /\ (ledger.error > 0 => ledger'.error > 0)
          /\ (verdict[j] = "error" => ledger'.error > 0)
      BY <1>4, <3>0 DEF Record, TypeInv
    <3>2. exhausted' = exhausted /\ verdict' = verdict /\ phase' = [phase EXCEPT ![j] = "recorded"]
          /\ phase[j] = "ended"
      BY <1>4 DEF Record
    <3>3. QED  BY <3>1, <3>2 DEF TypeInv, JobInv
  <2>3. OrderInv' /\ CompletedIsComplete' /\ ReportKeepsFindings'
    BY <1>4, OwnStage DEF Record, TypeInv, ReportInv, OrderInv, Reached, SettledJobs, Kept, Untouched,
       CompletedIsComplete, Planned, ReportKeepsFindings
  <2>4. QED  BY <2>1, <2>2, <2>3
<1>5. CASE Report(j)
  <2>1. TypeInv' /\ StageInv' /\ ReportInv' /\ FindingsInv'
    BY <1>5, OwnStage DEF Report, TypeInv, StageInv, ReportInv, FindingsInv
  <2>2. JobInv'
    BY <1>5 DEF Report, TypeInv, JobInv
  <2>3. OrderInv'
    BY <1>5, OwnStage DEF Report, TypeInv, ReportInv, OrderInv, Reached, SettledJobs, Kept, Untouched
  <2>4. CompletedIsComplete' /\ ReportKeepsFindings'
    BY <1>5, OwnStage DEF Report, TypeInv, ReportInv, CompletedIsComplete, Planned, ReportKeepsFindings
  <2>5. QED  BY <2>1, <2>2, <2>3, <2>4
<1>6. CASE Probe(j)
  BY <1>6, AskingHolds DEF Probe
<1>7. QED
  BY <1>1, <1>2, <1>3, <1>4, <1>5, <1>6 DEF JobStep

-----------------------------------------------------------------------------
\* The stages between the invocations leave them and the report alone; those
\* that merge a batch find it settled.
LEMMA StageStepHolds ==
  ASSUME IInv,
         \/ MergeUrlJobs \/ MergeParamJobs \/ EndForms
         \/ \E failed \in BOOLEAN : Component(failed)
         \/ SwallowingStage \/ SecurityModel
  PROVE  IInv'
<1> USE DEF IInv, Active, Advance, After, JobVars
<1> DEFINE Quiet == /\ UNCHANGED <<config, phase, verdict, ledger, report>>
                    /\ exhausted' \in BOOLEAN /\ (exhausted => exhausted')
                    /\ stage \notin PastStatus \/ stage \in {"repeatability", "maturity"}
<1>0. config' = config /\ config.passive \in BOOLEAN /\ config.model \in BOOLEAN
  <2>1. config' = config
    BY DEF MergeUrlJobs, MergeParamJobs, EndForms, Component, SwallowingStage, SecurityModel
  <2>2. config.passive \in BOOLEAN /\ config.model \in BOOLEAN
    BY DEF TypeInv, Configs
  <2>3. QED  BY <2>1, <2>2
<1>a. exhausted \in BOOLEAN
  BY DEF TypeInv
<1>1. ASSUME Quiet, findings' = findings, component_errors' = component_errors \/ stage \in Components,
             component_errors' \in Nat, StageInv', stage \in PastStatus => stage' \in PastStatus,
             stage' \in PastStatus => stage \in PastStatus, OrderInv'
      PROVE  IInv'
  BY <1>1 DEF TypeInv, ReportInv, JobInv, FindingsInv, CompletedIsComplete, Planned, ReportKeepsFindings
<1>2. CASE MergeUrlJobs
  <2>1. OrderInv'
    BY <1>2, <1>0 DEF MergeUrlJobs, Settled, JobsOf, OrderInv, Reached, SettledJobs, Kept, Untouched
  <2>2. TypeInv' /\ StageInv' /\ ReportInv' /\ JobInv' /\ FindingsInv'
    BY <1>2, <1>0 DEF MergeUrlJobs, TypeInv, StageInv, ReportInv, JobInv, FindingsInv
  <2>3. CompletedIsComplete' /\ ReportKeepsFindings'
    BY <1>2 DEF MergeUrlJobs, ReportInv, CompletedIsComplete, Planned, ReportKeepsFindings
  <2>4. QED  BY <2>1, <2>2, <2>3
<1>3. CASE MergeParamJobs
  <2>1. OrderInv'
    BY <1>3, <1>0 DEF MergeParamJobs, Settled, JobsOf, OrderInv, Reached, SettledJobs, Kept, Untouched
  <2>2. TypeInv' /\ StageInv' /\ ReportInv' /\ JobInv' /\ FindingsInv'
    BY <1>3, <1>0 DEF MergeParamJobs, JobsOf, TypeInv, StageInv, ReportInv, JobInv, FindingsInv
  <2>3. CompletedIsComplete' /\ ReportKeepsFindings'
    BY <1>3 DEF MergeParamJobs, ReportInv, CompletedIsComplete, Planned, ReportKeepsFindings
  <2>4. QED  BY <2>1, <2>2, <2>3
<1>4. CASE EndForms
  <2>1. OrderInv'
    BY <1>4, <1>0 DEF EndForms, Settled, JobsOf, OrderInv, Reached, SettledJobs, Kept, Untouched
  <2>2. QED
    BY <1>4, <2>1, <1>1 DEF EndForms, TypeInv, StageInv
<1>5. CASE \E failed \in BOOLEAN : Component(failed)
  <2>1. PICK failed \in BOOLEAN : Component(failed)
    BY <1>5
  <2>2. Quiet /\ findings' = findings
    BY <2>1, <1>a DEF Component
  <2>2a. component_errors' \in Nat
    BY <2>1 DEF Component, TypeInv
  <2>3. stage' \in PastApi \ (PastStatus \union {"heuristics"}) /\ stage \in Components
    BY <2>1, <1>0 DEF Component
  <2>4. OrderInv'
    BY <2>2, <2>3 DEF OrderInv, Reached, SettledJobs, Kept, Untouched
  <2>5. QED
    BY <2>2, <2>2a, <2>3, <2>4, <1>1 DEF StageInv
<1>6. CASE SwallowingStage
  <2>1. Quiet /\ findings' = findings /\ component_errors' = component_errors
    BY <1>6, <1>a DEF SwallowingStage, Swallowing
  <2>2. /\ stage' \in PastForms \ {"heuristics", "done"} /\ stage \in Swallowing
        /\ stage \in PastStatus <=> stage' \in PastStatus
        /\ stage' = "api" <=> stage = "schema_mining"
    BY <1>6 DEF SwallowingStage, Swallowing
  <2>3. OrderInv'
    BY <2>1, <2>2 DEF OrderInv, Reached, SettledJobs, Kept, Untouched, Swallowing
  <2>4. QED
    BY <2>1, <2>2, <2>3, <1>1 DEF StageInv, TypeInv
<1>7. CASE SecurityModel
  <2>1. Quiet /\ findings' = findings /\ component_errors' = component_errors /\ stage' = "raised"
    BY <1>7, <1>a DEF SecurityModel
  <2>2. stage = "model"
    BY <1>7 DEF SecurityModel
  <2>3. OrderInv'
    BY <2>1, <2>2 DEF OrderInv, Reached, SettledJobs, Kept, Untouched
  <2>4. QED
    BY <2>1, <2>2, <2>3, <1>1 DEF StageInv, TypeInv
<1>8. QED
  BY <1>2, <1>3, <1>4, <1>5, <1>6, <1>7

-----------------------------------------------------------------------------
\* The report is written from facts the invariant has carried this far.
LEMMA ReportStepHolds ==
  ASSUME IInv,
         \/ StageRequest
         \/ \E outcome \in {"reached", "raised", "unreachable"} : Crawl(outcome)
         \/ ComputeStatus
         \/ \E valid \in BOOLEAN : Finalize(valid)
  PROVE  IInv'
<1> USE DEF IInv, Active, Advance, After, JobVars
<1>0. config' = config /\ config.passive \in BOOLEAN
  <2>1. config' = config
    BY DEF StageRequest, Crawl, ComputeStatus, Finalize
  <2>2. config.passive \in BOOLEAN
    BY DEF TypeInv, Configs
  <2>3. QED  BY <2>1, <2>2
<1>1. CASE \E outcome \in {"reached", "raised", "unreachable"} : Crawl(outcome)
  <2>1. PICK outcome \in {"reached", "raised", "unreachable"} : Crawl(outcome)
    BY <1>1
  <2>2. exhausted' = exhausted
    BY <2>1 DEF Crawl
  <2>3. UNCHANGED <<config, phase, verdict, ledger, findings, component_errors>> /\ stage = "crawl"
    BY <2>1 DEF Crawl
  <2>4. \/ stage' \in {"url", "crawl_raised"} /\ UNCHANGED report
        \/ stage' = "done" /\ report' = [NoReport EXCEPT !.scan_status = "unreachable"]
    BY <2>1 DEF Crawl
  <2>5. TypeInv' /\ JobInv' /\ FindingsInv'
    BY <2>2, <2>3, <2>4 DEF TypeInv, JobInv, FindingsInv, NoReport, Statuses
  <2>6. StageInv' /\ ReportInv' /\ CompletedIsComplete' /\ ReportKeepsFindings'
    BY <2>3, <2>4 DEF StageInv, ReportInv, CompletedIsComplete, Planned, ReportKeepsFindings, NoReport
  <2>7. OrderInv'
    BY <2>3, <2>4, <1>0 DEF OrderInv, ReportInv, Reached, SettledJobs, Kept, Untouched, NoReport
  <2>8. QED  BY <2>5, <2>6, <2>7
<1>2. CASE ComputeStatus
  <2>1. stage = "status" /\ stage' = "repeatability" /\ report.scan_status = "none"
        /\ UNCHANGED <<config, phase, verdict, ledger, findings, exhausted, component_errors>>
    BY <1>2 DEF ComputeStatus, ReportInv
  <2>2. /\ report'.findings = findings
        /\ report'.scan_status \in {"completed", "incomplete"}
        /\ report'.scan_status = "completed" =>
             ~ (ledger.error > 0) /\ ~ exhausted /\ ~ (component_errors > 0)
        /\ report' \in [scan_status : Statuses, request_budget_exhausted : BOOLEAN,
                        findings : SUBSET Jobs]
    BY <1>2 DEF ComputeStatus, TypeInv, Statuses
  <2>3. TypeInv' /\ StageInv' /\ ReportInv' /\ JobInv' /\ FindingsInv'
    BY <2>1, <2>2 DEF TypeInv, StageInv, ReportInv, JobInv, FindingsInv
  <2>4. OrderInv'
    BY <2>1, <2>2 DEF OrderInv, ReportInv, Reached, SettledJobs, Kept, Untouched
  <2>5. Reached
    BY <2>1 DEF Reached
  <2>6. CompletedIsComplete'
    BY <2>1, <2>2, <2>5, <1>0 DEF CompletedIsComplete, Planned, OrderInv, SettledJobs, JobInv, TypeInv
  <2>7. ReportKeepsFindings'
    BY <2>1, <2>2, <2>5, <1>0 DEF ReportKeepsFindings, OrderInv, SettledJobs, Kept, Untouched,
       JobInv, TypeInv, FindingsInv
  <2>8. QED  BY <2>3, <2>4, <2>6, <2>7
<1>3. CASE \E valid \in BOOLEAN : Finalize(valid)
  <2>1. PICK valid \in BOOLEAN : Finalize(valid)
    BY <1>3
  <2>2. stage = "report" /\ stage' = "done"
        /\ UNCHANGED <<config, phase, verdict, ledger, findings, exhausted, component_errors>>
    BY <2>1 DEF Finalize
  <2>3. /\ report'.findings = report.findings
        /\ report'.scan_status \in {report.scan_status, "incomplete"}
        /\ report' \in [scan_status : Statuses, request_budget_exhausted : BOOLEAN,
                        findings : SUBSET Jobs]
    BY <2>1 DEF Finalize, TypeInv, Statuses
  <2>4. report.scan_status \in {"completed", "incomplete"}
    BY <2>2 DEF ReportInv, TypeInv, Statuses
  <2>5. TypeInv' /\ StageInv' /\ ReportInv' /\ JobInv' /\ FindingsInv'
    BY <2>2, <2>3, <2>4 DEF TypeInv, StageInv, ReportInv, JobInv, FindingsInv
  <2>6. OrderInv'
    BY <2>2, <2>3, <2>4 DEF OrderInv, Reached, SettledJobs, Kept, Untouched
  <2>7. CompletedIsComplete' /\ ReportKeepsFindings'
    BY <2>2, <2>3, <2>4 DEF CompletedIsComplete, Planned, ReportKeepsFindings
  <2>8. QED  BY <2>5, <2>6, <2>7
<1>4. CASE StageRequest
  BY <1>4, AskingHolds DEF StageRequest
<1>5. QED
  BY <1>1, <1>2, <1>3, <1>4

-----------------------------------------------------------------------------
LEMMA StepHolds == IInv /\ [Next]_vars => IInv'
<1> SUFFICES ASSUME IInv, [Next]_vars PROVE IInv'
  OBVIOUS
<1>1. CASE \E j \in Jobs : JobStep(j)
  BY <1>1, JobStepHolds
<1>2. CASE MainStep
  BY <1>2, StageStepHolds, ReportStepHolds DEF MainStep
<1>3. CASE UNCHANGED vars
  BY <1>3 DEF vars, IInv, TypeInv, StageInv, ReportInv, JobInv, OrderInv, Reached, SettledJobs, Kept,
     Untouched, FindingsInv, CompletedIsComplete, Planned, ReportKeepsFindings
<1>4. QED
  BY <1>1, <1>2, <1>3 DEF Next, Finished

LEMMA Invariance == Spec => []IInv
<1>1. IInv /\ [Next]_vars => IInv'
  BY StepHolds
<1>2. Init => IInv
  BY InitHolds
<1>3. QED
  BY <1>1, <1>2, PTL DEF Spec

\* A scan that reports completed ran every planned invocation to its end, with
\* no failure, no skip and no failed component, whatever the interleaving of
\* the invocations and wherever the request budget ran out.
THEOREM HonestCompletion == Spec => []CompletedIsComplete
<1>1. IInv => CompletedIsComplete
  BY DEF IInv
<1>2. QED
  BY <1>1, Invariance, PTL

\* The report of a scan holds what its parameter, form and API invocations
\* found, and nothing that no invocation found.
THEOREM FindingsKept == Spec => []ReportKeepsFindings
<1>1. IInv => ReportKeepsFindings
  BY DEF IInv
<1>2. QED
  BY <1>1, Invariance, PTL
-----------------------------------------------------------------------------
(***************************************************************************)
(* The ledger and the progress counters move in different steps of an      *)
(* invocation.  What they differ by is the number of invocations between   *)
(* those steps, and only the stage's own jobs can be there.                *)
(***************************************************************************)
Out == {j \in Jobs : phase[j] \in {"running", "ended", "recorded"}}
Between == {j \in Jobs : phase[j] = "recorded"}
FailedBetween == {j \in Between : verdict[j] = "error"}
FindingBetween == {j \in Between : verdict[j] = "finding"}

PlaceInv ==
  /\ Out \subseteq JobsOf(stage)
  /\ stage = "forms" => \A i, j \in Out : i = j

CounterTypes ==
  /\ progress \in [started : Nat, finished : Nat, failed : Nat, findings : Nat]
  /\ used \in 0..MaxRequests

CountInv ==
  /\ progress.started = progress.finished + Cardinality(Out)
  /\ ledger.ok + ledger.error = progress.finished + Cardinality(Between)
  /\ ledger.error = progress.failed + Cardinality(FailedBetween)
  /\ stage # "done" => ledger.emitted = progress.findings + Cardinality(FindingBetween)

LedgerInv == PlaceInv /\ CounterTypes /\ CountInv

\* Subsets of the jobs are finite, and one job more or less counts for one.
LEMMA CountJobs ==
  ASSUME NEW S \in SUBSET Jobs
  PROVE  /\ IsFiniteSet(S) /\ Cardinality(S) \in Nat
         /\ \A j \in Jobs \ S : Cardinality(S \union {j}) = Cardinality(S) + 1
         /\ \A j \in S : Cardinality(S \ {j}) = Cardinality(S) - 1
         /\ Cardinality(S) = 0 <=> S = {}
<1>1. IsFiniteSet(S)
  BY ScanAssumption, FS_Subset
<1>2. QED
  BY <1>1, FS_CardinalityType, FS_AddElement, FS_RemoveElement, FS_EmptySet

LEMMA PlacesKept ==
  ASSUME IInv, LedgerInv, NEW j \in Jobs, JobStep(j)
  PROVE  PlaceInv'
<1> USE DEF IInv, LedgerInv, PlaceInv, Active
<1>0. Out \subseteq JobsOf(stage) /\ phase \in [Jobs -> {"waiting", "running", "ended", "recorded", "returned", "skipped"}]
  BY DEF TypeInv
<1>1. CASE Begin(j)
  <2>1. Out' = Out \union {j} /\ stage' = stage /\ j \in JobsOf(stage)
    BY <1>0, <1>1 DEF Begin, Out
  <2>2. ASSUME stage = "forms" PROVE Out = {}
    <3>1. InFlight = Out /\ Ceiling = 1
      BY <1>0, <2>2, OwnStage DEF InFlight, Out, Ceiling
    <3>2. Cardinality(Out) = 0
      BY <1>1, <3>1, CountJobs, Out \subseteq Jobs DEF Begin, Out
    <3>3. QED
      BY <3>2, CountJobs, Out \subseteq Jobs DEF Out
  <2>3. QED
    BY <2>1, <2>2 DEF JobsOf
<1>2. CASE \/ Skip(j) \/ Probe(j) \/ \E v \in {"clean", "finding", "error"} : End(j, v) \/ Record(j)
  <2>1. Out' \subseteq Out /\ stage' = stage
    BY <1>0, <1>2 DEF Skip, Probe, End, Record, JobVars, Out
  <2>2. QED
    BY <2>1 DEF JobsOf
<1>3. CASE Report(j)
  <2>1. Out' = Out \ {j} /\ j \in Out /\ j \in JobsOf(stage)
    BY <1>0, <1>3 DEF Report, Out
  <2>2. CASE stage = "forms"
    <3>1. Out' = {}
      BY <2>1, <2>2
    <3>2. QED
      BY <3>1
  <2>3. CASE stage # "forms"
    BY <1>3, <2>1, <2>3 DEF Report, JobsOf
  <2>4. QED  BY <2>2, <2>3
<1>4. QED
  BY <1>1, <1>2, <1>3 DEF JobStep
LEMMA BudgetType == CounterTypes /\ AskBudget => used' \in 0..MaxRequests
  BY ScanAssumption DEF CounterTypes, AskBudget

\* What an update of one counter does to the record it is in.
LEMMA LedgerUpdate ==
  ASSUME NEW l \in [ok : Nat, error : Nat, emitted : Nat], NEW k \in Nat
  PROVE  /\ [l EXCEPT !.ok = k] \in [ok : Nat, error : Nat, emitted : Nat]
         /\ [l EXCEPT !.ok = k].ok = k /\ [l EXCEPT !.ok = k].error = l.error
         /\ [l EXCEPT !.ok = k].emitted = l.emitted
         /\ [l EXCEPT !.emitted = k].ok = l.ok /\ [l EXCEPT !.emitted = k].error = l.error
         /\ [l EXCEPT !.emitted = k].emitted = k
  OBVIOUS

LEMMA ProgressUpdate ==
  ASSUME NEW p \in [started : Nat, finished : Nat, failed : Nat, findings : Nat], NEW k \in Nat
  PROVE  /\ [p EXCEPT !.finished = k] \in [started : Nat, finished : Nat, failed : Nat, findings : Nat]
         /\ [p EXCEPT !.finished = k].started = p.started /\ [p EXCEPT !.finished = k].finished = k
         /\ [p EXCEPT !.finished = k].failed = p.failed /\ [p EXCEPT !.finished = k].findings = p.findings
         /\ [p EXCEPT !.failed = k] \in [started : Nat, finished : Nat, failed : Nat, findings : Nat]
         /\ [p EXCEPT !.failed = k].started = p.started /\ [p EXCEPT !.failed = k].finished = p.finished
         /\ [p EXCEPT !.failed = k].failed = k /\ [p EXCEPT !.failed = k].findings = p.findings
         /\ [p EXCEPT !.findings = k] \in [started : Nat, finished : Nat, failed : Nat, findings : Nat]
         /\ [p EXCEPT !.findings = k].started = p.started /\ [p EXCEPT !.findings = k].finished = p.finished
         /\ [p EXCEPT !.findings = k].failed = p.failed /\ [p EXCEPT !.findings = k].findings = k
  OBVIOUS

LEMMA JobCounts ==
  ASSUME IInv, LedgerInv, NEW j \in Jobs, JobStep(j)
  PROVE  CounterTypes' /\ CountInv'
<1> USE DEF IInv, LedgerInv, Active
<1>0. /\ phase \in [Jobs -> {"waiting", "running", "ended", "recorded", "returned", "skipped"}]
      /\ verdict \in [Jobs -> {"none", "clean", "finding", "error"}]
      /\ ledger \in [ok : Nat, error : Nat, emitted : Nat]
      /\ progress \in [started : Nat, finished : Nat, failed : Nat, findings : Nat]
      /\ used \in 0..MaxRequests
  BY DEF TypeInv, CounterTypes
<1>c. /\ Out \in SUBSET Jobs /\ Between \in SUBSET Jobs
      /\ FailedBetween \in SUBSET Jobs /\ FindingBetween \in SUBSET Jobs
      /\ FailedBetween = {i \in Jobs : phase[i] = "recorded" /\ verdict[i] = "error"}
      /\ FindingBetween = {i \in Jobs : phase[i] = "recorded" /\ verdict[i] = "finding"}
  BY DEF Out, Between, FailedBetween, FindingBetween
<1>n. /\ Cardinality(Out) \in Nat /\ Cardinality(Between) \in Nat
      /\ Cardinality(FailedBetween) \in Nat /\ Cardinality(FindingBetween) \in Nat
  BY <1>c, CountJobs
<1>1. CASE Begin(j)
  <2>1. /\ Out' = Out \union {j} /\ j \in Jobs \ Out /\ Between' = Between
        /\ FailedBetween' = FailedBetween /\ FindingBetween' = FindingBetween
    BY <1>0, <1>1 DEF Begin, Out, Between, FailedBetween, FindingBetween
  <2>2. Cardinality(Out') = Cardinality(Out) + 1
    BY <2>1, <1>c, CountJobs
  <2>3. /\ progress' \in [started : Nat, finished : Nat, failed : Nat, findings : Nat]
        /\ progress'.started = progress.started + 1 /\ progress'.finished = progress.finished
        /\ progress'.failed = progress.failed /\ progress'.findings = progress.findings
        /\ ledger' = ledger /\ stage' = stage /\ used' = used
    BY <1>0, <1>1 DEF Begin
  <2>4. QED
    BY <1>0, <1>n, <2>1, <2>2, <2>3 DEF CounterTypes, CountInv
<1>2. CASE Skip(j) \/ Probe(j) \/ \E v \in {"clean", "finding", "error"} : End(j, v)
  <2>1. /\ Out' = Out /\ Between' = Between
        /\ FailedBetween' = FailedBetween /\ FindingBetween' = FindingBetween
    BY <1>0, <1>2 DEF Skip, Probe, End, JobVars, Out, Between, FailedBetween, FindingBetween
  <2>2. progress' = progress /\ ledger' = ledger /\ stage' = stage /\ used' \in 0..MaxRequests
    BY <1>2, BudgetType DEF Skip, Probe, End, JobVars, CounterTypes
  <2>3. QED
    BY <2>1, <2>2 DEF CounterTypes, CountInv
<1>3. CASE Record(j)
  <2>1. /\ Out' = Out /\ Between' = Between \union {j} /\ j \in Jobs \ Between
        /\ verdict' = verdict /\ verdict[j] \in {"clean", "finding", "error"}
        /\ progress' = progress /\ stage' = stage /\ used' = used
    BY <1>0, <1>3 DEF Record, Out, Between, JobInv
  <2>2. /\ FailedBetween' = IF verdict[j] = "error" THEN FailedBetween \union {j} ELSE FailedBetween
        /\ FindingBetween' = IF verdict[j] = "finding" THEN FindingBetween \union {j} ELSE FindingBetween
        /\ j \notin FailedBetween /\ j \notin FindingBetween
    BY <2>1 DEF FailedBetween, FindingBetween
  <2>3. /\ Cardinality(Between') = Cardinality(Between) + 1
        /\ Cardinality(FailedBetween') = Cardinality(FailedBetween) + (IF verdict[j] = "error" THEN 1 ELSE 0)
        /\ Cardinality(FindingBetween') = Cardinality(FindingBetween) + (IF verdict[j] = "finding" THEN 1 ELSE 0)
    <3>1. \A S \in SUBSET Jobs : j \notin S => Cardinality(S \union {j}) = Cardinality(S) + 1
      BY CountJobs
    <3>2. QED
      BY <2>1, <2>2, <3>1, <1>c, <1>n
  <2>4. /\ ledger'.error = ledger.error + (IF verdict[j] = "error" THEN 1 ELSE 0)
        /\ ledger'.ok = ledger.ok + (IF verdict[j] = "error" THEN 0 ELSE 1)
        /\ ledger'.emitted = ledger.emitted + (IF verdict[j] = "finding" THEN 1 ELSE 0)
    <3>1. CASE verdict[j] = "error"
      BY <1>0, <1>3, <3>1 DEF Record
    <3>2. CASE verdict[j] = "finding"
      <4> DEFINE l == [ledger EXCEPT !.ok = ledger.ok + 1]
      <4>1. ledger' = [l EXCEPT !.emitted = ledger.emitted + 1]
        BY <1>3, <3>2 DEF Record
      <4>2. ledger.ok + 1 \in Nat /\ ledger.emitted + 1 \in Nat
        BY <1>0
      <4>3. /\ l \in [ok : Nat, error : Nat, emitted : Nat]
            /\ l.ok = ledger.ok + 1 /\ l.error = ledger.error
        BY <1>0, <4>2, LedgerUpdate
      <4> HIDE DEF l
      <4>4. /\ ledger'.ok = ledger.ok + 1 /\ ledger'.error = ledger.error
            /\ ledger'.emitted = ledger.emitted + 1
        BY <4>1, <4>2, <4>3, LedgerUpdate
      <4>5. QED
        BY <1>0, <3>2, <4>4
    <3>3. CASE verdict[j] = "clean"
      BY <1>0, <1>3, <3>3 DEF Record
    <3>4. QED  BY <2>1, <3>1, <3>2, <3>3
  <2>5. QED
    BY <1>0, <1>n, <2>1, <2>3, <2>4 DEF CounterTypes, CountInv
<1>4. CASE Report(j)
  <2>1. /\ Out' = Out \ {j} /\ j \in Out /\ Between' = Between \ {j} /\ j \in Between
        /\ verdict' = verdict /\ ledger' = ledger /\ used' = used
    BY <1>0, <1>4 DEF Report, Out, Between
  <2>2. /\ FailedBetween' = FailedBetween \ {j} /\ FindingBetween' = FindingBetween \ {j}
        /\ j \in FailedBetween <=> verdict[j] = "error"
        /\ j \in FindingBetween <=> verdict[j] = "finding"
    BY <2>1 DEF FailedBetween, FindingBetween
  <2>3. /\ Cardinality(Out') = Cardinality(Out) - 1 /\ Cardinality(Between') = Cardinality(Between) - 1
        /\ Cardinality(FailedBetween') = Cardinality(FailedBetween) - (IF verdict[j] = "error" THEN 1 ELSE 0)
        /\ Cardinality(FindingBetween') = Cardinality(FindingBetween) - (IF verdict[j] = "finding" THEN 1 ELSE 0)
    <3>1. ASSUME NEW S \in SUBSET Jobs
          PROVE  Cardinality(S \ {j}) = Cardinality(S) - (IF j \in S THEN 1 ELSE 0)
      <4>1. CASE j \in S
        BY <4>1, CountJobs
      <4>2. CASE j \notin S
        <5>1. S \ {j} = S
          BY <4>2
        <5>2. QED
          BY <4>2, <5>1, CountJobs
      <4>3. QED  BY <4>1, <4>2
    <3>2. QED
      BY <2>1, <2>2, <3>1, <1>c
  <2>4. /\ progress' \in [started : Nat, finished : Nat, failed : Nat, findings : Nat]
        /\ progress'.started = progress.started /\ progress'.finished = progress.finished + 1
        /\ progress'.failed = progress.failed + (IF verdict[j] = "error" THEN 1 ELSE 0)
        /\ progress'.findings = progress.findings + (IF verdict[j] = "finding" THEN 1 ELSE 0)
    <3> DEFINE p == [progress EXCEPT !.finished = progress.finished + 1]
               n == IF verdict[j] = "finding" THEN progress.findings + 1 ELSE progress.findings
    <3>0. /\ p \in [started : Nat, finished : Nat, failed : Nat, findings : Nat]
          /\ p.started = progress.started /\ p.finished = progress.finished + 1
          /\ p.failed = progress.failed /\ p.findings = progress.findings
      <4>1. progress.finished + 1 \in Nat
        BY <1>0
      <4>2. QED
        BY <1>0, <4>1, ProgressUpdate
    <3>n. n \in Nat /\ n = progress.findings + (IF verdict[j] = "finding" THEN 1 ELSE 0)
          /\ progress.failed + 1 \in Nat /\ progress.failed \in Nat /\ progress.findings \in Nat
      BY <1>0
    <3>1. CASE verdict[j] = "error"
      <4>1. progress' = [p EXCEPT !.failed = progress.failed + 1]
        BY <1>4, <3>1 DEF Report
      <4> HIDE DEF p, n
      <4>2. /\ progress' \in [started : Nat, finished : Nat, failed : Nat, findings : Nat]
            /\ progress'.started = p.started /\ progress'.finished = p.finished
            /\ progress'.failed = progress.failed + 1 /\ progress'.findings = p.findings
        BY <3>0, <3>n, <4>1, ProgressUpdate
      <4>3. QED
        BY <3>0, <3>n, <3>1, <4>2
    <3>2. CASE verdict[j] # "error"
      <4>1. progress' = [p EXCEPT !.findings = n]
        BY <1>4, <3>2 DEF Report
      <4> HIDE DEF p, n
      <4>2. /\ progress' \in [started : Nat, finished : Nat, failed : Nat, findings : Nat]
            /\ progress'.started = p.started /\ progress'.finished = p.finished
            /\ progress'.failed = p.failed /\ progress'.findings = n
        BY <3>0, <3>n, <4>1, ProgressUpdate
      <4>3. QED
        BY <3>0, <3>n, <3>2, <4>2
    <3>3. QED  BY <3>1, <3>2
  <2>5. stage # "done"
    BY <1>4, OwnStage DEF Report
  <2>6. QED
    BY <1>0, <1>n, <2>1, <2>3, <2>4, <2>5 DEF CounterTypes, CountInv
<1>5. QED
  BY <1>1, <1>2, <1>3, <1>4 DEF JobStep

\* The steps between the stages find no invocation under way, except requests.
LEMMA StagesKeepLedger ==
  ASSUME IInv, LedgerInv, MainStep
  PROVE  LedgerInv'
<1> USE DEF IInv, LedgerInv, Active, JobVars, Advance
<1>0. /\ phase \in [Jobs -> {"waiting", "running", "ended", "recorded", "returned", "skipped"}]
      /\ phase' = phase /\ verdict' = verdict /\ ledger' = ledger
      /\ Out' = Out /\ Between' = Between
      /\ FailedBetween' = FailedBetween /\ FindingBetween' = FindingBetween
  <2>1. phase' = phase /\ verdict' = verdict /\ ledger' = ledger
    BY DEF MainStep, StageRequest, Crawl, MergeUrlJobs, MergeParamJobs, EndForms, Component, SwallowingStage,
           SecurityModel, ComputeStatus, Finalize
  <2>2. QED
    BY <2>1 DEF TypeInv, Out, Between, FailedBetween, FindingBetween
<1>1. CASE StageRequest
  <2>1. stage' = stage /\ progress' = progress /\ used' \in 0..MaxRequests
    BY <1>1, BudgetType DEF StageRequest
  <2>2. QED
    BY <1>0, <2>1 DEF PlaceInv, JobsOf, CounterTypes, CountInv
<1>2. ASSUME ~ StageRequest PROVE Out = {}
  <2>1. CASE MergeUrlJobs \/ MergeParamJobs \/ EndForms
    BY <1>0, <2>1 DEF MergeUrlJobs, MergeParamJobs, EndForms, Settled, PlaceInv, Out
  <2>2. CASE ~ (MergeUrlJobs \/ MergeParamJobs \/ EndForms)
    <3>1. stage \notin {"url", "param", "forms", "api"}
      BY <1>2, <2>2 DEF MainStep, Crawl, Component, SwallowingStage, Swallowing, SecurityModel, ComputeStatus, Finalize
    <3>2. JobsOf(stage) = {}
      BY <3>1 DEF JobsOf
    <3>3. QED
      BY <3>2 DEF PlaceInv
  <2>3. QED  BY <2>1, <2>2
<1>3. ASSUME ~ StageRequest, ~ \E valid \in BOOLEAN : Finalize(valid)
      PROVE  progress' = progress /\ used' = used
  BY <1>3 DEF MainStep, Crawl, MergeUrlJobs, MergeParamJobs, EndForms, Component, SwallowingStage,
     SecurityModel, ComputeStatus
<1>4. CASE ~ StageRequest /\ ~ \E valid \in BOOLEAN : Finalize(valid)
  <2>1. stage # "done"
    BY <1>4 DEF MainStep, Crawl, MergeUrlJobs, MergeParamJobs, EndForms, Component, SwallowingStage,
       Swallowing, SecurityModel, ComputeStatus
  <2>2. QED
    BY <1>0, <1>2, <1>3, <1>4, <2>1 DEF PlaceInv, CounterTypes, CountInv
<1>5. CASE \E valid \in BOOLEAN : Finalize(valid)
  <2>1. findings \in SUBSET Jobs
    BY DEF TypeInv
  <2>2. Cardinality(findings) \in Nat
    BY <2>1, CountJobs
  <2>3. /\ stage' = "done" /\ used' = used /\ ~ StageRequest
        /\ progress' = [progress EXCEPT !.findings = Cardinality(findings)]
    BY <1>5 DEF Finalize, StageRequest
  <2>4. QED
    BY <1>0, <1>2, <2>2, <2>3 DEF PlaceInv, CounterTypes, CountInv
<1>6. QED
  BY <1>1, <1>4, <1>5

LEMMA LedgerInit == Init => LedgerInv
<1> SUFFICES ASSUME Init PROVE LedgerInv
  OBVIOUS
<1>1. Out = {} /\ Between = {} /\ FailedBetween = {} /\ FindingBetween = {}
  BY DEF Init, Out, Between, FailedBetween, FindingBetween
<1>2. QED
  BY <1>1, FS_EmptySet, ScanAssumption DEF Init, LedgerInv, PlaceInv, CounterTypes, CountInv

LEMMA LedgerStep == IInv /\ LedgerInv /\ [Next]_vars => LedgerInv'
<1> SUFFICES ASSUME IInv, LedgerInv, [Next]_vars PROVE LedgerInv'
  OBVIOUS
<1>1. CASE \E j \in Jobs : JobStep(j)
  BY <1>1, PlacesKept, JobCounts DEF LedgerInv
<1>2. CASE MainStep
  BY <1>2, StagesKeepLedger
<1>3. CASE UNCHANGED vars
  BY <1>3 DEF vars, LedgerInv, PlaceInv, CounterTypes, CountInv, Out, Between, FailedBetween, FindingBetween, JobsOf
<1>4. QED
  BY <1>1, <1>2, <1>3 DEF Next, Finished

\* Whenever no invocation is under way, the progress counters and the execution
\* ledger tell the same story, though each is kept under its own lock: for any
\* sets of jobs, any ceiling and any budget.
THEOREM LedgersAgree == Spec => []LedgerMatchesProgress
<1>1. IInv /\ LedgerInv => LedgerMatchesProgress
  <2> SUFFICES ASSUME IInv, LedgerInv, InFlight = {}, stage # "done"
               PROVE  /\ progress.started = progress.finished
                      /\ progress.finished = ledger.ok + ledger.error
                      /\ progress.failed = ledger.error
                      /\ progress.findings = ledger.emitted
    BY DEF LedgerMatchesProgress
  <2>1. Out = {} /\ Between = {} /\ FailedBetween = {} /\ FindingBetween = {}
    BY DEF LedgerInv, PlaceInv, InFlight, Active, Out, Between, FailedBetween, FindingBetween
  <2>2. /\ progress.started \in Nat /\ progress.finished \in Nat /\ progress.failed \in Nat
        /\ progress.findings \in Nat
    BY DEF LedgerInv, CounterTypes
  <2>3. QED
    BY <2>1, <2>2, FS_EmptySet DEF LedgerInv, CountInv
<1>2. QED
  BY <1>1, LedgerInit, LedgerStep, Invariance, PTL DEF Spec

\* The state of a scan has the types of run()'s variables, and the budget
\* never hands out more permits than scope.max_requests.
THEOREM TypeCorrect == Spec => []TypeOK
<1>1. IInv /\ LedgerInv => TypeOK
  BY DEF IInv, LedgerInv, TypeInv, StageInv, CounterTypes, TypeOK, Stages, After
<1>2. QED
  BY <1>1, LedgerInit, LedgerStep, Invariance, PTL DEF Spec
-----------------------------------------------------------------------------
(***************************************************************************)
(* What the stages hide.  run() sees of a pooled stage what module Batch   *)
(* promises of BoundedScheduler.map: the batch is given back when the scan *)
(* goes on to the next stage.  A failing form probe ends the scan before   *)
(* the API stage, so a raised scan has given the API batch back only when  *)
(* no form probe failed.                                                   *)
(***************************************************************************)
Fate(j) ==
  CASE phase[j] = "waiting" -> "waiting"
    [] phase[j] \in {"running", "ended", "recorded"} -> "running"
    [] phase[j] = "returned" -> "ran"
    [] OTHER -> "skipped"

FatesIn(s) == [j \in JobsOf(s) |-> Fate(j)]

FormsWentWell == \A j \in FormJobs : verdict[j] # "error"

Back(s) ==
  /\ Reached
  /\ s # "url" => ~ config.passive
  /\ stage \notin {"crawl", "url", "crawl_raised"}
  /\ s \in {"param", "api"} => stage # "param"
  /\ s = "api" => stage \in PastApi \/ (stage = "raised" /\ FormsWentWell)

PooledStages == {"url", "param", "api"}

Stage(s) == INSTANCE Batch WITH
  Tasks <- JobsOf(s), ceiling <- Concurrency, fate <- FatesIn(s),
  gone <- exhausted, returned <- Back(s)

FormsInv == stage # "raised" => \A j \in FormJobs : phase[j] = "returned" => verdict[j] # "error"

StagesInv == IInv /\ LedgerInv /\ FormsInv

LEMMA StagesInit == Init => FormsInv
  BY DEF Init, FormsInv

LEMMA FormsStep == IInv /\ FormsInv /\ [Next]_vars => FormsInv'
<1> SUFFICES ASSUME IInv, FormsInv, [Next]_vars PROVE FormsInv'
  OBVIOUS
<1> USE DEF IInv, FormsInv
<1>1. ASSUME NEW j \in Jobs, JobStep(j) PROVE FormsInv'
  <2>1. CASE Report(j)
    BY <2>1, OwnStage DEF Report, Active, TypeInv
  <2>2. CASE ~ Report(j)
    <3>1. stage' = stage
      BY <1>1, <2>2 DEF JobStep, Begin, Skip, Probe, End, Record
    <3>2. \A i \in Jobs : phase'[i] = "returned" => phase[i] = "returned" /\ verdict'[i] = verdict[i]
      BY <1>1, <2>2 DEF JobStep, Begin, Skip, Probe, End, Record, JobVars, TypeInv
    <3>3. QED
      BY <3>1, <3>2
  <2>3. QED
    BY <2>1, <2>2
<1>2. CASE MainStep
  <2>1. phase' = phase /\ verdict' = verdict
    BY <1>2 DEF MainStep, StageRequest, Crawl, MergeUrlJobs, MergeParamJobs, EndForms, Component,
       SwallowingStage, SecurityModel, ComputeStatus, Finalize, JobVars
  <2>2. stage # "raised"
    BY <1>2 DEF MainStep, StageRequest, Crawl, MergeUrlJobs, MergeParamJobs, EndForms, Component,
       SwallowingStage, Asking, Components, Swallowing, SecurityModel, ComputeStatus, Finalize
  <2>3. QED
    BY <2>1, <2>2
<1>3. CASE UNCHANGED vars
  BY <1>3 DEF vars
<1>4. QED
  BY <1>1, <1>2, <1>3 DEF Next, Finished

LEMMA StagesInvariance == Spec => []StagesInv
<1>1. IInv /\ LedgerInv /\ FormsInv /\ [Next]_vars => FormsInv' /\ LedgerInv'
  BY FormsStep, LedgerStep
<1>2. QED
  BY <1>1, LedgerInit, StagesInit, Invariance, PTL DEF Spec, StagesInv

-----------------------------------------------------------------------------
\* What a step shows of the batch of stage s, where it is none of its own.
BatchStutter(s) == UNCHANGED <<Concurrency, FatesIn(s), exhausted, Back(s)>>

LEMMA SpentOrNot ==
  ASSUME TypeInv, AskBudget
  PROVE  exhausted' = exhausted \/ exhausted' = TRUE
  BY DEF AskBudget

\* A request, of an invocation or of a stage, can only spend the budget.
LEMMA RequestsOfStage ==
  ASSUME TypeInv, NEW s \in PooledStages, AskBudget,
         UNCHANGED <<stage, JobVars, findings, progress, component_errors, report>>
  PROVE  Stage(s)!Exhaust \/ BatchStutter(s)
<1>1. FatesIn(s)' = FatesIn(s) /\ Back(s)' = Back(s)
  BY DEF FatesIn, Fate, Back, Reached, FormsWentWell, JobVars
<1>2. QED
  BY <1>1, SpentOrNot DEF Stage!Exhaust, BatchStutter

\* An invocation moves its own fate, and the batch of its own stage.
LEMMA FatesOfJob ==
  ASSUME TypeInv, StageInv, NEW s \in PooledStages, NEW j \in Active, NEW p,
         p \in {"running", "ended", "recorded", "returned", "skipped"},
         phase' = [phase EXCEPT ![j] = p]
  PROVE  /\ stage # s => FatesIn(s)' = FatesIn(s)
         /\ stage = s => /\ j \in JobsOf(s) /\ FatesIn(s)[j] = Fate(j)
                         /\ FatesIn(s)' = [FatesIn(s) EXCEPT ![j] = Fate(j)']
<1>1. \A i \in Jobs : i # j => phase'[i] = phase[i]
  BY DEF TypeInv
<1>2. JobsOf(s) \subseteq Jobs
  BY DEF JobsOf, PooledStages
<1>3. \A i \in Jobs : i # j => Fate(i)' = Fate(i)
  BY <1>1 DEF Fate
<1>4. ASSUME stage # s PROVE j \notin JobsOf(s)
  BY <1>4, OwnStage, ScanAssumption DEF Active, JobsOf, PooledStages
<1>5. CASE stage # s
  BY <1>2, <1>3, <1>4, <1>5 DEF FatesIn
<1>6. CASE stage = s
  BY <1>2, <1>3, <1>6 DEF FatesIn, Active
<1>7. QED
  BY <1>5, <1>6

LEMMA BackKept ==
  ASSUME NEW s \in PooledStages, UNCHANGED <<config, stage, report>>, stage # "raised"
  PROVE  Back(s)' = Back(s)
  BY DEF Back, Reached

LEMMA JobOfStage ==
  ASSUME StagesInv, NEW s \in PooledStages, NEW j \in Jobs, JobStep(j)
  PROVE  Stage(s)!BatchNext \/ BatchStutter(s)
<1> USE DEF StagesInv, IInv
<1>0. j \in Active /\ stage \in JobStages /\ phase[j] \in {"waiting", "running", "ended", "recorded"}
  BY OwnStage DEF JobStep, Begin, Skip, Probe, End, Record, Report, Active, JobStages
<1>1. CASE Begin(j)
  <2>1. /\ phase[j] = "waiting" /\ phase' = [phase EXCEPT ![j] = "running"]
        /\ UNCHANGED <<config, stage, report, exhausted>>
    BY <1>1 DEF Begin
  <2>2. Back(s)' = Back(s)
    BY <1>0, <2>1, BackKept DEF JobStages
  <2>3. CASE stage # s
    BY <1>0, <2>1, <2>2, <2>3, FatesOfJob DEF BatchStutter
  <2>4. CASE stage = s
    <3>1. Fate(j) = "waiting" /\ Fate(j)' = "running"
      BY <2>1 DEF Fate, TypeInv
    <3>2. /\ FatesIn(s)[j] = "waiting" /\ FatesIn(s)' = [FatesIn(s) EXCEPT ![j] = "running"]
          /\ j \in JobsOf(s)
      BY <1>0, <2>1, <2>4, <3>1, FatesOfJob
    <3>3. {i \in JobsOf(s) : FatesIn(s)[i] = "running"} = InFlight
      <4>1. \A i \in JobsOf(s) : FatesIn(s)[i] = Fate(i) /\ i \in Jobs
        BY DEF FatesIn, JobsOf, PooledStages
      <4>2. \A i \in Jobs : Fate(i) = "running" <=> phase[i] \in {"running", "ended", "recorded"}
        BY DEF Fate, TypeInv
      <4>3. QED
        BY <2>4, <4>1, <4>2 DEF InFlight, Active
    <3>4. Cardinality(InFlight) < Concurrency
      BY <1>1, <2>4 DEF Begin, Ceiling, PooledStages
    <3>5. UNCHANGED <<Concurrency, exhausted, Back(s)>>
      BY <2>1, <2>2
    <3>6. Stage(s)!Start(j)
      BY <3>2, <3>3, <3>4, <3>5, Zenon DEF Stage!Start, Stage!Cardinality, Cardinality
    <3>7. QED
      BY <3>2, <3>6 DEF Stage!BatchNext
  <2>5. QED
    BY <2>3, <2>4
<1>2. CASE Skip(j)
  <2>1. /\ exhausted /\ phase[j] = "waiting" /\ phase' = [phase EXCEPT ![j] = "skipped"]
        /\ UNCHANGED <<config, stage, report, exhausted>>
    BY <1>2 DEF Skip
  <2>2. Back(s)' = Back(s)
    BY <1>0, <2>1, BackKept DEF JobStages
  <2>3. CASE stage # s
    BY <1>0, <2>1, <2>2, <2>3, FatesOfJob DEF BatchStutter
  <2>4. CASE stage = s
    <3>1. Fate(j) = "waiting" /\ Fate(j)' = "skipped"
      BY <2>1 DEF Fate, TypeInv
    <3>2. /\ FatesIn(s)[j] = "waiting" /\ FatesIn(s)' = [FatesIn(s) EXCEPT ![j] = "skipped"]
          /\ j \in JobsOf(s)
      BY <1>0, <2>1, <2>4, <3>1, FatesOfJob
    <3>3. Stage(s)!Skip(j)
      BY <2>1, <2>2, <3>2 DEF Stage!Skip
    <3>4. QED
      BY <3>2, <3>3 DEF Stage!BatchNext
  <2>5. QED
    BY <2>3, <2>4
<1>3. CASE Probe(j)
  BY <1>3, RequestsOfStage DEF Probe, Stage!BatchNext
<1>4. CASE Record(j) \/ \E v \in {"clean", "finding", "error"} : End(j, v)
  <2>1. /\ UNCHANGED <<config, stage, report, exhausted>>
        /\ \E p \in {"ended", "recorded"} : phase' = [phase EXCEPT ![j] = p]
        /\ phase[j] \in {"running", "ended"}
    BY <1>4 DEF Record, End
  <2>2. Back(s)' = Back(s)
    BY <1>0, <2>1, BackKept DEF JobStages
  <2>3. Fate(j)' = Fate(j)
    BY <2>1 DEF Fate, TypeInv
  <2>4. FatesIn(s)' = FatesIn(s)
    <3>1. \A i \in Jobs : Fate(i)' = Fate(i)
      BY <2>1, <2>3 DEF Fate, TypeInv
    <3>2. JobsOf(s) \subseteq Jobs
      BY DEF JobsOf, PooledStages
    <3>3. QED
      BY <3>1, <3>2 DEF FatesIn
  <2>5. QED
    BY <2>1, <2>2, <2>4 DEF BatchStutter
<1>5. CASE Report(j)
  <2>1. /\ phase[j] = "recorded" /\ phase' = [phase EXCEPT ![j] = "returned"]
        /\ UNCHANGED <<config, verdict, report, exhausted>>
        /\ stage # "forms" => stage' = stage
        /\ stage' = stage \/ (stage' = "raised" /\ verdict[j] = "error")
    BY <1>5 DEF Report
  <2>2. Back(s)' = Back(s)
    <3>1. CASE stage' = stage
      BY <1>0, <2>1, <3>1, BackKept DEF JobStages
    <3>2. CASE stage' # stage
      <4>1. stage = "forms" /\ stage' = "raised" /\ j \in FormJobs /\ verdict'[j] = "error"
        BY <1>0, <2>1, <3>2, OwnStage DEF Active
      <4>2. ~ FormsWentWell'
        BY <4>1 DEF FormsWentWell
      <4>3. QED
        BY <2>1, <4>1, <4>2 DEF Back, Reached, PooledStages
    <3>3. QED
      BY <3>1, <3>2
  <2>3. CASE stage # s
    BY <1>0, <2>1, <2>2, <2>3, FatesOfJob DEF BatchStutter
  <2>4. CASE stage = s
    <3>1. Fate(j) = "running" /\ Fate(j)' = "ran"
      BY <2>1 DEF Fate, TypeInv
    <3>2. /\ FatesIn(s)[j] = "running" /\ FatesIn(s)' = [FatesIn(s) EXCEPT ![j] = "ran"]
          /\ j \in JobsOf(s)
      BY <1>0, <2>1, <2>4, <3>1, FatesOfJob
    <3>3. Stage(s)!Stop(j)
      BY <2>1, <2>2, <3>2 DEF Stage!Stop
    <3>4. QED
      BY <3>2, <3>3 DEF Stage!BatchNext
  <2>5. QED
    BY <2>3, <2>4
<1>6. QED
  BY <1>1, <1>2, <1>3, <1>4, <1>5 DEF JobStep

\* The stages follow each other in one direction.
LEMMA StagesGoOn ==
  ASSUME TypeInv, MainStep, ~ StageRequest, ~ SecurityModel
  PROVE  /\ stage # "raised" /\ stage' # "raised"
         /\ stage \in PastApi => stage' \in PastApi
         /\ stage' \notin {"crawl", "url", "param"} \/ stage \in {"crawl", "url"}
         /\ stage' \notin {"crawl", "url", "crawl_raised"} \/ stage = "crawl"
<1>1. config.passive \in BOOLEAN /\ config.model \in BOOLEAN
  BY DEF TypeInv, Configs
<1>2. CASE \/ \E outcome \in {"reached", "raised", "unreachable"} : Crawl(outcome)
           \/ \E valid \in BOOLEAN : Finalize(valid)
  <2>1. \/ stage = "crawl" /\ stage' \in {"url", "done", "crawl_raised"}
        \/ stage = "report" /\ stage' = "done"
    <3>1. After["crawl"] = "url"
      BY DEF After
    <3>2. ASSUME NEW outcome \in {"reached", "raised", "unreachable"}, Crawl(outcome)
          PROVE  stage = "crawl" /\ stage' \in {"url", "done", "crawl_raised"}
      BY <3>1, <3>2 DEF Crawl, Advance
    <3>3. ASSUME NEW valid \in BOOLEAN, Finalize(valid)
          PROVE  stage = "report" /\ stage' = "done"
      BY <3>3 DEF Finalize
    <3>4. QED
      BY <1>2, <3>2, <3>3
  <2>2. QED
    BY <2>1
<1>3. CASE MergeUrlJobs \/ MergeParamJobs \/ EndForms
  BY <1>1, <1>3 DEF MergeUrlJobs, MergeParamJobs, EndForms, Advance, After
<1>4. CASE \E failed \in BOOLEAN : Component(failed)
  BY <1>1, <1>4 DEF Component, Advance, After
<1>5. CASE SwallowingStage \/ ComputeStatus
  BY <1>5 DEF SwallowingStage, Swallowing, ComputeStatus, Advance, After
<1>6. QED
  BY <1>2, <1>3, <1>4, <1>5 DEF MainStep

\* The calling thread gives a batch back when it goes on, and never takes that
\* back; it goes on from a batch that is settled.
LEMMA MainOfStage ==
  ASSUME StagesInv, StagesInv', NEW s \in PooledStages, MainStep
  PROVE  Stage(s)!BatchNext \/ BatchStutter(s)
<1> USE DEF StagesInv, IInv
<1>1. CASE StageRequest
  BY <1>1, RequestsOfStage DEF StageRequest, Stage!BatchNext
<1>2. CASE ~ StageRequest
  <2>1. UNCHANGED <<config, phase, verdict, exhausted>>
    BY <1>2 DEF MainStep, Crawl, MergeUrlJobs, MergeParamJobs, EndForms, Component,
       SwallowingStage, SecurityModel, ComputeStatus, Finalize, JobVars
  <2>2. FatesIn(s)' = FatesIn(s)
    BY <2>1 DEF FatesIn, Fate
  <2>3. Back(s) => Back(s)'
    <3>1. SUFFICES ASSUME Back(s) PROVE Back(s)'
      OBVIOUS
    <3>2. CASE SecurityModel
      <4>1. stage = "model" /\ stage' = "raised" /\ report' = report
        BY <3>2 DEF SecurityModel
      <4>2. ~ config.passive => FormsWentWell'
        BY <2>1, <4>1, <3>1 DEF Back, FormsInv, FormsWentWell, OrderInv, SettledJobs, JobInv, TypeInv
      <4>3. QED
        BY <2>1, <3>1, <4>1, <4>2 DEF Back, Reached, PooledStages
    <3>3. CASE ~ SecurityModel
      <4>1. stage # "crawl" /\ stage # "url" /\ (s \in {"param", "api"} => stage # "param")
        BY <3>1 DEF Back
      <4>2. report'.scan_status # "unreachable"
        <5>1. \/ report' = report
              \/ report'.scan_status \in {report.scan_status, "completed", "incomplete"}
          <6>1. report \in [scan_status : Statuses, request_budget_exhausted : BOOLEAN,
                            findings : SUBSET Jobs]
            BY DEF TypeInv
          <6>2. CASE ComputeStatus \/ \E valid \in BOOLEAN : Finalize(valid)
            BY <6>1, <6>2 DEF ComputeStatus, Finalize
          <6>3. CASE ~ (ComputeStatus \/ \E valid \in BOOLEAN : Finalize(valid))
            BY <1>2, <3>3, <4>1, <6>3 DEF MainStep, Crawl, MergeUrlJobs, MergeParamJobs, EndForms,
               Component, SwallowingStage
          <6>4. QED
            BY <6>2, <6>3
        <5>2. QED
          BY <3>1, <5>1 DEF Back, Reached
      <4>3. QED
        BY <2>1, <3>1, <3>3, <4>1, <4>2, <1>2, StagesGoOn DEF Back, Reached, PooledStages
    <3>4. QED
      BY <3>2, <3>3
  <2>4. CASE Back(s)' = Back(s)
    BY <2>1, <2>2, <2>4 DEF BatchStutter
  <2>5. CASE Back(s)' # Back(s)
    <3>1. Back(s)' /\ ~ Back(s)
      BY <2>3, <2>5 DEF Back
    <3>2. stage' # "raised"
      <4>1. ASSUME SecurityModel PROVE Back(s)
        <5>1. stage = "model" /\ report' = report
          BY <4>1 DEF SecurityModel
        <5>2. QED
          BY <2>1, <3>1, <5>1 DEF Back, Reached, PooledStages
      <4>2. QED
        BY <1>2, <3>1, <4>1, StagesGoOn
    <3>3. SettledJobs(JobsOf(s))'
      BY <3>1, <3>2 DEF Back, OrderInv, Reached, StageInv, PooledStages, JobsOf, SettledJobs
    <3>4. \A j \in JobsOf(s) : FatesIn(s)[j] \in {"ran", "skipped"}
      BY <2>1, <3>3 DEF SettledJobs, FatesIn, Fate
    <3>5. Back(s)' = TRUE
      BY <3>1 DEF Back
    <3>6. Stage(s)!GiveBack
      BY <2>1, <2>2, <3>4, <3>5 DEF Stage!GiveBack
    <3>7. QED
      BY <3>6 DEF Stage!BatchNext
  <2>6. QED
    BY <2>4, <2>5
<1>3. QED
  BY <1>1, <1>2

\* A scan does with the jobs of each pooled stage what the scheduler promises
\* of a batch: each is run once or, with the budget spent, skipped; never more
\* than scope.concurrency run together; and the scan goes on only when all are
\* settled, also when a form probe or the security model ends it early.
THEOREM StagesAreBatches ==
  ASSUME NEW s \in PooledStages
  PROVE  Spec => Stage(s)!BatchSpec
<1>1. Init => Stage(s)!BatchInit
  <2> SUFFICES ASSUME Init PROVE Stage(s)!BatchInit
    OBVIOUS
  <2>1. FatesIn(s) = [j \in JobsOf(s) |-> "waiting"]
    BY DEF Init, FatesIn, Fate, JobsOf, PooledStages
  <2>2. Back(s) = FALSE /\ exhausted = FALSE
    BY DEF Init, Back
  <2>3. QED
    BY <2>1, <2>2, ScanAssumption DEF Stage!BatchInit
<1>2. StagesInv /\ StagesInv' /\ [Next]_vars => [Stage(s)!BatchNext]_(Stage(s)!batchVars)
  <2> SUFFICES ASSUME StagesInv, StagesInv', [Next]_vars
               PROVE  Stage(s)!BatchNext \/ BatchStutter(s)
    BY DEF BatchStutter, Stage!batchVars
  <2>1. CASE \E j \in Jobs : JobStep(j)
    BY <2>1, JobOfStage
  <2>2. CASE MainStep
    BY <2>2, MainOfStage
  <2>3. CASE UNCHANGED vars
    BY <2>3 DEF vars, BatchStutter, FatesIn, Fate, Back, Reached, FormsWentWell
  <2>4. QED
    BY <2>1, <2>2, <2>3 DEF Next, Finished
<1>3. QED
  BY <1>1, <1>2, StagesInvariance, PTL DEF Spec, Stage!BatchSpec

-----------------------------------------------------------------------------
Budget == INSTANCE RequestBudget WITH
  refused <- IF exhausted THEN 1 ELSE 0, contacts <- {}

\* Every request that goes through the scan's client, of stages or of
\* invocations, takes one permit of that client's pool, and the flag the status
\* and the scheduler read is set only from a moment at which the pool was empty.
\* The clients the identity and model stages build are outside: this bounds
\* what the scan's client sends, not what the target receives.
THEOREM ScanClientSpendsBudget == Spec => Budget!BudgetSpec
<1>1. Init => Budget!BudgetInit
  BY DEF Init, Budget!BudgetInit
<1>2. TypeOK /\ [Next]_vars => [Budget!BudgetNext]_(Budget!budgetVars)
  <2> SUFFICES ASSUME TypeOK, [Next]_vars PROVE Budget!BudgetNext \/ UNCHANGED Budget!budgetVars
    OBVIOUS
  <2>1. AskBudget \/ UNCHANGED <<used, exhausted>>
    BY DEF Next, JobStep, MainStep, Finished, vars, Begin, Skip, Probe, End, Record, Report, StageRequest,
       Crawl, MergeUrlJobs, MergeParamJobs, EndForms, Component, SwallowingStage, SecurityModel,
       ComputeStatus, Finalize, JobVars
  <2>2. CASE AskBudget
    <3>1. CASE used < MaxRequests
      BY <2>2, <3>1 DEF AskBudget, Budget!BudgetNext, Budget!Grant
    <3>2. CASE ~ (used < MaxRequests)
      <4>1. used = MaxRequests /\ UNCHANGED used /\ exhausted'
        BY <2>2, <3>2, ScanAssumption DEF AskBudget, TypeOK
      <4>2. CASE exhausted
        BY <4>1, <4>2 DEF Budget!budgetVars
      <4>3. CASE ~ exhausted
        BY <4>1, <4>3 DEF Budget!BudgetNext, Budget!Refuse
      <4>4. QED
        BY <4>2, <4>3
    <3>3. QED
      BY <3>1, <3>2
  <2>3. CASE UNCHANGED <<used, exhausted>>
    BY <2>3 DEF Budget!budgetVars
  <2>4. QED
    BY <2>1, <2>2, <2>3
<1>3. QED
  BY <1>1, <1>2, TypeCorrect, PTL DEF Spec, Budget!BudgetSpec
=============================================================================
