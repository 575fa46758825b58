------------------------------ MODULE ScanRun ------------------------------
(***************************************************************************)
(* ERSECScanner.run (src/src/ersec/ersec_core.py): one scan of one target, *)
(* from the crawl to the report.  The stages run in order on the calling   *)
(* thread; the detector jobs of a stage run on the scheduler's pool (its   *)
(* batch contract is module Batch), each through InstrumentedDetector,     *)
(* which keeps the execution ledger and the progress counters.  Requests   *)
(* of jobs and stages draw on the budget of the scan's client (module      *)
(* RequestBudget); those that stages send as other identities go through   *)
(* clients built on the spot, each with max_requests of its own, whose     *)
(* counts no code of the run reads: they are no steps here.                *)
(***************************************************************************)
EXTENDS Naturals, FiniteSets

CONSTANTS
  UrlJobs, ParamJobs, FormJobs, ApiJobs,  \* detector invocations per stage
  Concurrency,      \* scope.concurrency
  MaxRequests       \* scope.max_requests

ASSUME ScanAssumption ==
  /\ IsFiniteSet(UrlJobs \union ParamJobs \union FormJobs \union ApiJobs)
  /\ UrlJobs \intersect (ParamJobs \union FormJobs \union ApiJobs) = {}
  /\ ParamJobs \intersect (FormJobs \union ApiJobs) = {}
  /\ FormJobs \intersect ApiJobs = {}
  /\ Concurrency \in Nat \ {0} /\ MaxRequests \in Nat

Jobs == UrlJobs \union ParamJobs \union FormJobs \union ApiJobs
JobStages == {"url", "param", "forms", "api"}
JobsOf(s) == CASE s = "url" -> UrlJobs [] s = "param" -> ParamJobs
               [] s = "forms" -> FormJobs [] s = "api" -> ApiJobs [] OTHER -> {}

VARIABLES
  config,      \* of the scan: its profile, its switches, whether it has a security model
  stage,
  phase,       \* job -> where its invocation is
  verdict,     \* job -> what its detector ended with
  findings,    \* the jobs whose findings are in the run's list
  ledger,      \* ScanExecutionLedger: invocations by status, findings emitted
  progress,    \* ScanProgress
  used, exhausted,
  component_errors,
  report       \* what run() returns

vars == <<config, stage, phase, verdict, findings, ledger, progress, used, exhausted,
          component_errors, report>>

(***************************************************************************)
(* The stages that are one try/except each: what goes wrong in them is     *)
(* turned into an "error" entry, and the first six count as component      *)
(* failures of the scan.                                                   *)
(***************************************************************************)
Components == {"advanced_detection", "reasoning_upgrade", "security_boundary_differential",
               "workflow_replay", "security_decision_lattice", "enhanced_intelligence"}
\* A passive scan has no parameter, form or API stage.
After == [crawl |-> "url", url |-> IF config.passive THEN "advanced_detection" ELSE "param",
          param |-> "forms", forms |-> "schema_mining", schema_mining |-> "api",
          api |-> "heuristics",
          heuristics |-> "advanced_detection",
          advanced_detection |-> "reasoning_upgrade",
          reasoning_upgrade |-> "security_boundary_differential",
          security_boundary_differential |-> "workflow_replay",
          workflow_replay |-> "security_decision_lattice",
          security_decision_lattice |-> IF config.model THEN "model" ELSE "enhanced_intelligence",
          enhanced_intelligence |-> "agents", agents |-> "status",
          status |-> "repeatability", repeatability |-> "maturity", maturity |-> "report"]
\* stages whose own requests may fail without a trace in the report
Swallowing == {"schema_mining", "heuristics", "agents", "repeatability", "maturity"}
\* The decision lattice and the security model send all their requests, the
\* advanced detection and the workflow replay some, through other clients.
Asking == {"crawl"} \union (Components \ {"security_decision_lattice"}) \union Swallowing
\* The run ends in an exception from the crawl, or from a later stage.
Raised == {"crawl_raised", "raised"}
Stages == DOMAIN After \union {"model", "report", "done"} \union Raised

NoReport == [scan_status |-> "none", request_budget_exhausted |-> FALSE, findings |-> {}]

\* adaptive: --no-adaptive-discovery was not given.
Configs == [passive : BOOLEAN, model : BOOLEAN, adaptive : BOOLEAN]

Init ==
  /\ config \in Configs
  /\ stage = "crawl"
  /\ phase = [j \in Jobs |-> "waiting"]
  /\ verdict = [j \in Jobs |-> "none"]
  /\ findings = {}
  /\ ledger = [ok |-> 0, error |-> 0, emitted |-> 0]
  /\ progress = [started |-> 0, finished |-> 0, failed |-> 0, findings |-> 0]
  /\ used = 0 /\ exhausted = FALSE
  /\ component_errors = 0
  /\ report = NoReport

\* SafeHttpClient.request as a stage sees it: a permit, or the budget error.
AskBudget ==
  IF used < MaxRequests
  THEN used' = used + 1 /\ UNCHANGED exhausted
  ELSE exhausted' = TRUE /\ UNCHANGED used

Advance == stage' = After[stage]

\* what the stages leave alone
JobVars == <<config, phase, verdict, ledger>>

-----------------------------------------------------------------------------
\* The crawl, or the code of a stage that is no detector job, sends a request
\* through the scan's client.
StageRequest ==
  /\ stage \in Asking
  /\ AskBudget
  /\ UNCHANGED <<stage, JobVars, findings, progress, component_errors, report>>

\* Its end (module Crawler); a target that never answered ends the scan as
\* unreachable, an address on it that is none ends the run.
Crawl(outcome) ==
  /\ stage = "crawl"
  /\ outcome \in {"reached", "raised"} => used > 0
  /\ \/ outcome = "reached" /\ Advance /\ UNCHANGED report
     \/ outcome = "raised" /\ stage' = "crawl_raised" /\ UNCHANGED report
     \/ /\ outcome = "unreachable"
        /\ stage' = "done"
        /\ report' = [NoReport EXCEPT !.scan_status = "unreachable"]
  /\ UNCHANGED <<JobVars, findings, progress, used, exhausted, component_errors>>

Active == JobsOf(stage)
InFlight == {j \in Active : phase[j] \in {"running", "ended", "recorded"}}
\* the form loop is sequential, the other stages run on the pool
Ceiling == IF stage = "forms" THEN 1 ELSE Concurrency
\* a pool of one is no pool: the calling thread runs the jobs
Inline == Concurrency = 1 \/ Cardinality(Active) = 1

\* A detector invocation starts: detector_start().
Begin(j) ==
  /\ j \in Active
  /\ phase[j] = "waiting"
  /\ Cardinality(InFlight) < Ceiling
  /\ stage # "forms" /\ Inline => ~ exhausted  \* asked before each inline task
  /\ phase' = [phase EXCEPT ![j] = "running"]
  /\ progress' = [progress EXCEPT !.started = @ + 1]
  /\ UNCHANGED <<config, stage, verdict, findings, ledger, used, exhausted, component_errors, report>>

\* The scheduler skips a job the budget left no request for.
Skip(j) ==
  /\ j \in Active
  /\ stage # "forms"
  /\ exhausted
  /\ phase[j] = "waiting"
  /\ phase' = [phase EXCEPT ![j] = "skipped"]
  /\ UNCHANGED <<config, stage, verdict, findings, ledger, progress, used, exhausted,
                 component_errors, report>>

\* The detector sends a request and goes on.
Probe(j) ==
  /\ j \in Active
  /\ phase[j] = "running"
  /\ AskBudget
  /\ UNCHANGED <<stage, JobVars, findings, progress, component_errors, report>>

\* It ends.  A request that failed or met the spent budget may have been
\* swallowed by the detector, or may be the error it ends with.
End(j, v) ==
  /\ j \in Active
  /\ phase[j] = "running"
  /\ verdict' = [verdict EXCEPT ![j] = v]
  /\ phase' = [phase EXCEPT ![j] = "ended"]
  /\ UNCHANGED <<config, stage, findings, ledger, progress, used, exhausted, component_errors, report>>

\* InstrumentedDetector: the ledger entry, under the ledger's lock.
Record(j) ==
  /\ j \in Active
  /\ phase[j] = "ended"
  /\ phase' = [phase EXCEPT ![j] = "recorded"]
  /\ ledger' = CASE verdict[j] = "error" -> [ledger EXCEPT !.error = @ + 1]
                 [] verdict[j] = "finding" -> [ledger EXCEPT !.ok = @ + 1, !.emitted = @ + 1]
                 [] verdict[j] = "clean" -> [ledger EXCEPT !.ok = @ + 1]
  /\ UNCHANGED <<config, stage, verdict, findings, progress, used, exhausted, component_errors, report>>

\* Faulty variants (<definition>_<fault>) stand before the definition they
\* distort: the runs must tell them from the code.
Report_FailureUncounted(j) ==
  /\ j \in Active
  /\ phase[j] = "recorded"
  /\ phase' = [phase EXCEPT ![j] = "returned"]
  /\ progress' = IF verdict[j] = "error"
                 THEN [progress EXCEPT !.failed = @ + 1]
                 ELSE [progress EXCEPT !.finished = @ + 1,
                                       !.findings = IF verdict[j] = "finding" THEN @ + 1 ELSE @]
  /\ IF stage = "forms"
     THEN /\ stage' = IF verdict[j] = "error" THEN "raised" ELSE stage
          /\ findings' = IF verdict[j] = "finding" THEN findings \union {j} ELSE findings
     ELSE UNCHANGED <<stage, findings>>
  /\ UNCHANGED <<config, verdict, ledger, used, exhausted, component_errors, report>>

\* ... then detector_finish() or detector_fail(), under the progress lock.  A
\* failed form probe leaves run_param as RuntimeError, which the form loop
\* does not catch: run() itself ends with it.
Report(j) ==
  /\ j \in Active
  /\ phase[j] = "recorded"
  /\ phase' = [phase EXCEPT ![j] = "returned"]
  /\ progress' = IF verdict[j] = "error"
                 THEN [progress EXCEPT !.finished = @ + 1, !.failed = @ + 1]
                 ELSE [progress EXCEPT !.finished = @ + 1,
                                       !.findings = IF verdict[j] = "finding" THEN @ + 1 ELSE @]
  /\ IF stage = "forms"
     THEN /\ stage' = IF verdict[j] = "error" THEN "raised" ELSE stage
          /\ findings' = IF verdict[j] = "finding" THEN findings \union {j} ELSE findings
     ELSE UNCHANGED <<stage, findings>>
  /\ UNCHANGED <<config, verdict, ledger, used, exhausted, component_errors, report>>

Settled == \A j \in Active : phase[j] \in {"returned", "skipped"}

\* execute_url answers FINDINGS when the detector found something, PASSED when
\* it did not; the URL stage keeps the findings of results whose status is OK,
\* an alias of PASSED.
StatusOf(v) == CASE v = "finding" -> "findings" [] v = "clean" -> "passed" [] v = "error" -> "error"
StatusOK == "passed"

MergeUrlJobs ==
  /\ stage = "url"
  /\ Settled
  /\ findings' = findings \union
       {j \in UrlJobs : phase[j] = "returned" /\ verdict[j] = "finding"
                        /\ StatusOf(verdict[j]) = StatusOK}
  /\ Advance
  /\ UNCHANGED <<JobVars, progress, used, exhausted, component_errors, report>>

MergeParamJobs_AllOrNothing ==
  /\ stage \in {"param", "api"}
  /\ Settled
  /\ findings' = IF \E j \in Active : verdict[j] = "error" THEN findings
                 ELSE findings \union {j \in Active : phase[j] = "returned" /\ verdict[j] = "finding"}
  /\ Advance
  /\ UNCHANGED <<JobVars, progress, used, exhausted, component_errors, report>>

\* _parallel_param_checks keeps every outcome without an error.
MergeParamJobs ==
  /\ stage \in {"param", "api"}
  /\ Settled
  /\ findings' = findings \union {j \in Active : phase[j] = "returned" /\ verdict[j] = "finding"}
  /\ Advance
  /\ UNCHANGED <<JobVars, progress, used, exhausted, component_errors, report>>

EndForms ==
  /\ stage = "forms"
  /\ Settled
  /\ Advance
  /\ UNCHANGED <<JobVars, findings, progress, used, exhausted, component_errors, report>>

-----------------------------------------------------------------------------
\* The planner of adaptive discovery puts a list into a set, which raises, for
\* every page the crawl has reached.
Component(failed) ==
  /\ stage \in Components
  /\ stage = "advanced_detection" /\ config.adaptive => failed
  /\ component_errors' = IF failed THEN component_errors + 1 ELSE component_errors
  /\ Advance
  /\ UNCHANGED <<JobVars, findings, progress, used, exhausted, report>>

SwallowingStage_AwaitsBudget ==
  /\ stage \in Swallowing
  /\ ~ exhausted
  /\ Advance
  /\ UNCHANGED <<JobVars, findings, progress, used, exhausted, component_errors, report>>

SwallowingStage ==
  /\ stage \in Swallowing
  /\ Advance
  /\ UNCHANGED <<JobVars, findings, progress, used, exhausted, component_errors, report>>

\* With a security model the block assigns into _result before the name is
\* bound, in its body and again in its except clause.
SecurityModel ==
  /\ stage = "model"
  /\ stage' = "raised"
  /\ UNCHANGED <<JobVars, findings, progress, used, exhausted, component_errors, report>>

ComputeStatus_IgnoresBudget ==
  /\ stage = "status"
  /\ report' = [report EXCEPT
       !.scan_status = IF ledger.error > 0 \/ component_errors > 0
                       THEN "incomplete" ELSE "completed",
       !.findings = findings]
  /\ Advance
  /\ UNCHANGED <<JobVars, findings, progress, used, exhausted, component_errors>>

\* incomplete_reasons and scan_status
ComputeStatus ==
  /\ stage = "status"
  /\ report' = [report EXCEPT
       !.scan_status = IF ledger.error > 0 \/ exhausted \/ component_errors > 0
                       THEN "incomplete" ELSE "completed",
       !.findings = findings]
  /\ Advance
  /\ UNCHANGED <<JobVars, findings, progress, used, exhausted, component_errors>>

\* The completeness block, validate_report and mark_finished.
Finalize(valid) ==
  /\ stage = "report"
  /\ report' = [report EXCEPT !.request_budget_exhausted = exhausted,
                              !.scan_status = IF valid THEN @ ELSE "incomplete"]
  /\ progress' = [progress EXCEPT !.findings = Cardinality(findings)]
  /\ stage' = "done"
  /\ UNCHANGED <<JobVars, findings, used, exhausted, component_errors>>

JobStep(j) == \/ Begin(j) \/ Skip(j) \/ Probe(j)
              \/ \E v \in {"clean", "finding", "error"} : End(j, v)
              \/ Record(j) \/ Report(j)

MainStep ==
  \/ StageRequest \/ \E outcome \in {"reached", "raised", "unreachable"} : Crawl(outcome)
  \/ MergeUrlJobs \/ MergeParamJobs \/ EndForms
  \/ \E failed \in BOOLEAN : Component(failed)
  \/ SwallowingStage \/ SecurityModel \/ ComputeStatus
  \/ \E valid \in BOOLEAN : Finalize(valid)

Finished == stage \in {"done"} \union Raised /\ UNCHANGED vars

Next == (\E j \in Jobs : JobStep(j)) \/ MainStep \/ Finished

\* The calling thread and the pool's threads are scheduled; a request is
\* bounded by the client's timeouts, and a detector sends finitely many.
Fairness == WF_vars(MainStep) /\ \A j \in Jobs : WF_vars(JobStep(j))

Spec == Init /\ [][Next]_vars /\ Fairness

-----------------------------------------------------------------------------
Statuses == {"none", "unreachable", "completed", "incomplete"}

TypeOK ==
  /\ config \in Configs
  /\ stage \in Stages
  /\ phase \in [Jobs -> {"waiting", "running", "ended", "recorded", "returned", "skipped"}]
  /\ verdict \in [Jobs -> {"none", "clean", "finding", "error"}]
  /\ findings \subseteq Jobs
  /\ ledger \in [ok : Nat, error : Nat, emitted : Nat]
  /\ progress \in [started : Nat, finished : Nat, failed : Nat, findings : Nat]
  /\ used \in 0..MaxRequests /\ exhausted \in BOOLEAN
  /\ component_errors \in Nat
  /\ report \in [scan_status : Statuses, request_budget_exhausted : BOOLEAN,
                 findings : SUBSET Jobs]

\* The ledger and the progress counters are kept under two locks, in two steps
\* of the same invocation: when no invocation is under way they agree.
LedgerMatchesProgress ==
  InFlight = {} /\ stage # "done" =>
    /\ progress.started = progress.finished
    /\ progress.finished = ledger.ok + ledger.error
    /\ progress.failed = ledger.error
    /\ progress.findings = ledger.emitted

\* The invocations the profile asks for.
Planned == IF config.passive THEN UrlJobs ELSE Jobs

\* "A clean finding set is not equivalent to a complete assessment": a report
\* that says completed comes from a run in which every planned invocation ran
\* to its end, none failed or was skipped, and no component failed.
CompletedIsComplete ==
  report.scan_status = "completed" =>
    /\ \A j \in Planned : phase[j] = "returned" /\ verdict[j] \in {"clean", "finding"}
    /\ component_errors = 0

\* What the parameter, form and API invocations found is in the report, also
\* when others of the batch failed or were skipped, and nothing else is.
ReportKeepsFindings ==
  report.scan_status \in {"completed", "incomplete"} =>
    /\ {j \in Jobs \ UrlJobs : verdict[j] = "finding"} \subseteq report.findings
    /\ report.findings \subseteq {j \in Jobs : verdict[j] = "finding"}

\* A scan comes to an end, whatever fails and whenever the budget goes.
RunEnds == <>(stage \in {"done"} \union Raised)

\* "model findings enter the same list as detector findings before deduplication
\* and every downstream scoring/reporting stage" (ersec_core.py, run): the list
\* holds the findings of every invocation, and so does the report.  Violated: the URL
\* stage drops the findings of a result whose status is FINDINGS.
EmittedReachesReport ==
  report.scan_status \in {"completed", "incomplete"} =>
    {j \in Jobs : verdict[j] = "finding"} \subseteq report.findings
=============================================================================
