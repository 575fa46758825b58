----------------------------- MODULE Scheduler -----------------------------
(***************************************************************************)
(* BoundedScheduler.map (src/src/ersec/ersec_scheduler.py): a batch of     *)
(* independent tasks on a pool of worker threads, or inline when the       *)
(* ceiling is one.  The caller submits in order, collects results as they  *)
(* finish, and whenever should_cancel() says the shared budget is gone it  *)
(* cancels every future that has not started.                              *)
(*                                                                         *)
(* The pool is modelled as concurrent.futures behaves: workers take queued *)
(* futures in submission order; one that was cancelled is dropped by the   *)
(* worker that meets it, and only then does as_completed report it.        *)
(***************************************************************************)
EXTENDS Naturals, FiniteSets

CONSTANTS N,           \* number of tasks, in submission order 1..N
          MaxWorkers   \* bound: the largest ceiling a scheduler is built with

ASSUME SchedulerAssumption == N \in Nat \ {0} /\ MaxWorkers \in Nat \ {0}

Tasks == 1..N

VARIABLES
  max_workers,  \* the scheduler's ceiling, set when it is built
  gone,         \* should_cancel(): the budget flag tasks raise, never lowered
  pc,           \* the calling thread
  cursor,       \* task the calling thread is at in its loop
  future,       \* task -> state of its future
  outcome       \* task -> the TaskOutcome recorded for it

vars == <<max_workers, gone, pc, cursor, future, outcome>>

Pooled == max_workers > 1
\* ThreadPoolExecutor(max_workers=min(self.max_workers, len(task_list)))
PoolSize == IF max_workers <= N THEN max_workers ELSE N

CallerStates == {"submit", "inline", "collect", "check", "sweep", "done"}
Running == {t \in Tasks : future[t] = "running"}
Queued == {t \in Tasks : future[t] \in {"pending", "cancelled"}}
\* what as_completed has to yield: settled and not yet handed out
Ready == {t \in Tasks : future[t] \in {"value", "error", "notified"} /\ outcome[t] = "none"}
Submitted == {t \in Tasks : future[t] # "none"}

TypeOK ==
  /\ max_workers \in 1..MaxWorkers
  /\ gone \in BOOLEAN
  /\ pc \in CallerStates
  /\ cursor \in 1..(N + 1)
  /\ future \in [Tasks -> {"none", "pending", "running", "value", "error", "cancelled", "notified"}]
  /\ outcome \in [Tasks -> {"none", "value", "error", "cancelled"}]

Init ==
  /\ max_workers \in 1..MaxWorkers
  /\ gone = FALSE
  /\ pc = "submit"
  /\ cursor = 1
  /\ future = [t \in Tasks |-> "none"]
  /\ outcome = [t \in Tasks |-> "none"]

Record(t, o) == outcome' = [outcome EXCEPT ![t] = o]
SetFuture(t, f) == future' = [future EXCEPT ![t] = f]

-----------------------------------------------------------------------------
\* The submission loop, and the whole loop of the inline mode: should_cancel()
\* is asked before each task, a refused one is recorded as cancelled.
Decline ==
  /\ pc = "submit" /\ cursor <= N
  /\ gone
  /\ Record(cursor, "cancelled")
  /\ cursor' = cursor + 1
  /\ UNCHANGED <<max_workers, gone, pc, future>>

Submit ==
  /\ pc = "submit" /\ cursor <= N
  /\ ~ gone
  /\ Pooled
  /\ SetFuture(cursor, "pending")
  /\ cursor' = cursor + 1
  /\ UNCHANGED <<max_workers, gone, pc, outcome>>

RunInline ==
  /\ pc = "submit" /\ cursor <= N
  /\ ~ gone
  /\ ~ Pooled
  /\ SetFuture(cursor, "running")
  /\ pc' = "inline"
  /\ UNCHANGED <<max_workers, gone, cursor, outcome>>

FinishInline(how) ==
  /\ pc = "inline"
  /\ SetFuture(cursor, how)
  /\ Record(cursor, how)
  /\ cursor' = cursor + 1
  /\ pc' = "submit"
  /\ UNCHANGED <<max_workers, gone>>

EndSubmission ==
  /\ pc = "submit" /\ cursor = N + 1
  /\ pc' = "collect"
  /\ UNCHANGED <<max_workers, gone, cursor, future, outcome>>

-----------------------------------------------------------------------------
\* A pool thread takes the oldest queued future: it starts it, or, when it was
\* cancelled, tells as_completed and takes the next one.
Take(t) ==
  /\ Pooled
  /\ t \in Queued /\ \A u \in Queued : t <= u
  /\ Cardinality(Running) < PoolSize
  /\ SetFuture(t, IF future[t] = "pending" THEN "running" ELSE "notified")
  /\ UNCHANGED <<max_workers, gone, pc, cursor, outcome>>

Finish(t, how) ==
  /\ Pooled
  /\ future[t] = "running"
  /\ SetFuture(t, how)
  /\ UNCHANGED <<max_workers, gone, pc, cursor, outcome>>

\* A request of a running task finds the shared request budget spent.
SpendBudget ==
  /\ Running # {}
  /\ ~ gone
  /\ gone' = TRUE
  /\ UNCHANGED <<max_workers, pc, cursor, future, outcome>>

-----------------------------------------------------------------------------
\* as_completed yields a settled future; result() of a cancelled one raises
\* CancelledError, an Exception: its outcome has an error and is not cancelled.
Collect(t) ==
  /\ pc = "collect"
  /\ t \in Ready
  /\ Record(t, IF future[t] = "value" THEN "value" ELSE "error")
  /\ pc' = "check"
  /\ UNCHANGED <<max_workers, gone, cursor, future>>

\* Faulty variants (<action>_<fault>) stand before the action they distort: the
\* runs must tell them from the code.
Check_KeepsCursor ==
  /\ pc = "check"
  /\ IF gone THEN pc' = "sweep" ELSE pc' = "collect"
  /\ UNCHANGED <<max_workers, gone, cursor, future, outcome>>

\* should_cancel() after each result
Check ==
  /\ pc = "check"
  /\ IF gone THEN pc' = "sweep" /\ cursor' = 1 ELSE pc' = "collect" /\ UNCHANGED cursor
  /\ UNCHANGED <<max_workers, gone, future, outcome>>

Sweep_Running ==
  /\ pc = "sweep" /\ cursor <= N
  /\ IF future[cursor] \in {"pending", "running"}
     THEN SetFuture(cursor, "cancelled") ELSE UNCHANGED future
  /\ cursor' = cursor + 1
  /\ UNCHANGED <<max_workers, gone, pc, outcome>>

\* pending.cancel(), one future at a time: it fails on what already started.
Sweep ==
  /\ pc = "sweep" /\ cursor <= N
  /\ IF future[cursor] = "pending" THEN SetFuture(cursor, "cancelled") ELSE UNCHANGED future
  /\ cursor' = cursor + 1
  /\ UNCHANGED <<max_workers, gone, pc, outcome>>

EndSweep_Rechecks ==
  /\ pc = "sweep" /\ cursor = N + 1
  /\ pc' = "check"
  /\ UNCHANGED <<max_workers, gone, cursor, future, outcome>>

EndSweep ==
  /\ pc = "sweep" /\ cursor = N + 1
  /\ pc' = "collect"
  /\ UNCHANGED <<max_workers, gone, cursor, future, outcome>>

Return_Early ==
  /\ pc = "collect"
  /\ \A t \in Submitted : future[t] # "running" /\ (future[t] = "value" => outcome[t] # "none")
  /\ pc' = "done"
  /\ UNCHANGED <<max_workers, gone, cursor, future, outcome>>

\* as_completed has yielded every future and the executor shuts down.
Return ==
  /\ pc = "collect"
  /\ \A t \in Submitted : future[t] \in {"value", "error", "notified"} /\ outcome[t] # "none"
  /\ pc' = "done"
  /\ UNCHANGED <<max_workers, gone, cursor, future, outcome>>

Caller ==
  \/ Decline \/ Submit \/ RunInline
  \/ \E how \in {"value", "error"} : FinishInline(how)
  \/ EndSubmission
  \/ \E t \in Tasks : Collect(t)
  \/ Check \/ Sweep \/ EndSweep \/ Return

Pool == \E t \in Tasks : Take(t) \/ \E how \in {"value", "error"} : Finish(t, how)

Done == pc = "done" /\ UNCHANGED vars

Next == Caller \/ Pool \/ SpendBudget \/ Done

\* The caller and the pool's threads are scheduled, and a task ends: every
\* request it makes has a timeout.
Fairness == WF_vars(Caller) /\ \A t \in Tasks :
              WF_vars(Take(t)) /\ WF_vars(\E how \in {"value", "error"} : Finish(t, how))

Spec == Init /\ [][Next]_vars /\ Fairness

-----------------------------------------------------------------------------
NeverRan(t) ==
  \/ future[t] \in {"cancelled", "notified"}
  \/ future[t] = "none" /\ outcome[t] = "cancelled"

\* "accounted by caller; never silent": when map() returns, every task is in
\* the summary, with a value exactly if it ran and returned one.  Without one
\* it is among the failures if it raised or was cancelled in the queue, which
\* the summary does not tell apart, and among the cancelled only if it was never
\* submitted; what never ran needs a spent budget.
EveryTaskAccounted ==
  pc = "done" => \A t \in Tasks :
    /\ outcome[t] = "value" <=> future[t] = "value"
    /\ outcome[t] = "error" <=> future[t] \in {"error", "notified"}
    /\ outcome[t] = "cancelled" <=> future[t] = "none"
    /\ NeverRan(t) => gone

\* Once the caller has seen the budget gone and swept the queue, no task is
\* left that could still start and send requests.
SweepEmptiesQueue ==
  [][pc = "sweep" /\ pc' = "collect" => \A t \in Tasks : future'[t] # "pending"]_vars

\* The batch ends even when the budget goes while tasks wait: cancelled futures
\* do reach as_completed.
BatchReturns == <>(pc = "done")

\* The threaded batch implements the abstract one: a task runs at most once
\* and never after it was skipped, a skip needs a spent budget, the ceiling
\* holds, and map() returns only when every fate is settled.
Fate(t) ==
  CASE NeverRan(t) -> "skipped"
    [] future[t] \in {"none", "pending"} /\ ~ NeverRan(t) -> "waiting"
    [] future[t] = "running" -> "running"
    [] future[t] \in {"value", "error"} -> "ran"

FateMap == [t \in Tasks |-> Fate(t)]

AbstractBatch == INSTANCE Batch WITH
  ceiling <- max_workers, fate <- FateMap, returned <- pc = "done"

ImplementsBatch == AbstractBatch!BatchSpec
=============================================================================
