--------------------------- MODULE SchedulerProofs ---------------------------
(***************************************************************************)
(* For every number of tasks and every ceiling: the batch accounts for all *)
(* its tasks, and the threaded implementation refines module Batch.        *)
(***************************************************************************)
EXTENDS Scheduler, FiniteSetTheorems, TLAPS

\* What a future and the recorded outcome say of each other.  A future that was
\* dropped, and an outcome that says cancelled, need a spent budget.
FateInv ==
  \A t \in Tasks :
    /\ outcome[t] = "value" => future[t] = "value"
    /\ outcome[t] = "error" => future[t] \in {"error", "notified"}
    /\ outcome[t] = "cancelled" => future[t] = "none" /\ gone
    /\ future[t] \in {"cancelled", "notified"} => gone

\* The submission loop has dealt with the tasks before its cursor and no other.
LoopInv ==
  /\ pc = "sweep" => gone
  /\ pc = "inline" => cursor \in Tasks
  /\ \A t \in Tasks :
       LET met == pc \notin {"submit", "inline"} \/ t < cursor \/ (pc = "inline" /\ t = cursor)
       IN  /\ met => future[t] # "none" \/ outcome[t] = "cancelled"
           /\ ~ met => future[t] = "none" /\ outcome[t] = "none"

\* Without a pool a task runs on the calling thread, and is recorded at once.
InlineInv ==
  ~ Pooled => \A t \in Tasks :
    /\ future[t] \in {"none", "running", "value", "error"}
    /\ future[t] = "running" <=> pc = "inline" /\ t = cursor
    /\ future[t] \in {"value", "error"} => outcome[t] = future[t]

PoolInv == Pooled => pc # "inline"

\* When map() has returned, every task met its fate.
DoneInv == pc = "done" => \A t \in Tasks :
  /\ outcome[t] # "none"
  /\ future[t] \in {"none", "value", "error", "notified"}

IInv == TypeOK /\ FateInv /\ LoopInv /\ InlineInv /\ PoolInv /\ DoneInv

LEMMA Constants == N \in Nat \ {0} /\ MaxWorkers \in Nat \ {0} /\ Tasks \subseteq Nat
  BY SchedulerAssumption DEF Tasks

LEMMA CeilingType == TypeOK => max_workers \in Nat \ {0}
  BY Constants DEF TypeOK

LEMMA InitHolds == Init => IInv
<1> SUFFICES ASSUME Init PROVE IInv
  OBVIOUS
<1>0. 1 \in 1..(N + 1)
  BY Constants
<1>1. TypeOK /\ FateInv
  BY <1>0, Constants DEF Init, TypeOK, CallerStates, FateInv
<1>2. LoopInv
  BY Constants DEF Init, LoopInv, Tasks
<1>3. InlineInv /\ PoolInv /\ DoneInv
  BY DEF Init, InlineInv, PoolInv, DoneInv
<1>4. QED
  BY <1>1, <1>2, <1>3 DEF IInv

LEMMA CursorFacts ==
  ASSUME cursor \in 1..(N + 1)
  PROVE  /\ cursor \in Nat
         /\ cursor <= N => cursor \in Tasks /\ cursor + 1 \in 1..(N + 1)
         /\ cursor = N + 1 => \A t \in Tasks : t < cursor
         /\ \A t \in Tasks : t < cursor + 1 <=> t < cursor \/ t = cursor
         /\ 1 \in 1..(N + 1)
  BY Constants DEF Tasks

LEMMA StepHolds == IInv /\ [Next]_vars => IInv'
<1> SUFFICES ASSUME IInv, [Next]_vars PROVE IInv'
  OBVIOUS
<1> USE DEF IInv, Record, SetFuture
<1>0. /\ cursor \in Nat
      /\ cursor <= N => cursor \in Tasks /\ cursor + 1 \in 1..(N + 1)
      /\ cursor = N + 1 => \A t \in Tasks : t < cursor
      /\ \A t \in Tasks : t < cursor + 1 <=> t < cursor \/ t = cursor
      /\ 1 \in 1..(N + 1)
  BY CursorFacts DEF TypeOK
<1> USE <1>0
<1>1. CASE Decline
  <2>1. TypeOK'
    BY <1>1 DEF Decline, TypeOK, CallerStates
  <2>1a. FateInv'
    BY <1>1 DEF Decline, TypeOK, FateInv, LoopInv
  <2>2. LoopInv'
    BY <1>1 DEF Decline, TypeOK, FateInv, LoopInv
  <2>3. InlineInv' /\ PoolInv' /\ DoneInv'
    BY <1>1 DEF Decline, TypeOK, FateInv, LoopInv, Pooled, InlineInv, PoolInv, DoneInv
  <2>4. QED  BY <2>1, <2>1a, <2>2, <2>3
<1>2. CASE Submit
  <2>1. TypeOK'
    BY <1>2 DEF Submit, TypeOK, CallerStates
  <2>1a. FateInv'
    BY <1>2 DEF Submit, TypeOK, FateInv, LoopInv
  <2>2. LoopInv'
    BY <1>2 DEF Submit, TypeOK, FateInv, LoopInv
  <2>3. InlineInv' /\ PoolInv' /\ DoneInv'
    BY <1>2 DEF Submit, TypeOK, FateInv, LoopInv, Pooled, InlineInv, PoolInv, DoneInv
  <2>4. QED  BY <2>1, <2>1a, <2>2, <2>3
<1>3. CASE RunInline
  <2>1. TypeOK'
    BY <1>3 DEF RunInline, TypeOK, CallerStates
  <2>1a. FateInv'
    BY <1>3 DEF RunInline, TypeOK, FateInv, LoopInv
  <2>2. LoopInv'
    BY <1>3 DEF RunInline, TypeOK, FateInv, LoopInv
  <2>3. InlineInv' /\ PoolInv' /\ DoneInv'
    BY <1>3 DEF RunInline, TypeOK, FateInv, LoopInv, Pooled, InlineInv, PoolInv, DoneInv
  <2>4. QED  BY <2>1, <2>1a, <2>2, <2>3
<1>4. CASE \E how \in {"value", "error"} : FinishInline(how)
  <2>0. PICK how \in {"value", "error"} : FinishInline(how)
    BY <1>4
  <2>1. TypeOK'
    BY <2>0, Constants DEF FinishInline, TypeOK, CallerStates, LoopInv, Tasks
  <2>1a. FateInv'
    BY <2>0 DEF FinishInline, TypeOK, FateInv
  <2>2. LoopInv'
    BY <2>0 DEF FinishInline, TypeOK, FateInv, LoopInv
  <2>3. InlineInv' /\ PoolInv' /\ DoneInv'
    BY <2>0 DEF FinishInline, TypeOK, FateInv, LoopInv, Pooled, InlineInv, PoolInv, DoneInv
  <2>4. QED  BY <2>1, <2>1a, <2>2, <2>3
<1>5. CASE EndSubmission
  <2>1. TypeOK'
    BY <1>5 DEF EndSubmission, TypeOK, CallerStates
  <2>1a. FateInv'
    BY <1>5 DEF EndSubmission, TypeOK, FateInv
  <2>2. LoopInv'
    BY <1>5 DEF EndSubmission, TypeOK, FateInv, LoopInv
  <2>3. InlineInv' /\ PoolInv' /\ DoneInv'
    BY <1>5 DEF EndSubmission, TypeOK, FateInv, LoopInv, Pooled, InlineInv, PoolInv, DoneInv
  <2>4. QED  BY <2>1, <2>1a, <2>2, <2>3
<1>6. CASE \E t \in Tasks : Collect(t)
  <2>0. PICK t \in Tasks : Collect(t)
    BY <1>6
  <2>1. TypeOK'
    BY <2>0 DEF Collect, Ready, TypeOK, CallerStates
  <2>1a. FateInv'
    BY <2>0 DEF Collect, Ready, TypeOK, FateInv
  <2>2. LoopInv'
    BY <2>0 DEF Collect, Ready, TypeOK, FateInv, LoopInv
  <2>3. InlineInv' /\ PoolInv' /\ DoneInv'
    BY <2>0 DEF Collect, Ready, TypeOK, FateInv, LoopInv, Pooled, InlineInv, PoolInv, DoneInv
  <2>4. QED  BY <2>1, <2>1a, <2>2, <2>3
<1>7. CASE Check
  <2>1. TypeOK'
    BY <1>7 DEF Check, TypeOK, CallerStates
  <2>1a. FateInv'
    BY <1>7 DEF Check, TypeOK, FateInv
  <2>2. LoopInv'
    BY <1>7 DEF Check, TypeOK, FateInv, LoopInv
  <2>3. InlineInv' /\ PoolInv' /\ DoneInv'
    BY <1>7 DEF Check, TypeOK, FateInv, LoopInv, Pooled, InlineInv, PoolInv, DoneInv
  <2>4. QED  BY <2>1, <2>1a, <2>2, <2>3
<1>8. CASE Sweep
  <2>1. TypeOK'
    BY <1>8 DEF Sweep, TypeOK, CallerStates
  <2>1a. FateInv'
    BY <1>8 DEF Sweep, TypeOK, FateInv, LoopInv
  <2>2. LoopInv'
    BY <1>8 DEF Sweep, TypeOK, FateInv, LoopInv
  <2>3. InlineInv' /\ PoolInv' /\ DoneInv'
    BY <1>8 DEF Sweep, TypeOK, FateInv, LoopInv, Pooled, InlineInv, PoolInv, DoneInv
  <2>4. QED  BY <2>1, <2>1a, <2>2, <2>3
<1>9. CASE EndSweep
  <2>1. TypeOK'
    BY <1>9 DEF EndSweep, TypeOK, CallerStates
  <2>1a. FateInv'
    BY <1>9 DEF EndSweep, TypeOK, FateInv
  <2>2. LoopInv'
    BY <1>9 DEF EndSweep, TypeOK, FateInv, LoopInv
  <2>3. InlineInv' /\ PoolInv' /\ DoneInv'
    BY <1>9 DEF EndSweep, TypeOK, FateInv, LoopInv, Pooled, InlineInv, PoolInv, DoneInv
  <2>4. QED  BY <2>1, <2>1a, <2>2, <2>3
<1>10. CASE Return
  <2>1. TypeOK'
    BY <1>10 DEF Return, Submitted, TypeOK, CallerStates
  <2>1a. FateInv'
    BY <1>10 DEF Return, Submitted, TypeOK, FateInv
  <2>2. LoopInv'
    BY <1>10 DEF Return, Submitted, TypeOK, FateInv, LoopInv
  <2>3. InlineInv' /\ PoolInv' /\ DoneInv'
    BY <1>10 DEF Return, Submitted, TypeOK, FateInv, LoopInv, Pooled, InlineInv, PoolInv, DoneInv
  <2>4. QED  BY <2>1, <2>1a, <2>2, <2>3
<1>11. CASE \E t \in Tasks : Take(t)
  <2>0. PICK t \in Tasks : Take(t)
    BY <1>11
  <2>1. TypeOK'
    BY <2>0 DEF Take, Queued, TypeOK, CallerStates
  <2>1a. FateInv'
    BY <2>0 DEF Take, Queued, TypeOK, FateInv
  <2>2. LoopInv'
    BY <2>0 DEF Take, Queued, TypeOK, FateInv, LoopInv
  <2>3. InlineInv' /\ PoolInv' /\ DoneInv'
    BY <2>0 DEF Take, Queued, TypeOK, FateInv, LoopInv, Pooled, InlineInv, PoolInv, DoneInv
  <2>4. QED  BY <2>1, <2>1a, <2>2, <2>3
<1>12. CASE \E t \in Tasks, how \in {"value", "error"} : Finish(t, how)
  <2>0. PICK t \in Tasks, how \in {"value", "error"} : Finish(t, how)
    BY <1>12
  <2>1. TypeOK'
    BY <2>0 DEF Finish, TypeOK, CallerStates
  <2>1a. FateInv'
    BY <2>0 DEF Finish, TypeOK, FateInv
  <2>2. LoopInv'
    BY <2>0 DEF Finish, TypeOK, FateInv, LoopInv
  <2>3. InlineInv' /\ PoolInv' /\ DoneInv'
    BY <2>0 DEF Finish, TypeOK, FateInv, LoopInv, Pooled, InlineInv, PoolInv, DoneInv
  <2>4. QED  BY <2>1, <2>1a, <2>2, <2>3
<1>13. CASE SpendBudget
  <2>1. TypeOK'
    BY <1>13 DEF SpendBudget, TypeOK, CallerStates
  <2>1a. FateInv'
    BY <1>13 DEF SpendBudget, TypeOK, FateInv
  <2>2. LoopInv'
    BY <1>13 DEF SpendBudget, TypeOK, FateInv, LoopInv
  <2>3. InlineInv' /\ PoolInv' /\ DoneInv'
    BY <1>13 DEF SpendBudget, TypeOK, FateInv, LoopInv, Pooled, InlineInv, PoolInv, DoneInv
  <2>4. QED  BY <2>1, <2>1a, <2>2, <2>3
<1>14. CASE UNCHANGED vars
  <2>1. TypeOK'
    BY <1>14 DEF vars, TypeOK, CallerStates
  <2>1a. FateInv'
    BY <1>14 DEF vars, TypeOK, FateInv
  <2>2. LoopInv'
    BY <1>14 DEF vars, TypeOK, FateInv, LoopInv
  <2>3. InlineInv' /\ PoolInv' /\ DoneInv'
    BY <1>14 DEF vars, TypeOK, FateInv, LoopInv, Pooled, InlineInv, PoolInv, DoneInv
  <2>4. QED  BY <2>1, <2>1a, <2>2, <2>3
<1>15. QED
  BY <1>1, <1>2, <1>3, <1>4, <1>5, <1>6, <1>7, <1>8, <1>9, <1>10, <1>11, <1>12, <1>13, <1>14 DEF Next, Caller, Pool, Done

LEMMA Invariance == Spec => []IInv
  BY InitHolds, StepHolds, PTL DEF Spec

\* When map() returns every task is accounted for: a value is one it returned,
\* and without one it is among the failures, where a future cancelled in the
\* queue is too, or among the cancelled, never submitted.
THEOREM Accounting == Spec => []EveryTaskAccounted
<1>1. IInv => EveryTaskAccounted
  BY DEF IInv, FateInv, DoneInv, TypeOK, EveryTaskAccounted, NeverRan
<1>2. QED
  BY <1>1, Invariance, PTL

\* The scheduler's state has the types map() gives it, whatever N and the ceiling.
THEOREM TypeCorrect == Spec => []TypeOK
<1>1. IInv => TypeOK
  BY DEF IInv
<1>2. QED
  BY <1>1, Invariance, PTL

-----------------------------------------------------------------------------
LEMMA FateCases ==
  ASSUME TypeOK, NEW t \in Tasks
  PROVE  /\ Fate(t) = "skipped" <=> \/ future[t] \in {"cancelled", "notified"}
                                    \/ future[t] = "none" /\ outcome[t] = "cancelled"
         /\ Fate(t) = "waiting" <=> \/ future[t] = "pending"
                                    \/ future[t] = "none" /\ outcome[t] # "cancelled"
         /\ Fate(t) = "running" <=> future[t] = "running"
         /\ Fate(t) = "ran" <=> future[t] \in {"value", "error"}
         /\ Fate(t) \in {"skipped", "waiting", "running", "ran"}
  BY DEF TypeOK, Fate, NeverRan

\* A step that leaves the fates, the flag and the return alone is a stutter.
LEMMA SameFates ==
  ASSUME TypeOK, TypeOK', \A t \in Tasks : Fate(t)' = Fate(t)
  PROVE  FateMap' = FateMap
  BY DEF FateMap

LEMMA OneFate ==
  ASSUME NEW t \in Tasks, NEW f, Fate(t)' = f, \A u \in Tasks \ {t} : Fate(u)' = Fate(u)
  PROVE  FateMap' = [FateMap EXCEPT ![t] = f]
  BY DEF FateMap

Stutter == UNCHANGED <<max_workers, FateMap, gone, pc = "done">>

LEMMA StepRefines ==
  ASSUME IInv, IInv', Next
  PROVE  AbstractBatch!BatchNext \/ Stutter
<1> USE DEF IInv, SetFuture, Record
<1>0. /\ cursor \in Nat
      /\ cursor <= N => cursor \in Tasks
      /\ TypeOK /\ TypeOK'
  BY CursorFacts DEF TypeOK
<1>1. ASSUME NEW t \in Tasks, future[t] \in {"none", "pending"}, outcome[t] # "cancelled",
             future' = [future EXCEPT ![t] = "running"], UNCHANGED <<gone, outcome>>,
             Cardinality(Running) < max_workers, max_workers' = max_workers, pc # "done", pc' # "done"
      PROVE  AbstractBatch!BatchNext
  <2>1. Fate(t) = "waiting" /\ Fate(t)' = "running"
    BY <1>0, <1>1, FateCases DEF TypeOK, Fate, NeverRan
  <2>2. \A u \in Tasks \ {t} : Fate(u)' = Fate(u)
    BY <1>1 DEF TypeOK, Fate, NeverRan
  <2>3. FateMap' = [FateMap EXCEPT ![t] = "running"] /\ FateMap[t] = "waiting"
    BY <2>1, <2>2, OneFate DEF FateMap
  <2>4. {u \in Tasks : FateMap[u] = "running"} = Running
    BY <1>0, FateCases DEF FateMap, Running
  <2>5. AbstractBatch!Start(t)
    <3>1. (pc = "done")' = (pc = "done")
      BY <1>1
    <3>2. Cardinality({u \in Tasks : FateMap[u] = "running"}) < max_workers
      BY <1>1, <2>4
    <3>3. gone' = gone /\ max_workers' = max_workers
      BY <1>1
    <3>4. QED
      BY <2>3, <3>1, <3>2, <3>3, Zenon DEF AbstractBatch!Start, AbstractBatch!Cardinality, Cardinality
  <2>6. QED
    BY <2>5 DEF AbstractBatch!BatchNext
<1>2. ASSUME NEW t \in Tasks, future[t] = "running", NEW how \in {"value", "error"},
             future' = [future EXCEPT ![t] = how], UNCHANGED <<max_workers, gone>>,
             \A u \in Tasks \ {t} : outcome'[u] = outcome[u], pc # "done", pc' # "done"
      PROVE  AbstractBatch!BatchNext
  <2>1. Fate(t) = "running" /\ Fate(t)' = "ran"
    BY <1>0, <1>2 DEF TypeOK, Fate, NeverRan
  <2>2. \A u \in Tasks \ {t} : Fate(u)' = Fate(u)
    BY <1>2 DEF TypeOK, Fate, NeverRan
  <2>3. FateMap' = [FateMap EXCEPT ![t] = "ran"] /\ FateMap[t] = "running"
    BY <2>1, <2>2, OneFate DEF FateMap
  <2>4. QED
    BY <1>2, <2>3 DEF AbstractBatch!Stop, AbstractBatch!BatchNext
<1>3. ASSUME NEW t \in Tasks, gone, gone', max_workers' = max_workers, Fate(t) = "waiting", Fate(t)' = "skipped",
             \A u \in Tasks \ {t} : Fate(u)' = Fate(u), pc # "done", pc' # "done"
      PROVE  AbstractBatch!BatchNext
  <2>1. FateMap' = [FateMap EXCEPT ![t] = "skipped"] /\ FateMap[t] = "waiting"
    BY <1>3, OneFate DEF FateMap
  <2>2. QED
    BY <1>0, <1>3, <2>1 DEF AbstractBatch!Skip, AbstractBatch!BatchNext, TypeOK
<1>4. ASSUME UNCHANGED <<max_workers, gone, future>>, pc # "done", pc' # "done",
             \A t \in Tasks : future[t] = "none" => outcome'[t] = outcome[t]
      PROVE  Stutter
  <2>1. \A t \in Tasks : Fate(t)' = Fate(t)
    BY <1>4 DEF Fate, NeverRan
  <2>2. QED
    BY <1>0, <1>4, <2>1, SameFates DEF Stutter
<1>5. CASE Decline
  <2>0. PICK t \in Tasks : t = cursor
    BY <1>0, <1>5 DEF Decline
  <2>1. /\ future' = future /\ max_workers' = max_workers /\ gone /\ gone' /\ pc # "done" /\ pc' # "done"
        /\ future[t] = "none" /\ outcome[t] = "none" /\ outcome'[t] = "cancelled"
    BY <1>0, <1>5, <2>0 DEF Decline, LoopInv, TypeOK
  <2>2. Fate(t) = "waiting" /\ Fate(t)' = "skipped"
    BY <2>1 DEF Fate, NeverRan
  <2>3. \A u \in Tasks \ {t} : Fate(u)' = Fate(u)
    BY <1>5, <2>0, <2>1 DEF Decline, Fate, NeverRan, TypeOK
  <2>4. QED
    BY <1>3, <2>1, <2>2, <2>3
<1>6. CASE Submit
  <2>1. \A t \in Tasks : Fate(t)' = Fate(t)
    BY <1>0, <1>6 DEF Submit, LoopInv, TypeOK, Fate, NeverRan
  <2>2. QED
    BY <1>0, <1>6, <2>1, SameFates DEF Submit, Stutter
<1>7. CASE RunInline
  <2>1. Running = {}
    BY <1>7 DEF RunInline, InlineInv, Running
  <2>2. Cardinality(Running) < max_workers
    BY <1>0, <2>1, FS_EmptySet, CeilingType
  <2>3. QED
    <3>1. /\ cursor \in Tasks /\ future[cursor] = "none" /\ outcome[cursor] = "none"
          /\ future' = [future EXCEPT ![cursor] = "running"] /\ UNCHANGED <<max_workers, gone, outcome>>
          /\ pc # "done" /\ pc' # "done"
      BY <1>0, <1>7 DEF RunInline, LoopInv
    <3>2. QED
      BY <1>1, <2>2, <3>1
<1>8. CASE \E how \in {"value", "error"} : FinishInline(how)
  <2>1. PICK how \in {"value", "error"} : FinishInline(how)
    BY <1>8
  <2>2. /\ cursor \in Tasks /\ future[cursor] = "running"
        /\ future' = [future EXCEPT ![cursor] = how] /\ UNCHANGED <<max_workers, gone>>
        /\ pc # "done" /\ pc' # "done"
    BY <2>1 DEF FinishInline, InlineInv, PoolInv, LoopInv
  <2>3. \A u \in Tasks \ {cursor} : outcome'[u] = outcome[u]
    BY <2>1, <2>2 DEF FinishInline, TypeOK
  <2>4. QED
    BY <1>2, <2>2, <2>3
<1>9. CASE EndSubmission \/ Check \/ EndSweep
  BY <1>4, <1>9 DEF EndSubmission, Check, EndSweep
<1>10. CASE \E t \in Tasks : Collect(t)
  BY <1>4, <1>10 DEF Collect, Ready, TypeOK
<1>11. CASE Sweep
  <2>1. CASE future[cursor] = "pending"
    <3>0. PICK t \in Tasks : t = cursor
      BY <1>0, <1>11 DEF Sweep
    <3>1. /\ gone /\ gone' /\ max_workers' = max_workers /\ pc # "done" /\ pc' # "done" /\ outcome' = outcome
          /\ future[t] = "pending" /\ future' = [future EXCEPT ![t] = "cancelled"]
      BY <1>11, <2>1, <3>0 DEF Sweep, LoopInv
    <3>2. Fate(t) = "waiting" /\ Fate(t)' = "skipped"
      BY <1>0, <3>1 DEF TypeOK, Fate, NeverRan
    <3>3. \A u \in Tasks \ {t} : Fate(u)' = Fate(u)
      BY <3>1 DEF Fate, NeverRan, TypeOK
    <3>4. QED
      BY <1>3, <3>1, <3>2, <3>3
  <2>2. CASE future[cursor] # "pending"
    BY <1>4, <1>11, <2>2 DEF Sweep
  <2>3. QED  BY <2>1, <2>2
<1>12. CASE Return
  <2>1. \A t \in Tasks : FateMap[t] \in {"ran", "skipped"}
    BY <1>0, <1>12, FateCases DEF Return, Submitted, LoopInv, FateMap, TypeOK
  <2>2. \A t \in Tasks : Fate(t)' = Fate(t)
    BY <1>12 DEF Return, Fate, NeverRan
  <2>3. QED
    BY <1>0, <1>12, <2>1, <2>2, SameFates DEF Return, AbstractBatch!GiveBack, AbstractBatch!BatchNext
<1>13. CASE \E t \in Tasks : Take(t)
  <2>1. PICK t \in Tasks : Take(t)
    BY <1>13
  <2>2. CASE future[t] = "pending"
    <3>1. Cardinality(Running) < PoolSize /\ PoolSize <= max_workers /\ Running \subseteq Tasks
      BY <1>0, <2>1, Constants, CeilingType DEF Take, PoolSize, Running
    <3>2. Cardinality(Running) \in Nat
      <4>1. IsFiniteSet(Tasks)
        BY Constants, FS_Interval DEF Tasks
      <4>2. QED
        BY <3>1, <4>1, FS_Subset, FS_CardinalityType
    <3>3. Cardinality(Running) < max_workers
      BY <1>0, <3>1, <3>2, Constants, CeilingType DEF PoolSize
    <3>4. pc # "done" /\ pc' # "done"
      BY <2>1, <2>2 DEF Take, DoneInv
    <3>5. outcome[t] # "cancelled"
      BY <2>2 DEF FateInv
    <3>6. QED
      BY <1>1, <2>1, <2>2, <3>3, <3>4, <3>5 DEF Take
  <2>3. CASE future[t] # "pending"
    <3>1. \A u \in Tasks : Fate(u)' = Fate(u)
      BY <1>0, <2>1, <2>3 DEF Take, Queued, TypeOK, Fate, NeverRan
    <3>2. QED
      BY <1>0, <2>1, <3>1, SameFates DEF Take, Stutter
  <2>4. QED  BY <2>2, <2>3
<1>14. CASE \E t \in Tasks, how \in {"value", "error"} : Finish(t, how)
  <2>1. PICK t \in Tasks, how \in {"value", "error"} : Finish(t, how)
    BY <1>14
  <2>2. pc # "done" /\ pc' # "done"
    BY <2>1 DEF Finish, DoneInv
  <2>3. QED
    BY <1>2, <2>1, <2>2 DEF Finish
<1>15. CASE SpendBudget
  <2>1. \A t \in Tasks : Fate(t)' = Fate(t)
    BY <1>15 DEF SpendBudget, Fate, NeverRan
  <2>2. QED
    BY <1>0, <1>15, <2>1, SameFates
    DEF SpendBudget, AbstractBatch!Exhaust, AbstractBatch!BatchNext
<1>16. CASE Done
  <2>1. \A t \in Tasks : Fate(t)' = Fate(t)
    BY <1>16 DEF Done, vars, Fate, NeverRan
  <2>2. QED
    BY <1>0, <1>16, <2>1, SameFates DEF Done, vars, Stutter
<1>17. QED
  BY <1>5, <1>6, <1>7, <1>8, <1>9, <1>10, <1>11, <1>12, <1>13, <1>14, <1>15, <1>16
  DEF Next, Caller, Pool

\* The threaded batch refines the abstract one: a task runs at most once and
\* never after it was skipped, only a spent budget skips it, at most max_workers
\* run together, and map() returns when all fates are settled.
THEOREM Refinement == Spec => ImplementsBatch
<1>1. Init => AbstractBatch!BatchInit
  BY Constants DEF Init, AbstractBatch!BatchInit, FateMap, Fate, NeverRan
<1>2. IInv /\ IInv' /\ [Next]_vars => [AbstractBatch!BatchNext]_(AbstractBatch!batchVars)
  <2>1. ASSUME IInv, UNCHANGED vars PROVE Stutter
    <3>1. \A t \in Tasks : Fate(t)' = Fate(t)
      BY <2>1 DEF vars, Fate, NeverRan
    <3>2. QED
      BY <2>1, <3>1 DEF vars, FateMap, Stutter
  <2>2. QED
    BY <2>1, StepRefines DEF Stutter, AbstractBatch!batchVars
<1>3. QED
  BY <1>1, <1>2, Invariance, PTL DEF Spec, ImplementsBatch, AbstractBatch!BatchSpec
-----------------------------------------------------------------------------
\* While the caller sweeps, the tasks it has passed are not pending: no step
\* puts a task on the queue once submission is over.
SweptInv == pc = "sweep" => \A t \in Tasks : t < cursor => future[t] # "pending"

LEMMA SweptStep == IInv /\ SweptInv /\ [Next]_vars => SweptInv'
<1> SUFFICES ASSUME IInv, SweptInv, [Next]_vars PROVE SweptInv'
  OBVIOUS
<1> USE DEF SweptInv, IInv, SetFuture, Record
<1>0. cursor \in Nat /\ TypeOK /\ \A t \in Tasks : t \in Nat
  BY CursorFacts, Constants DEF TypeOK
<1>1. CASE Decline \/ Submit \/ RunInline
  BY <1>1 DEF Decline, Submit, RunInline
<1>2. CASE \E how \in {"value", "error"} : FinishInline(how)
  BY <1>2 DEF FinishInline
<1>3. CASE EndSubmission \/ EndSweep \/ Return \/ SpendBudget
  BY <1>3 DEF EndSubmission, EndSweep, Return, SpendBudget
<1>4. CASE \E t \in Tasks : Collect(t)
  BY <1>4 DEF Collect
<1>5. CASE Check
  <2>1. \A t \in Tasks : ~ (t < 1)
    BY <1>0, Constants DEF Tasks
  <2>2. QED
    BY <1>5, <2>1 DEF Check
<1>6. CASE Sweep
  <2>1. \A t \in Tasks : t < cursor + 1 => t < cursor \/ t = cursor
    BY <1>0
  <2>2. QED
    BY <1>0, <1>6, <2>1 DEF Sweep, TypeOK
<1>7. CASE \E t \in Tasks : Take(t)
  BY <1>0, <1>7 DEF Take, TypeOK
<1>8. CASE \E t \in Tasks, how \in {"value", "error"} : Finish(t, how)
  BY <1>0, <1>8 DEF Finish, TypeOK
<1>9. CASE UNCHANGED vars
  BY <1>9 DEF vars
<1>10. QED
  BY <1>1, <1>2, <1>3, <1>4, <1>5, <1>6, <1>7, <1>8, <1>9 DEF Next, Caller, Pool, Done

\* When the caller leaves the sweep, no task of the batch is left on the queue:
\* every pending.cancel() that could succeed was made, whatever ran meanwhile.
THEOREM QueueIsSwept == Spec => SweepEmptiesQueue
<1>1. Init => SweptInv
  BY DEF Init, SweptInv
<1>2. ASSUME IInv, SweptInv, [Next]_vars, pc = "sweep", pc' = "collect"
      PROVE  \A t \in Tasks : future'[t] # "pending"
  <2>1. EndSweep
    BY <1>2 DEF vars, Next, Caller, Pool, Done, Decline, Submit, RunInline, FinishInline, EndSubmission,
                Collect, Check, Sweep, Return, SpendBudget, Take, Finish
  <2>2. \A t \in Tasks : t < N + 1
    BY Constants DEF Tasks
  <2>3. QED
    BY <1>2, <2>1, <2>2 DEF EndSweep, SweptInv
<1>3. IInv /\ SweptInv /\ [Next]_vars
        => [pc = "sweep" /\ pc' = "collect" => \A t \in Tasks : future'[t] # "pending"]_vars
  BY <1>2
<1>4. QED
  BY <1>1, <1>3, SweptStep, Invariance, PTL DEF Spec, SweepEmptiesQueue
=============================================================================
