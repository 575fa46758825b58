------------------------------- MODULE Batch -------------------------------
(***************************************************************************)
(* What BoundedScheduler.map promises its caller, without threads or       *)
(* futures: every task meets exactly one fate, it is run or it is skipped, *)
(* a task is skipped only once the budget is gone, at most ceiling tasks   *)
(* run together, and the batch returns when every fate is settled.         *)
(***************************************************************************)
EXTENDS Naturals, FiniteSets

CONSTANT Tasks

VARIABLES ceiling, fate, gone, returned

batchVars == <<ceiling, fate, gone, returned>>

Fates == {"waiting", "running", "ran", "skipped"}

BatchInit ==
  /\ ceiling \in Nat \ {0}
  /\ fate = [t \in Tasks |-> "waiting"]
  /\ gone = FALSE
  /\ returned = FALSE

Start(t) ==
  /\ fate[t] = "waiting"
  /\ Cardinality({u \in Tasks : fate[u] = "running"}) < ceiling
  /\ fate' = [fate EXCEPT ![t] = "running"]
  /\ UNCHANGED <<ceiling, gone, returned>>

Stop(t) ==
  /\ fate[t] = "running"
  /\ fate' = [fate EXCEPT ![t] = "ran"]
  /\ UNCHANGED <<ceiling, gone, returned>>

Skip(t) ==
  /\ gone
  /\ fate[t] = "waiting"
  /\ fate' = [fate EXCEPT ![t] = "skipped"]
  /\ UNCHANGED <<ceiling, gone, returned>>

Exhaust ==
  /\ gone' = TRUE
  /\ UNCHANGED <<ceiling, fate, returned>>

GiveBack ==
  /\ \A t \in Tasks : fate[t] \in {"ran", "skipped"}
  /\ returned' = TRUE
  /\ UNCHANGED <<ceiling, fate, gone>>

BatchNext == (\E t \in Tasks : Start(t) \/ Stop(t) \/ Skip(t)) \/ Exhaust \/ GiveBack

BatchSpec == BatchInit /\ [][BatchNext]_batchVars
=============================================================================
