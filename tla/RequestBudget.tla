--------------------------- MODULE RequestBudget ---------------------------
(***************************************************************************)
(* What the shared scan client promises about its request budget, with no  *)
(* locks, clocks or HTTP in it: a pool of MaxRequests permits, each handed *)
(* to one call, each used for at most one network contact, and a call      *)
(* refused only when the pool is empty.                                    *)
(***************************************************************************)
EXTENDS Naturals

CONSTANT MaxRequests

Permits == 1..MaxRequests

VARIABLES
  used,       \* how many permits have been handed out
  refused,    \* how many calls were turned away
  contacts    \* the permits that have been spent on a network contact

budgetVars == <<used, refused, contacts>>

BudgetInit ==
  /\ used = 0
  /\ refused = 0
  /\ contacts = {}

Grant ==
  /\ used < MaxRequests
  /\ used' = used + 1
  /\ UNCHANGED <<refused, contacts>>

Refuse ==
  /\ used = MaxRequests
  /\ refused' = refused + 1
  /\ UNCHANGED <<used, contacts>>

Contact(n) ==
  /\ n \in 1..used
  /\ n \notin contacts
  /\ contacts' = contacts \union {n}
  /\ UNCHANGED <<used, refused>>

BudgetNext == Grant \/ Refuse \/ \E n \in Permits : Contact(n)

BudgetSpec == BudgetInit /\ [][BudgetNext]_budgetVars
=============================================================================
