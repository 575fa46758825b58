----------------------------- MODULE MCAuditLog -----------------------------
(* Runs and contents are interchangeable, and only safety is checked. *)
EXTENDS AuditLog, TLC

Interchangeable == Permutations(Runs) \union Permutations(Bodies)
=============================================================================
