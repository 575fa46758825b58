---------------------------- MODULE MCAssurance ----------------------------
\* A policy for model checking Assurance: the owner must see the id, nobody else the secret.
EXTENDS Assurance
MCRequired == [i \in Identities |-> IF i \in Allowed THEN {"id"} ELSE {}]
MCForbidden == [i \in Identities |-> IF i \in Allowed THEN {} ELSE {"secret"}]
MCInvariants == {[subject |-> None, named |-> TRUE], [subject |-> Anonymous, named |-> FALSE]}
=============================================================================
