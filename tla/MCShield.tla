------------------------------ MODULE MCShield ------------------------------
\* Traffic and configurations for model checking Shield.
EXTENDS Shield

\* Paths are cut into pieces of text: "/", "/api", "/api/x".
Plain(client, path) == [client |-> client, flaw |-> "none", path |-> path, shows |-> {}]
Flawed(flaw) == [client |-> "c1", flaw |-> flaw, path |-> <<"/">>, shows |-> {}]
Finding(confidence, severity, path) ==
  [confidence |-> confidence, severity |-> severity, path |-> path, family |-> "sql", patterned |-> TRUE]
Sql(client, path) == [Plain(client, path) EXCEPT !.shows = {"sql"}]

\* One client's requests against the limiter.
Rush ==
  [mode |-> "block", report |-> << >>, horizon |-> 6, steady |-> TRUE,
   traffic |-> [r \in 1..4 |-> Plain("c1", <<"/">>)]]

\* Three clients' requests show three routes to a gateway that learns, dies and starts again.
Learn ==
  [mode |-> "learn", report |-> << >>, horizon |-> 0, steady |-> FALSE,
   traffic |-> <<Plain("c1", <<"/">>), Plain("c2", <<"/", "api">>),
                Plain("c3", <<"/", "api", "/x">>)>>]

\* A report with two findings; requests that show what it patches, or flaws.
Patched ==
  [mode |-> "block", horizon |-> 0, steady |-> FALSE,
   report |-> <<Finding("confirmed", "HIGH", <<"/", "api">>), Finding("likely", "HIGH", <<"/">>)>>,
   traffic |-> <<Sql("c1", <<"/", "api", "/x">>), Sql("c2", <<"/">>),
                Flawed("framing"), Flawed("body")>>]

MCScenarios == [rush |-> Rush, learn |-> Learn, patched |-> Patched]
=============================================================================
