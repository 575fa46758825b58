------------------------------ MODULE Detectors ------------------------------
(***************************************************************************)
(* The detectors that send probes, and the replay that verifies what they  *)
(* reported (src/src/ersec/ersec_core.py: the BaseModule subclasses,       *)
(* reverify_finding).                                                      *)
(*                                                                         *)
(* A site is, for one detector, the answer to each probe it may send: of   *)
(* an answer the features the detector reads, or Failed for a request that *)
(* raised ScopeError or ERSECError.  A detector is an operator from a site *)
(* to what it reports: the probe each finding has as evidence and the      *)
(* confidence claimed, or Raised when the failure leaves the detector.     *)
(* Later the answer behind a finding may have changed, and every finding   *)
(* is replayed.                                                            *)
(*                                                                         *)
(* Features: echo, the answer holds what this probe sent; sig, it holds a  *)
(* text the detector looks for in any answer; code, its status (ok: it is  *)
(* 200); size, its length; time, the seconds the site takes, after the     *)
(* wait seconds that the client itself sleeps for its slot, which other    *)
(* threads' answers set; page, what is served there ("none": not 200).     *)
(***************************************************************************)
EXTENDS Naturals, FiniteSets, Sequences

CONSTANTS
  Codes,    \* the statuses an answer may have
  Times,    \* the seconds an answer may take
  Waits,    \* the seconds the client may wait before a request
  Longest,  \* bounds both together
  Failed    \* no answer: the request raised

\* Only a handshake is answered with 101; seconds are whole ones.
ASSUME CodesAssumption == Codes \subseteq Nat \ {101}
ASSUME TimesAssumption == Times \subseteq Nat /\ Waits \subseteq Nat

\* Two lengths that no threshold of the detectors takes for alike.
Sizes == {150, 400}

Expressions == {"braces", "dollar", "erb", "hash", "equals"}
Maybe(answers) == answers \union {Failed}
Echo == Maybe([echo : BOOLEAN])
Signature == Maybe([sig : BOOLEAN])
Page(pages) == Maybe([page : pages])
Status == Maybe([code : Codes])
Shape == Maybe([code : Codes, size : Sizes])
Listing == Maybe([sig : BOOLEAN, code : Codes])
Answered == Maybe([ok : BOOLEAN, size : Sizes])
Timed == {t \in [time : Times, wait : Waits] : t.time + t.wait <= Longest}
Time == Maybe(Timed)
Base == Maybe({b \in [size : Sizes, time : Times, wait : Waits] : b.time + b.wait <= Longest})

\* detector -> the sites it may meet.
Sites == [
  sql_injection |-> [bare : Base, quote : Signature, true : Answered, false : Answered,
                     sleep : Time, pg_sleep : Time, waitfor : Time, control : Time],
  sql_injection_form |-> [bare : Signature, form : Signature, json : Signature],
  xss |-> [tag : Echo, attribute : Echo, js : Echo, uri : Echo],
  open_redirect |-> [plain : Echo, slashes : Echo, backslash : Echo, scheme : Echo],
  ssrf |-> [local : Listing, bare : Status, decimal : Signature, ipv6 : Signature],
  nosql_injection |-> [operator : Signature, json : Signature],
  ssti |-> [Expressions -> Maybe([sig : BOOLEAN, echo : BOOLEAN])],
  ldap_injection |-> [probe : Signature],
  xpath_injection |-> [probe : Signature],
  crlf_injection |-> [crlf : Echo, lf : Echo],
  command_injection |-> [bare : Time, control : Time, semicolon : Time, pipe : Time, backtick : Time,
                         dollar : Time, ping : Time, timeout : Time],
  http_parameter_pollution |-> [bare : Shape, doubled : Shape],
  path_traversal |-> [bare : Shape, parent : Shape],
  prototype_pollution |-> [nested : Echo],
  cors |-> [origin : Maybe([acao : {"echo", "*", "null", "none"}, credentials : BOOLEAN]),
            null : Maybe([acao : {"echo", "*", "null", "none"}, credentials : BOOLEAN])],
  http_methods |-> [trace : Listing, options : Signature, bare : Status, override : Status],
  host_header |-> [host : Echo, forwarded : Echo],
  forwarded_host_trust |-> [bare : Status, forwarded : Echo],
  header_injection |-> [tag1 : Echo, quote1 : Signature, tag2 : Echo, quote2 : Signature],
  admin_exposure |-> [{"missing", "admin", "console"} -> Page({"none", "login", "users", "settings"})],
  exposed_files |-> [{"missing", "special", "plain"} -> Page({"none", "other", "key", "dump"})],
  directory_listing |-> [images : Listing, backup : Listing],
  graphql_introspection |-> [schema : Listing, deep : Maybe([code : Codes, errors : BOOLEAN])],
  security_txt |-> [known : Page({"none", "contact", "valid"}), root : Page({"none", "contact", "valid"}),
                    bare : Status],
  dom_xss |-> [bare : Signature],
  web_cache_deception |-> [bare : Shape, decoy : Maybe([code : Codes, size : Sizes, public : BOOLEAN])],
  path_canonicalization |-> [bare : Status, dot : Status, slashes : Status],
  content_negotiation_auth |-> [bare : Status, json : Status, html : Status],
  rate_limiting |-> [{"r1", "r2", "r3", "r4", "r5", "r6"} -> Status],
  xxe |-> [entity : Maybe([echo : BOOLEAN, code : Codes])],
  idor_heuristic |-> [own : Maybe([code : Codes, size : Sizes, gated : BOOLEAN]),
                      neighbour : Maybe([code : Codes, size : Sizes, gated : BOOLEAN])],
  user_enumeration |-> [first : Shape, second : Shape],
  stored_xss |-> [submit : Status, revisit : Echo],
  mass_assignment |-> [extra : Maybe([echo : BOOLEAN, code : Codes])],
  verbose_errors |-> [probe : Listing],
  source_map_exposure |-> [bare : Signature, first : Listing, second : Listing],
  service_worker_exposure |-> [first : Listing, second : Listing],
  client_side_credential_leak |-> [bare : Status, first : Signature, second : Signature],
  sri_integrity_mismatch |-> [bare : Status, first : Listing, second : Listing],
  dom_open_redirect |-> [bare : Signature, script : Signature],
  websocket |-> [bare : Listing, handshake : Maybe([code : Codes \union {101}])],
  cors_preflight_consistency |-> [normal : Maybe([acao : {"echo", "none"}]), preflight : Maybe([allows : BOOLEAN])],
  graphql_sensitive_schema |-> [schema : Listing],
  backup_artifact_exposure |-> [env : Page({"none", "html", "plain"}), dump : Page({"none", "html", "plain"})],
  api_content_type_confusion |-> [json : Maybe([json : BOOLEAN]),
                                  text : Maybe([json : BOOLEAN, sig : BOOLEAN, code : Codes])],
  json_parser_differential |-> [bare : Status, keys : Maybe([echo : BOOLEAN, code : Codes])],
  parameter_shape_differential |-> [bare : Shape, array : Shape, duplicate : Shape, empty : Shape],
  api_response_consistency |-> [json : Listing, html : Listing],
  security_header_drift |-> [root : Maybe([controls : SUBSET {"csp", "hsts"}]),
                             bare : Maybe([controls : SUBSET {"csp", "hsts"}])]
]
Detectors == DOMAIN Sites
Answers == [d \in Detectors |-> LET some == CHOOSE s \in Sites[d] : TRUE
                               IN [p \in DOMAIN some |-> {s[p] : s \in Sites[d]}]]

-----------------------------------------------------------------------------
(* What the detectors share                                                *)

Raised == [raised |-> TRUE, found |-> {}]
Found(findings) == [raised |-> FALSE, found |-> findings]
Nothing == Found({})
Finding(p, confidence) == {[by |-> p, confidence |-> confidence]}
When(condition, findings) == IF condition THEN findings ELSE {}

Ok(S, probes) == \A p \in probes : S[p] # Failed
Holds(S, p, feature) == S[p] # Failed /\ S[p][feature]
Echoes(S, p) == Holds(S, p, "echo")
Signs(S, p) == Holds(S, p, "sig")

\* The first of the probes that is answered and hits.
FirstHit(S, probes, Hit(_, _), confidence) ==
  UNION {Finding(probes[i], confidence) :
    i \in {j \in DOMAIN probes : Hit(S, probes[j]) /\ \A k \in 1..(j - 1) : ~Hit(S, probes[k])}}

-----------------------------------------------------------------------------
(* The detectors                                                           *)

\* A database error after a quote; else sizes that follow a boolean; else a
\* delay that a control probe does not show.  (Faulty variants,
\* <definition>_<fault>, stand before the definition they distort: the runs
\* must tell them from the code.)
Blindness_OneSided(S) ==
  /\ Ok(S, {"true", "false"}) /\ S.true.ok /\ S.false.ok
  /\ S.true.size = S.bare.size

Blindness(S) ==
  /\ Ok(S, {"true", "false"}) /\ S.true.ok /\ S.false.ok
  /\ S.true.size = S.bare.size /\ S.false.size # S.bare.size

\* The clock runs while the client sleeps for its slot, too.
Elapsed(answer) == answer.time + answer.wait
Delays(S, p) ==
  S[p] # Failed /\ Elapsed(S[p]) > 4 /\ Elapsed(S.bare) < 2 /\ (S.control # Failed => Elapsed(S.control) < 2)

Judge_sql_injection(S) ==
  IF ~Ok(S, {"bare", "quote"}) THEN Raised
  ELSE IF Signs(S, "quote") THEN Found(Finding("quote", "Likely"))
  ELSE IF Blindness(S) THEN Found(Finding("true", "Possible"))
  ELSE Found(FirstHit(S, <<"sleep", "pg_sleep", "waitfor">>, Delays, "Likely"))

Judge_sql_injection_form(S) ==
  IF ~Ok(S, {"bare", "form"}) THEN Raised
  ELSE Found(FirstHit(S, <<"form", "json">>, Signs, "Likely"))

Contexts == <<"tag", "attribute", "js", "uri">>

Judge_xss(S) ==
  IF \E i \in 1..4 : S[Contexts[i]] = Failed /\ \A k \in 1..(i - 1) : ~Echoes(S, Contexts[k])
  THEN Raised
  ELSE Found(FirstHit(S, Contexts, Echoes, "Confirmed"))

\* echo: a redirect to the host the probe named.
Judge_open_redirect(S) ==
  IF ~Ok(S, {"plain"}) THEN Nothing
  ELSE Found(FirstHit(S, <<"plain", "slashes", "backslash", "scheme">>, Echoes, "Confirmed"))

Judge_ssrf(S) ==
  IF ~Ok(S, {"local"}) THEN Nothing
  ELSE IF Signs(S, "local") THEN Found(Finding("local", "Likely"))
  ELSE IF ~Ok(S, {"bare"}) THEN Nothing
  ELSE IF S.local.code # S.bare.code /\ S.local.code \in {200, 500, 502, 504}
  THEN Found(Finding("local", "Possible"))
  ELSE Found(FirstHit(S, <<"decimal", "ipv6">>, Signs, "Likely"))

\* As for a form; a GET sends the operator alone.
Judge_nosql_injection(S) ==
  IF ~Ok(S, {"operator"}) THEN Nothing ELSE Found(FirstHit(S, <<"operator", "json">>, Signs, "Likely"))

\* sig: the answer holds 49.
Evaluates(S, p) == Signs(S, p) /\ ~Echoes(S, p)

Judge_ssti(S) == Found(FirstHit(S, <<"braces", "dollar", "erb", "hash", "equals">>, Evaluates, "Likely"))

Judge_ldap_injection(S) == Found(FirstHit(S, <<"probe">>, Signs, "Likely"))
Judge_xpath_injection(S) == Found(FirstHit(S, <<"probe">>, Signs, "Likely"))
Judge_crlf_injection(S) == Found(FirstHit(S, <<"crlf", "lf">>, Echoes, "Confirmed"))

Judge_command_injection(S) ==
  IF ~Ok(S, {"bare"}) THEN Nothing
  ELSE Found(FirstHit(S, <<"semicolon", "pipe", "backtick", "dollar", "ping", "timeout">>, Delays, "Likely"))

Differ(S, p, q) == S[p].code # S[q].code \/ S[p].size # S[q].size

Judge_http_parameter_pollution(S) ==
  Found(When(Ok(S, {"bare", "doubled"}) /\ Differ(S, "bare", "doubled"), Finding("doubled", "Possible")))

Judge_path_traversal(S) ==
  Found(When(Ok(S, {"bare", "parent"}) /\ Differ(S, "bare", "parent") /\ S.parent.code \notin {400, 404, 405},
           Finding("parent", "Possible")))

Judge_prototype_pollution(S) == Found(When(Echoes(S, "nested"), Finding("nested", "Possible")))

Judge_cors(S) ==
  IF ~Ok(S, {"origin"}) THEN Raised
  ELSE Found(When(S.origin.acao = "echo" \/ (S.origin.acao = "*" /\ S.origin.credentials),
                Finding("origin", "Confirmed"))
             \union When(Ok(S, {"null"}) /\ S.null.acao \in {"echo", "null"}, Finding("null", "Confirmed")))

\* sig: TRACE in the text; a risky method in Allow.
Overridden_NoBase(S) ==
  /\ Ok(S, {"override"}) /\ S.override.code \notin {400, 404, 405, 501}
  /\ S.bare # Failed => S.override.code # S.bare.code

Overridden(S) ==
  /\ Ok(S, {"bare", "override"})
  /\ S.override.code # S.bare.code /\ S.override.code \notin {400, 404, 405, 501}

Judge_http_methods(S) ==
  Found(When(Signs(S, "trace") /\ S.trace.code = 200, Finding("trace", "Confirmed"))
        \union When(Signs(S, "options"), Finding("options", "Confirmed"))
        \union When(Overridden(S), Finding("override", "Possible")))

Judge_host_header(S) ==
  IF ~Ok(S, {"host"}) THEN Nothing
  ELSE Found(UNION {When(Echoes(S, p), Finding(p, "Likely")) : p \in {"host", "forwarded"}})

Judge_forwarded_host_trust(S) ==
  Found(When(Ok(S, {"bare"}) /\ Echoes(S, "forwarded"), Finding("forwarded", "Confirmed")))

\* For each header (two of the four) a tag, and a quote where it comes back
\* encoded.
Judge_header_injection(S) ==
  LET Header(tag, quote) ==
        IF Echoes(S, tag) THEN Finding(tag, "Confirmed")
        ELSE When(Ok(S, {tag}) /\ Signs(S, quote), Finding(quote, "Likely"))
  IN Found(Header("tag1", "quote1") \union Header("tag2", "quote2"))

\* Two of the paths it tries, and two pages of a panel; a page whose text a
\* missing path gets too, with any status, is not it.
Live(S, p) == S[p] # Failed /\ S[p].page \in {"users", "settings"}
Judge_admin_exposure(S) ==
  Found(UNION {When(Live(S, p) /\ S.missing # S[p], Finding(p, "Possible")) : p \in {"admin", "console"}})

\* Two of the paths and two such files.  One without a signature of its own
\* is real when it is not html; what a missing path gets too is not.
Judge_exposed_files(S) ==
  LET Secret(p) == S[p] # Failed /\ S[p].page \in {"key", "dump"} /\ S.missing # S[p]
  IN Found(UNION {When(Secret(p), Finding(p, "Likely")) : p \in {"special", "plain"}})

\* Two of the directories.
Lists(S, p) == Signs(S, p) /\ S[p].code = 200

Judge_directory_listing_GivesUp(S) ==
  IF ~Ok(S, {"images"}) THEN Nothing
  ELSE Found(UNION {When(Lists(S, p), Finding(p, "Confirmed")) : p \in {"images", "backup"}})

Judge_directory_listing(S) ==
  Found(UNION {When(Lists(S, p), Finding(p, "Confirmed")) : p \in {"images", "backup"}})

\* One of the end points.
Judge_graphql_introspection(S) ==
  IF ~Lists(S, "schema") THEN Nothing
  ELSE Found(Finding("schema", "Confirmed")
             \union When(Ok(S, {"deep"}) /\ S.deep.code = 200 /\ ~S.deep.errors, Finding("deep", "Possible")))

\* "contact": published, without an Expires field.
Judge_security_txt(S) ==
  LET Published(T, p) == T[p] # Failed /\ T[p].page # "none"
      first == FirstHit(S, <<"known", "root">>, Published, "Confirmed")
  IN Found(IF first = {} THEN When(Ok(S, {"bare"}), Finding("bare", "Possible"))
           ELSE {f \in first : S[f.by].page = "contact"})

Judge_dom_xss(S) ==
  IF ~Ok(S, {"bare"}) THEN Raised ELSE Found(When(Signs(S, "bare"), Finding("bare", "Possible")))

Judge_web_cache_deception(S) ==
  Found(When(/\ Ok(S, {"bare", "decoy"})
           /\ S.bare.code = 200 /\ S.decoy.code = 200 /\ S.bare.size > 200 /\ S.decoy.size > 200
           /\ S.decoy.public,
           Finding("decoy", "Possible")))

Judge_path_canonicalization(S) ==
  LET Changes(T, p) == T[p] # Failed /\ T[p].code # T.bare.code /\ {T[p].code, T.bare.code} \intersect {200, 401, 403} # {}
  IN IF ~Ok(S, {"bare"}) THEN Nothing ELSE Found(FirstHit(S, <<"dot", "slashes">>, Changes, "Possible"))

Judge_content_negotiation_auth(S) ==
  LET codes == {S[p].code : p \in {"bare", "json", "html"}}
  IN IF ~Ok(S, {"bare", "json", "html"}) THEN Nothing
     ELSE Found(When(codes \intersect {401, 403} # {} /\ codes \intersect {200, 201, 204} # {},
                   Finding(IF S.json.code \in {200, 201, 204} THEN "json" ELSE "html", "Possible")))

\* A failed request ends the burst.
Burst == <<"r1", "r2", "r3", "r4", "r5", "r6">>
Judge_rate_limiting(S) ==
  LET sent == {i \in DOMAIN Burst : \A k \in 1..i : S[Burst[k]] # Failed}
      last == Burst[Cardinality(sent)]
  IN Found(When(sent # {} /\ \A i \in sent : S[Burst[i]].code = S[Burst[1]].code /\ S[Burst[i]].code \notin {429, 503},
              Finding(last, "Possible")))

Judge_xxe(S) == Found(When(Echoes(S, "entity") /\ S.entity.code < 500, Finding("entity", "Likely")))

Judge_idor_heuristic(S) ==
  Found(When(/\ Ok(S, {"own", "neighbour"}) /\ ~Differ(S, "own", "neighbour")
           /\ S.own.code = 200 /\ ~S.own.gated /\ ~S.neighbour.gated,
           Finding("neighbour", "Possible")))

Judge_user_enumeration(S) ==
  Found(When(Ok(S, {"first", "second"}) /\ Differ(S, "first", "second"), Finding("first", "Possible")))

Judge_stored_xss(S) == Found(When(Ok(S, {"submit"}) /\ Echoes(S, "revisit"), Finding("revisit", "Likely")))
Judge_mass_assignment(S) == Found(When(Echoes(S, "extra") /\ S.extra.code < 400, Finding("extra", "Possible")))

Judge_verbose_errors(S) == Found(When(Signs(S, "probe") /\ S.probe.code >= 500, Finding("probe", "Confirmed")))

\* Two of the page's scripts, and two of the worker's usual names.
Assets == {"first", "second"}

\* sig of the page: html.
Judge_source_map_exposure(S) ==
  Found(UNION {When(Signs(S, "bare") /\ Lists(S, p), Finding(p, "Likely")) : p \in Assets})

Judge_service_worker_exposure(S) == Found(UNION {When(Lists(S, p), Finding(p, "Possible")) : p \in Assets})

\* Whatever status the script has.
Judge_client_side_credential_leak(S) ==
  Found(UNION {When(Ok(S, {"bare"}) /\ Signs(S, p), Finding(p, "Likely")) : p \in Assets})

\* sig: the bytes do not have the hash the page declares.
Judge_sri_integrity_mismatch(S) ==
  Found(UNION {When(Ok(S, {"bare"}) /\ Lists(S, p), Finding(p, "Confirmed")) : p \in Assets})

\* The evidence is the page, whichever script held the text.
Judge_dom_open_redirect(S) ==
  Found(When(Ok(S, {"bare"}) /\ (Signs(S, "bare") \/ Signs(S, "script")), Finding("bare", "Possible")))

\* sig: the page names an end point without TLS.
Judge_websocket(S) ==
  IF ~Ok(S, {"bare"}) THEN Raised
  ELSE Found(When(Signs(S, "bare"), Finding("bare", "Confirmed"))
             \union When(Ok(S, {"handshake"}) /\ S.handshake.code = 101, Finding("handshake", "Likely")))

Judge_cors_preflight_consistency(S) ==
  Found(When(Ok(S, {"normal", "preflight"}) /\ S.normal.acao = "echo" /\ ~S.preflight.allows,
             Finding("preflight", "Possible")))

Judge_graphql_sensitive_schema(S) == Found(When(Lists(S, "schema"), Finding("schema", "Likely")))

\* Two of the paths.  "plain": a text looked for, or long and no html; no
\* missing path is asked.
Judge_backup_artifact_exposure(S) ==
  Found(UNION {When(S[p] # Failed /\ S[p].page = "plain", Finding(p, "Likely")) : p \in {"env", "dump"}})

Judge_api_content_type_confusion(S) ==
  Found(When(Ok(S, {"json", "text"}) /\ S.json.json /\ Lists(S, "text") /\ ~S.text.json,
             Finding("text", "Possible")))

\* echo: the name sent; the values are single letters the name holds anyway.
Judge_json_parser_differential(S) ==
  Found(When(Ok(S, {"bare"}) /\ Echoes(S, "keys") /\ S.keys.code \in {200, 201, 202, 204},
             Finding("keys", "Possible")))

\* Of a parameter that matters on such a path; every request must succeed.
Judge_parameter_shape_differential(S) ==
  LET Changes(T, p) == Differ(T, "bare", p)
      first == FirstHit(S, <<"array", "duplicate", "empty">>, Changes, "Possible")
  IN IF ~Ok(S, DOMAIN S) THEN Nothing
     ELSE Found({[f EXCEPT !.confidence = IF S.bare.code \in {401, 403} /\ S[f.by].code = 200
                                          THEN "Likely" ELSE @] : f \in first})

\* sig: a field that is nobody's business.
Judge_api_response_consistency(S) ==
  IF ~Ok(S, {"json", "html"}) THEN Nothing
  ELSE IF S.json.code \in {401, 403} /\ S.html.code = 200 THEN Found(Finding("html", "Likely"))
  ELSE Found(When(S.json.sig # S.html.sig, Finding(IF S.json.sig THEN "json" ELSE "html", "Likely")))

Judge_security_header_drift(S) ==
  Found(When(Ok(S, {"root", "bare"}) /\ ~(S.root.controls \subseteq S.bare.controls), Finding("bare", "Confirmed")))

Judge(d, S) ==
  CASE d = "sql_injection" -> Judge_sql_injection(S)
    [] d = "sql_injection_form" -> Judge_sql_injection_form(S)
    [] d = "xss" -> Judge_xss(S)
    [] d = "open_redirect" -> Judge_open_redirect(S)
    [] d = "ssrf" -> Judge_ssrf(S)
    [] d = "nosql_injection" -> Judge_nosql_injection(S)
    [] d = "ssti" -> Judge_ssti(S)
    [] d = "ldap_injection" -> Judge_ldap_injection(S)
    [] d = "xpath_injection" -> Judge_xpath_injection(S)
    [] d = "crlf_injection" -> Judge_crlf_injection(S)
    [] d = "command_injection" -> Judge_command_injection(S)
    [] d = "http_parameter_pollution" -> Judge_http_parameter_pollution(S)
    [] d = "path_traversal" -> Judge_path_traversal(S)
    [] d = "prototype_pollution" -> Judge_prototype_pollution(S)
    [] d = "cors" -> Judge_cors(S)
    [] d = "http_methods" -> Judge_http_methods(S)
    [] d = "host_header" -> Judge_host_header(S)
    [] d = "forwarded_host_trust" -> Judge_forwarded_host_trust(S)
    [] d = "header_injection" -> Judge_header_injection(S)
    [] d = "admin_exposure" -> Judge_admin_exposure(S)
    [] d = "exposed_files" -> Judge_exposed_files(S)
    [] d = "directory_listing" -> Judge_directory_listing(S)
    [] d = "graphql_introspection" -> Judge_graphql_introspection(S)
    [] d = "security_txt" -> Judge_security_txt(S)
    [] d = "dom_xss" -> Judge_dom_xss(S)
    [] d = "web_cache_deception" -> Judge_web_cache_deception(S)
    [] d = "path_canonicalization" -> Judge_path_canonicalization(S)
    [] d = "content_negotiation_auth" -> Judge_content_negotiation_auth(S)
    [] d = "rate_limiting" -> Judge_rate_limiting(S)
    [] d = "xxe" -> Judge_xxe(S)
    [] d = "idor_heuristic" -> Judge_idor_heuristic(S)
    [] d = "user_enumeration" -> Judge_user_enumeration(S)
    [] d = "stored_xss" -> Judge_stored_xss(S)
    [] d = "mass_assignment" -> Judge_mass_assignment(S)
    [] d = "verbose_errors" -> Judge_verbose_errors(S)
    [] d = "source_map_exposure" -> Judge_source_map_exposure(S)
    [] d = "service_worker_exposure" -> Judge_service_worker_exposure(S)
    [] d = "client_side_credential_leak" -> Judge_client_side_credential_leak(S)
    [] d = "sri_integrity_mismatch" -> Judge_sri_integrity_mismatch(S)
    [] d = "dom_open_redirect" -> Judge_dom_open_redirect(S)
    [] d = "websocket" -> Judge_websocket(S)
    [] d = "cors_preflight_consistency" -> Judge_cors_preflight_consistency(S)
    [] d = "graphql_sensitive_schema" -> Judge_graphql_sensitive_schema(S)
    [] d = "backup_artifact_exposure" -> Judge_backup_artifact_exposure(S)
    [] d = "api_content_type_confusion" -> Judge_api_content_type_confusion(S)
    [] d = "json_parser_differential" -> Judge_json_parser_differential(S)
    [] d = "parameter_shape_differential" -> Judge_parameter_shape_differential(S)
    [] d = "api_response_consistency" -> Judge_api_response_consistency(S)
    [] d = "security_header_drift" -> Judge_security_header_drift(S)

-----------------------------------------------------------------------------
(* reverify_finding                                                        *)

\* The verdict on a finding: of the categories that no single request can
\* verify; of those with a predicate of their own; else by comparison with
\* the evidence.
Unsupported == {"http_methods", "idor_heuristic", "rate_limiting", "mass_assignment", "user_enumeration"}
Targeted == {"sql_injection", "sql_injection_form", "xss", "stored_xss", "dom_xss", "header_injection",
             "open_redirect", "cors", "admin_exposure", "exposed_files", "directory_listing",
             "graphql_introspection", "xxe"}

\* The fields of a form are sent by GET or by POST to the same detectors; the
\* first one has a variant of its own for POST.
Fields == {"xss", "open_redirect", "ssrf", "nosql_injection", "ssti", "ldap_injection", "xpath_injection",
           "command_injection", "verbose_errors"}
Methods(d) == IF d = "sql_injection_form" THEN {"POST"} ELSE IF d \in Fields THEN {"GET", "POST"} ELSE {"GET"}

\* The replay sends the finding's method, url and headers, and no body.  So it
\* lacks what made a probe that posts a field, a document or a query, and a
\* preflight lacks its origin: nothing is known of the answer.
Stripped(d, m, by) ==
  \/ m = "POST"
  \/ d \in {"graphql_introspection", "xxe"}
  \/ <<d, by>> \in {<<"nosql_injection", "json">>, <<"graphql_sensitive_schema", "schema">>,
                    <<"json_parser_differential", "keys">>, <<"cors_preflight_consistency", "preflight">>}

\* Where the marker comes back as the tag that the predicate looks for.
Tagged_Header == {"tag", "tag1", "tag2"}
Tagged == {"tag", "revisit", "tag1", "tag2"}

\* The admin predicate: live, and no login.
StillLive_Gated(page) == page # "none"
StillLive(page) == page \in {"users", "settings"}

\* The category's predicate holds of the answer to the replay.
Shows(d, by, T) ==
  \/ d = "sql_injection" /\ by = "quote" /\ T[by].sig
  \/ d \in {"xss", "stored_xss", "header_injection"} /\ by \in Tagged /\ T[by].echo
  \/ d = "open_redirect" /\ T[by].echo
  \/ d = "cors" /\ (T[by].acao = "*" \/ (by = "origin" /\ T[by].acao = "echo"))
  \/ d = "admin_exposure" /\ StillLive(T[by].page)
  \/ d = "exposed_files" /\ T[by].page # "none"
  \/ d = "directory_listing" /\ T[by].sig /\ T[by].code = 200

\* It may hold as well, by a text that the detector does not read there: the
\* tag of any probe, a database error at a boolean or a delay, the words of a
\* listing outside a title.
Unread(d, by, T) ==
  \/ d \in {"xss", "stored_xss", "dom_xss", "header_injection"}
  \/ d = "sql_injection" /\ by # "quote"
  \/ d = "directory_listing" /\ T[by].code = 200

\* Only the status and the head of the text are compared.  Evidence of a
\* delayed command is made up, and equals no answer.
Headers == {"acao", "credentials", "public", "controls", "allows", "time", "wait"}
Resembles(d, by, S, T) ==
  d # "command_injection" /\ \A feature \in DOMAIN S[by] \ Headers : T[by][feature] = S[by][feature]

Verdicts(d, m, by, S, T) ==
  IF d \in Unsupported THEN {"inconclusive"}
  ELSE IF Stripped(d, m, by)
  THEN {"inconclusive"} \union
       IF d \in Targeted THEN {"still_present", "resolved"}
       ELSE {"changed_uncertain"} \union When(d # "command_injection", {"likely_still_present"})
  ELSE IF T[by] = Failed THEN {"inconclusive"}
  ELSE IF d \in Targeted
  THEN When(Shows(d, by, T) \/ Unread(d, by, T), {"still_present"}) \union When(~Shows(d, by, T), {"resolved"})
  ELSE {IF Resembles(d, by, S, T) THEN "likely_still_present" ELSE "changed_uncertain"}

\* A site that serves one page, whichever probe it gets.
Has(S, p, feature) == S[p] # Failed /\ feature \in DOMAIN S[p]
Alike(S) ==
  /\ \A p \in DOMAIN S : Has(S, p, "echo") => ~S[p].echo
  /\ \A p \in DOMAIN S : Has(S, p, "acao") => S[p].acao # "echo"
  /\ \A p, q \in DOMAIN S : S[p] # Failed /\ S[q] # Failed =>
       \A feature \in (DOMAIN S[p] \intersect DOMAIN S[q]) \ {"wait"} : S[p][feature] = S[q][feature]

\* To each request, and none has to wait.  (A set of images: TLC keeps it.)
Everywhere(S) == Alike(S) /\ \A p \in DOMAIN S : S[p] # Failed /\ (Has(S, p, "wait") => S[p].wait = 0)
CatchAlls == [d \in Detectors |-> {S : S \in {T \in Sites[d] : Everywhere(T)}}]

-----------------------------------------------------------------------------
VARIABLES
  stage,     \* "probing", "reported", "verified"
  detector,
  method,    \* of the probes
  site,      \* as it answered the detector
  report,    \* what the detector returned
  now,       \* the site, as it answers the replay
  verdict    \* the probe behind a finding -> its verdict

probesVars == <<stage, detector, method, site, report, now, verdict>>

ProbesInit ==
  /\ stage = "probing"
  /\ detector \in Detectors
  /\ method \in Methods(detector)
  /\ site \in Sites[detector]
  /\ detector = "nosql_injection" /\ method = "GET" => site.json = Failed
  /\ now = site
  /\ report = Nothing
  /\ verdict = <<>>

Probe ==
  /\ stage = "probing" /\ stage' = "reported"
  /\ report' = Judge(detector, site)
  /\ UNCHANGED <<detector, method, site, now, verdict>>

\* Between scan and verification: a fix or an outage behind a finding, or one
\* page everywhere.
Change ==
  /\ stage = "reported" /\ now = site
  /\ \/ \E f \in report.found : \E answer \in Answers[detector][f.by] : now' = [site EXCEPT ![f.by] = answer]
     \/ report.found # {} /\ now' \in CatchAlls[detector]
  /\ UNCHANGED <<stage, detector, method, site, report, verdict>>

\* ersec verify, over the report's findings.
Verify ==
  /\ stage = "reported" /\ report.found # {} /\ stage' = "verified"
  /\ verdict' \in [{f.by : f \in report.found} ->
                    {"inconclusive", "still_present", "resolved", "likely_still_present", "changed_uncertain"}]
  /\ \A by \in DOMAIN verdict' : verdict'[by] \in Verdicts(detector, method, by, site, now)
  /\ UNCHANGED <<detector, method, site, report, now>>

ProbesNext == Probe \/ Change \/ Verify
ProbesSpec == ProbesInit /\ [][ProbesNext]_probesVars

-----------------------------------------------------------------------------
\* Detectors whose signal is that answers are alike, absent, or of a kind that
\* any page can be.
Sameness == {"rate_limiting", "idor_heuristic", "web_cache_deception", "security_txt",
             "backup_artifact_exposure"}

\* One page, or none, and none of the texts looked for on it.
OnePage(S) ==
  /\ Alike(S)
  /\ \A p \in DOMAIN S : Has(S, p, "sig") => ~S[p].sig
  /\ \A p \in DOMAIN S : Has(S, p, "acao") => S[p].acao = "none"

\* A page that takes no notice of the probes, slow, broken or with anything
\* on it but the texts looked for, is not reported as vulnerable: what a
\* detector compares really has to differ.  (The page that missing paths get
\* must have been seen.)  One thing differs that is not the site's: before a
\* probe that is timed the client itself may have waited.
OnePageIsQuiet ==
  stage = "reported" /\ now = site /\ OnePage(site) /\ detector \notin Sameness
    /\ (detector \in {"admin_exposure", "exposed_files"} => site.missing # Failed)
  => \A f \in report.found : Has(site, f.by, "wait") /\ site[f.by].wait > 0

\* Requests whose failure counts as their most telling answer: the control of
\* a delay, the missing page, the rest of a burst, the places of security.txt.
Telling(d, p) ==
  \/ d \in {"sql_injection", "command_injection"} /\ p = "control"
  \/ d \in {"admin_exposure", "exposed_files"} /\ p = "missing"
  \/ d \in {"rate_limiting", "security_txt"}

\* With the exceptions of Telling, a failed request is never evidence: what a
\* detector reports although it failed, it also reports when it is answered,
\* whatever the answer.
FailureAddsNothing ==
  stage = "reported" /\ now = site /\ report.found # {} =>
    \A p \in {q \in DOMAIN site : site[q] = Failed /\ ~Telling(detector, q)} :
      \A answer \in Answers[detector][p] : Judge(detector, [site EXCEPT ![p] = answer]).found # {}

\* Requests a detector cannot do without: it compares with the answer, or
\* gives up when they fail.
Needed(d, p) ==
  \/ p \in {"bare", "own", "second", "submit"}
  \/ d = "sql_injection" /\ p = "false"
  \/ d \in {"content_negotiation_auth", "parameter_shape_differential", "api_response_consistency"}
  \/ d = "graphql_introspection" /\ p = "schema"
  \/ d = "header_injection" /\ p \in {"tag1", "tag2"}
  \/ d = "rate_limiting"
  \/ <<d, p>> \in {<<"open_redirect", "plain">>, <<"ssrf", "local">>,
                    <<"nosql_injection", "operator">>, <<"host_header", "host">>,
                    <<"cors_preflight_consistency", "normal">>, <<"api_content_type_confusion", "json">>,
                    <<"security_header_drift", "root">>, <<"dom_open_redirect", "script">>}

\* A failed request that the detector swallows hides nothing but what its own
\* answer would have shown, unless it is one of Needed; otherwise the failure
\* shows, as Raised.
FailureHidesLittle ==
  stage = "reported" /\ report = Nothing =>
    \A p \in {q \in DOMAIN site : site[q] = Failed /\ ~Needed(detector, q)} :
      \A answer \in Answers[detector][p] :
        \A f \in Judge(detector, [site EXCEPT ![p] = answer]).found : f.by = p

\* Findings the predicate of their category is blind to.
Blind(d, m, by) ==
  \/ Stripped(d, m, by)
  \/ d = "sql_injection" /\ by # "quote"
  \/ d = "dom_xss"
  \/ d = "xss" /\ by # "tag"
  \/ d = "header_injection" /\ by \in {"quote1", "quote2"}
  \/ d = "cors" /\ by = "null"

\* Verification confirms that the precise finding is gone: while the site is
\* what it was, none is called resolved, except the Blind ones.
UnchangedIsNotResolved ==
  stage = "verified" /\ now = site =>
    \A by \in DOMAIN verdict : verdict[by] = "resolved" => Blind(detector, method, by)

\* Verdicts of a predicate that takes more than its detector: besides what
\* Unread says, a wildcard without credentials, another page where the file
\* was, and a panel that missing paths show now, too.
Loose(d, m, by, T) ==
  \/ Stripped(d, m, by) \/ Unread(d, by, T)
  \/ d = "cors" /\ T[by].acao = "*"
  \/ d = "exposed_files"
  \/ d = "admin_exposure" /\ T.missing = T[by]

\* And what is still present is there: the detector, run again, reports it,
\* except for the Loose ones.
StillPresentIsFound ==
  stage = "verified" =>
    \A by \in DOMAIN verdict :
      verdict[by] = "still_present" =>
        (\E f \in Judge(detector, now).found : f.by = by) \/ Loose(detector, method, by, now)
=============================================================================
