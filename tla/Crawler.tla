------------------------------ MODULE Crawler ------------------------------
(***************************************************************************)
(* WebCrawler (src/src/ersec/ersec_core.py): which pages of a target the   *)
(* scan gets to see.  One queue of addresses with their depth, filled by   *)
(* the links of each fetched page and by the paths found in its scripts,   *)
(* emptied first in first out until no page is left, or the page limit.    *)
(*                                                                         *)
(* An address stands for all its spellings that differ in the fragment     *)
(* only.  The site is free: every answer offers any links, in any order.   *)
(***************************************************************************)
EXTENDS Naturals, Sequences, FiniteSets

CONSTANTS
  Urls,
  Start,      \* start_url
  InScope,    \* the addresses is_in_scope accepts
  Malformed,  \* those it raises ValueError on (a port that is none)
  MaxPages,   \* scope.max_crawl_pages
  MaxDepth,   \* scope.max_crawl_depth
  MaxSeeds,   \* bound: entries of robots.txt and the sitemaps
  MaxLinks,   \* bound: <a href> of one page
  MaxScripts, \* bound: same-origin scripts of one page
  MaxFound    \* paths taken from one script

ASSUME CrawlerAssumption ==
  /\ Start \in Urls /\ InScope \subseteq Urls /\ Malformed \subseteq Urls \ InScope
  /\ {MaxPages, MaxDepth, MaxSeeds, MaxLinks, MaxScripts, MaxFound} \subseteq Nat

VARIABLES
  pc,
  queue,       \* of [url, depth]
  visited,     \* marked before the request goes out
  endpoints,   \* the pages that answered
  link_graph,  \* page -> targets of its links
  skipped,     \* skipped_out_of_scope
  seeds,       \* what robots.txt and the sitemaps named
  page,        \* the entry under way (norm, depth)
  left,        \* what of its answer is still to be read
  depthOf      \* history: the depth at which a page was visited

vars == <<pc, queue, visited, endpoints, link_graph, skipped, seeds, page, left, depthOf>>

NothingLeft == [links |-> 0, scripts |-> 0, found |-> 0]

Init ==
  /\ pc = "seeds"
  /\ queue = <<[url |-> Start, depth |-> 0]>>
  /\ visited = {} /\ endpoints = {} /\ skipped = {} /\ seeds = {}
  /\ link_graph = [u \in Urls |-> {}]
  /\ page = [url |-> Start, depth |-> 0]
  /\ \E n \in 0..MaxSeeds : left = [NothingLeft EXCEPT !.found = n]
  /\ depthOf = [u \in Urls |-> 0]

\* Faulty variants (<definition>_<fault>) stand before the definition they
\* distort: the runs must tell them from the code.
Room_OneMore == Cardinality(visited) <= MaxPages

Room == Cardinality(visited) < MaxPages

Enqueue_First(u) ==
  queue' = IF u \in visited THEN queue
           ELSE <<[url |-> u, depth |-> page.depth + 1]>> \o queue

\* What a page mentions is queued unless it was visited; it may be queued twice.
Enqueue(u) ==
  queue' = IF u \in visited THEN queue
           ELSE Append(queue, [url |-> u, depth |-> page.depth + 1])

-----------------------------------------------------------------------------
\* robots.txt and the sitemaps are fetched first; a failure yields no seeds.
Seed(u) ==
  /\ pc = "seeds" /\ left.found > 0
  /\ u \in InScope
  /\ seeds' = seeds \union {u}
  /\ Enqueue(u)
  /\ left' = [left EXCEPT !.found = @ - 1]
  /\ UNCHANGED <<pc, visited, endpoints, link_graph, skipped, page, depthOf>>

Seeded ==
  /\ pc = "seeds" /\ left.found = 0
  /\ pc' = "loop"
  /\ UNCHANGED <<queue, visited, endpoints, link_graph, skipped, seeds, page, left, depthOf>>

-----------------------------------------------------------------------------
TooDeep_OneEarly(entry) == entry.depth >= MaxDepth

TooDeep(entry) == entry.depth > MaxDepth

Skip_Peeks ==
  /\ pc = "loop" /\ queue # << >> /\ Room
  /\ Head(queue).url \in visited \/ TooDeep(Head(queue))
  /\ UNCHANGED vars

Skip ==
  /\ pc = "loop" /\ queue # << >> /\ Room
  /\ Head(queue).url \in visited \/ TooDeep(Head(queue))
  /\ queue' = Tail(queue)
  /\ UNCHANGED <<pc, visited, endpoints, link_graph, skipped, seeds, page, left, depthOf>>

SkipOutOfScope ==
  /\ pc = "loop" /\ queue # << >> /\ Room
  /\ Head(queue).url \notin visited /\ ~ TooDeep(Head(queue))
  /\ Head(queue).url \notin InScope \union Malformed
  /\ skipped' = skipped \union {Head(queue).url}
  /\ queue' = Tail(queue)
  /\ UNCHANGED <<pc, visited, endpoints, link_graph, seeds, page, left, depthOf>>

\* A page is marked, then requested.  A failed request is not repeated; an
\* answer that is no HTML is an endpoint without content.
Fetch(answer, content) ==
  LET entry == Head(queue) IN
  /\ pc = "loop" /\ queue # << >> /\ Room
  /\ entry.url \notin visited /\ ~ TooDeep(entry) /\ entry.url \in InScope
  /\ queue' = Tail(queue)
  /\ visited' = visited \union {entry.url}
  /\ depthOf' = [depthOf EXCEPT ![entry.url] = entry.depth]
  /\ endpoints' = IF answer = "failed" THEN endpoints ELSE endpoints \union {entry.url}
  /\ page' = entry
  /\ left' = IF answer = "html" THEN content ELSE NothingLeft
  /\ pc' = IF answer = "html" THEN "page" ELSE "loop"
  /\ UNCHANGED <<link_graph, skipped, seeds>>

-----------------------------------------------------------------------------
\* One <a href> of the page under way.
Link(u) ==
  /\ pc = "page" /\ left.links > 0
  /\ link_graph' = [link_graph EXCEPT ![page.url] = @ \union {u}]
  /\ Enqueue(u)
  /\ left' = [left EXCEPT !.links = @ - 1]
  /\ UNCHANGED <<pc, visited, endpoints, skipped, seeds, page, depthOf>>

\* One same-origin script: requested unless the page limit is reached; the
\* request may fail, the file may name nothing.
Script(found) ==
  /\ pc = "page" /\ left.links = 0 /\ left.found = 0 /\ left.scripts > 0
  /\ ~ Room => found = 0
  /\ left' = [left EXCEPT !.scripts = @ - 1, !.found = found]
  /\ UNCHANGED <<pc, queue, visited, endpoints, link_graph, skipped, seeds, page, depthOf>>

\* A path the script names, if in scope.
Discover(u) ==
  /\ pc = "page" /\ left.links = 0 /\ left.found > 0
  /\ u \in InScope
  /\ Enqueue(u)
  /\ left' = [left EXCEPT !.found = @ - 1]
  /\ UNCHANGED <<pc, visited, endpoints, link_graph, skipped, seeds, page, depthOf>>

EndPage ==
  /\ pc = "page" /\ left = NothingLeft
  /\ pc' = "loop"
  /\ UNCHANGED <<queue, visited, endpoints, link_graph, skipped, seeds, page, left, depthOf>>

Return ==
  /\ pc = "loop" /\ (queue = << >> \/ ~ Room)
  /\ pc' = "returned"
  /\ UNCHANGED <<queue, visited, endpoints, link_graph, skipped, seeds, page, left, depthOf>>

\* crawl() catches what its requests raise, and nothing else: a reference that
\* cannot be joined, in robots.txt, a sitemap or a page, ends it with
\* ValueError, and so does a malformed address when its turn comes.
Raise ==
  /\ \/ pc \in {"seeds", "page"}
     \/ /\ pc = "loop" /\ queue # << >> /\ Room
        /\ Head(queue).url \notin visited /\ ~ TooDeep(Head(queue))
        /\ Head(queue).url \in Malformed
  /\ pc' = "raised"
  /\ UNCHANGED <<queue, visited, endpoints, link_graph, skipped, seeds, page, left, depthOf>>

Contents == [links : 0..MaxLinks, scripts : 0..MaxScripts, found : {0}]

Step ==
  \/ \E u \in Urls : Seed(u) \/ Link(u) \/ Discover(u)
  \/ Seeded \/ Skip \/ SkipOutOfScope \/ EndPage \/ Return \/ Raise
  \/ \E answer \in {"failed", "other", "html"}, content \in Contents : Fetch(answer, content)
  \/ \E found \in 0..MaxFound : Script(found)

Next == Step \/ (pc \in {"returned", "raised"} /\ UNCHANGED vars)

\* crawl is one loop in one thread; every request it makes is answered or
\* fails (the client's time limit).
Spec == Init /\ [][Next]_vars /\ WF_vars(Step)

-----------------------------------------------------------------------------
Entries == [url : Urls, depth : Nat]

TypeOK ==
  /\ pc \in {"seeds", "loop", "page", "returned", "raised"}
  /\ queue \in Seq(Entries)
  /\ visited \subseteq Urls /\ endpoints \subseteq visited
  /\ skipped \subseteq Urls /\ seeds \subseteq InScope
  /\ link_graph \in [Urls -> SUBSET Urls]
  /\ page \in Entries
  /\ left \in [links : Nat, scripts : Nat, found : Nat]
  /\ depthOf \in [Urls -> Nat]

\* The crawl stays inside: only addresses in scope are requested as pages, no
\* more than the limit, none below the depth limit.
StaysInside ==
  /\ visited \subseteq InScope
  /\ Cardinality(visited) <= MaxPages
  /\ \A u \in visited : depthOf[u] <= MaxDepth

\* Pages are visited by the shortest way to them: the depth limit never cuts
\* off a page because a longer path was followed first.
BreadthFirst ==
  /\ \A p \in Urls : \A t \in link_graph[p] \cap visited : depthOf[t] <= depthOf[p] + 1
  /\ \A s \in seeds \cap visited : depthOf[s] <= 1

\* Nothing is forgotten: a crawl that ends below the page limit has visited
\* every seed, and every target in scope of a page above the depth limit.
CrawlCloses ==
  pc = "returned" /\ Room =>
    /\ MaxDepth >= 1 => seeds \subseteq visited
    /\ \A p \in endpoints : depthOf[p] < MaxDepth => link_graph[p] \cap InScope \subseteq visited

\* Sites with cycles included, the crawl comes to an end.
CrawlEnds == <>(pc \in {"returned", "raised"})
=============================================================================
