--------------------------- MODULE CrawlerProofs ---------------------------
(***************************************************************************)
(* The crawl of any site.  The queue is ordered by depth and spans at most *)
(* two of them (QueueInv), so an address still to be visited is visited at *)
(* the smallest depth at which it was queued; PendingInv says that every   *)
(* target of a link is either visited or still in the queue, at a depth    *)
(* that fits, unless scope or depth limit exclude it.                      *)
(*                                                                         *)
(* And the detectors on any page: what the run of module Detectors checks  *)
(* for a few statuses and answer times is proved for all.                  *)
(***************************************************************************)
EXTENDS Crawler, Detectors, FiniteSetTheorems, TLAPS

InQueue(q, u, d) == \E i \in 1..Len(q) : q[i].url = u /\ q[i].depth <= d

TypeInv ==
  /\ pc \in {"seeds", "loop", "page", "returned", "raised"}
  /\ queue \in Seq(Entries)
  /\ visited \subseteq Urls /\ IsFiniteSet(visited)
  /\ endpoints \subseteq visited
  /\ skipped \subseteq Urls /\ seeds \subseteq InScope
  /\ link_graph \in [Urls -> SUBSET Urls]
  /\ page \in Entries
  /\ left \in [links : Nat, scripts : Nat, found : Nat]
  /\ depthOf \in [Urls -> Nat]

QueueInv ==
  /\ \A i \in 1..Len(queue) : page.depth <= queue[i].depth /\ queue[i].depth <= page.depth + 1
  /\ \A i, j \in 1..Len(queue) : i <= j => queue[i].depth <= queue[j].depth

PageInv ==
  /\ pc = "seeds" => page.depth = 0 /\ visited = {}
  /\ pc = "page" => page.url \in visited /\ depthOf[page.url] = page.depth
  /\ \A u \in visited : depthOf[u] <= page.depth
  /\ \A p \in Urls \ visited : link_graph[p] = {}

\* Where a target stands that was seen next to a page of depth d.
Stands(t, d) ==
  \/ t \in visited /\ depthOf[t] <= d + 1
  \/ t \notin visited /\ (t \notin InScope \/ d >= MaxDepth \/ InQueue(queue, t, d + 1))

PendingInv ==
  /\ \A p \in Urls : \A t \in link_graph[p] : Stands(t, depthOf[p])
  /\ \A s \in seeds : Stands(s, 0)

IInv == TypeInv /\ QueueInv /\ PageInv /\ PendingInv /\ StaysInside

-----------------------------------------------------------------------------
LEMMA Elements ==
  ASSUME NEW q \in Seq(Entries)
  PROVE  \A i \in 1..Len(q) : q[i] \in Entries /\ q[i].url \in Urls /\ q[i].depth \in Nat
<1>1. \A i \in 1..Len(q) : q[i] \in Entries
  OBVIOUS
<1>2. \A e \in Entries : e.url \in Urls /\ e.depth \in Nat
  BY DEF Entries
<1>3. QED
  BY <1>1, <1>2

LEMMA Appended ==
  ASSUME NEW q \in Seq(Entries), NEW e \in Entries
  PROVE  /\ Append(q, e) \in Seq(Entries)
         /\ Len(Append(q, e)) = Len(q) + 1
         /\ Append(q, e)[Len(q) + 1] = e
         /\ \A i \in 1..Len(q) : Append(q, e)[i] = q[i]
  OBVIOUS

LEMMA Popped ==
  ASSUME NEW q \in Seq(Entries), q # << >>
  PROVE  /\ Head(q) \in Entries /\ Head(q) = q[1]
         /\ Tail(q) \in Seq(Entries) /\ Len(q) >= 1
         /\ Len(Tail(q)) = Len(q) - 1
         /\ \A i \in 1..Len(Tail(q)) : Tail(q)[i] = q[i + 1]
  OBVIOUS

\* Queueing keeps the order, and what is queued.
LEMMA EnqueueKeeps ==
  ASSUME IInv, NEW u \in Urls, Enqueue(u), UNCHANGED page
  PROVE  /\ queue' \in Seq(Entries)
         /\ QueueInv'
         /\ \A t, d : InQueue(queue, t, d) => InQueue(queue', t, d)
         /\ u \notin visited => InQueue(queue', u, page.depth + 1)
<1>t. TypeInv /\ QueueInv /\ page.depth \in Nat /\ Len(queue) \in Nat
  BY DEF IInv, TypeInv, Entries
<1>1. CASE u \in visited
  BY <1>1, <1>t DEF Enqueue, QueueInv, TypeInv
<1>2. CASE u \notin visited
  <2> DEFINE e == [url |-> u, depth |-> page.depth + 1]
  <2>1. e \in Entries /\ queue' = Append(queue, e) /\ queue \in Seq(Entries)
    BY <1>2, <1>t DEF Enqueue, Entries, TypeInv
  <2>2. /\ queue' \in Seq(Entries) /\ Len(queue') = Len(queue) + 1
        /\ queue'[Len(queue) + 1] = e
        /\ \A i \in 1..Len(queue) : queue'[i] = queue[i]
    BY <2>1, Appended
  <2>3. e.url = u /\ e.depth = page.depth + 1
    OBVIOUS
  <2> HIDE DEF e
  <2>4. QueueInv'
    <3>1. /\ \A i \in 1..Len(queue) : queue[i].depth \in Nat
          /\ page' = page
      BY <2>1, Elements
    <3>2. \A i \in 1..Len(queue') : i \in 1..Len(queue) \/ i = Len(queue) + 1
      BY <1>t, <2>2
    <3>3. \A i \in 1..Len(queue') : page.depth <= queue'[i].depth /\ queue'[i].depth <= page.depth + 1
      BY <1>t, <2>2, <2>3, <3>1, <3>2 DEF QueueInv
    <3>4. ASSUME NEW i \in 1..Len(queue'), NEW j \in 1..Len(queue'), i <= j
          PROVE  queue'[i].depth <= queue'[j].depth
      <4>1. CASE j = Len(queue) + 1
        BY <2>2, <2>3, <3>1, <3>3, <3>4, <4>1
      <4>2. CASE j \in 1..Len(queue)
        BY <1>t, <2>2, <3>1, <3>4, <4>2 DEF QueueInv
      <4>3. QED
        BY <3>2, <3>4, <4>1, <4>2
    <3>5. QED
      BY <3>1, <3>3, <3>4 DEF QueueInv
  <2>5. QED
    BY <1>t, <1>2, <2>2, <2>3, <2>4 DEF InQueue
<1>3. QED
  BY <1>1, <1>2

\* Taking the first entry keeps the order, and what is queued behind it.
LEMMA PopKeeps ==
  ASSUME IInv, queue # << >>, queue' = Tail(queue)
  PROVE  /\ queue' \in Seq(Entries) /\ Head(queue) \in Entries
         /\ page.depth <= Head(queue).depth
         /\ \A i \in 1..Len(queue') : queue'[i].depth <= page.depth + 1
                                      /\ Head(queue).depth <= queue'[i].depth
         /\ \A i, j \in 1..Len(queue') : i <= j => queue'[i].depth <= queue'[j].depth
         /\ \A t, d : InQueue(queue, t, d) =>
              InQueue(queue', t, d) \/ (Head(queue).url = t /\ Head(queue).depth <= d)
         /\ \A t, d : d \in Nat /\ InQueue(queue, t, d) => Head(queue).depth <= d
<1>t. TypeInv /\ QueueInv /\ queue \in Seq(Entries) /\ Len(queue) \in Nat /\ page.depth \in Nat
  BY DEF IInv, TypeInv, Entries
<1>1. /\ Head(queue) \in Entries /\ Head(queue) = queue[1]
      /\ queue' \in Seq(Entries) /\ Len(queue) >= 1
      /\ Len(queue') = Len(queue) - 1
      /\ \A i \in 1..Len(queue') : queue'[i] = queue[i + 1]
  BY <1>t, Popped
<1>2. \A i \in 1..Len(queue) : queue[i].depth \in Nat
  BY <1>t, Elements
<1>3. \A i \in 1..Len(queue') : i + 1 \in 1..Len(queue) /\ i \in 1..Len(queue)
  BY <1>t, <1>1
<1>4. \A i \in 1..Len(queue) : i = 1 \/ (i - 1 \in 1..Len(queue') /\ queue[i] = queue'[i - 1])
  BY <1>t, <1>1
<1>5. /\ page.depth <= Head(queue).depth
      /\ \A i \in 1..Len(queue') : queue'[i].depth <= page.depth + 1
                                   /\ Head(queue).depth <= queue'[i].depth
      /\ \A i, j \in 1..Len(queue') : i <= j => queue'[i].depth <= queue'[j].depth
  BY <1>t, <1>1, <1>2, <1>3 DEF QueueInv
<1>6. \A t, d : InQueue(queue, t, d) =>
              InQueue(queue', t, d) \/ (Head(queue).url = t /\ Head(queue).depth <= d)
  BY <1>1, <1>4 DEF InQueue
<1>7. \A t, d : d \in Nat /\ InQueue(queue, t, d) => Head(queue).depth <= d
  BY <1>t, <1>1, <1>2 DEF InQueue, QueueInv
<1>8. QED
  BY <1>1, <1>5, <1>6, <1>7

-----------------------------------------------------------------------------
LEMMA InitHolds == Init => IInv
<1> SUFFICES ASSUME Init PROVE IInv
  OBVIOUS
<1>1. [url |-> Start, depth |-> 0] \in Entries /\ queue = <<[url |-> Start, depth |-> 0]>>
  BY CrawlerAssumption DEF Init, Entries
<1>2. queue \in Seq(Entries) /\ Len(queue) = 1 /\ queue[1] = page /\ page.depth = 0
  BY <1>1 DEF Init
<1>3. left \in [links : Nat, scripts : Nat, found : Nat]
  BY CrawlerAssumption DEF Init, NothingLeft
<1>4. TypeInv
  BY <1>1, <1>2, <1>3, FS_EmptySet DEF Init, TypeInv
<1>5. QueueInv
  BY <1>2 DEF QueueInv
<1>6. PageInv /\ PendingInv
  BY <1>2 DEF Init, PageInv, PendingInv
<1>7. StaysInside
  BY FS_EmptySet, CrawlerAssumption DEF Init, StaysInside
<1>8. QED
  BY <1>4, <1>5, <1>6, <1>7 DEF IInv

\* What stood keeps its place while queueing, and u gets one.
LEMMA EnqueueStands ==
  ASSUME IInv, NEW u \in Urls, Enqueue(u), UNCHANGED <<page, visited, depthOf>>
  PROVE  /\ \A t, d : Stands(t, d) => Stands(t, d)'
         /\ Stands(u, page.depth)'
<1>1. \A t, d : InQueue(queue, t, d) => InQueue(queue', t, d)
  BY EnqueueKeeps
<1>2. \A t, d : Stands(t, d) => Stands(t, d)'
  BY <1>1 DEF Stands
<1>3. u \in visited => depthOf[u] <= page.depth + 1
  <2>1. u \in visited => depthOf[u] <= page.depth
    BY DEF IInv, PageInv
  <2>2. depthOf[u] \in Nat /\ page.depth \in Nat
    BY DEF IInv, TypeInv, Entries
  <2>3. QED
    BY <2>1, <2>2
<1>4. u \notin visited => InQueue(queue', u, page.depth + 1)
  BY EnqueueKeeps
<1>5. Stands(u, page.depth)'
  BY <1>3, <1>4 DEF Stands
<1>6. QED
  BY <1>2, <1>5

LEMMA SeedHolds == ASSUME IInv, NEW u \in Urls, Seed(u) PROVE IInv'
<1>1. /\ Enqueue(u) /\ u \in InScope /\ page.depth = 0
      /\ UNCHANGED <<pc, visited, endpoints, link_graph, skipped, page, depthOf>>
      /\ seeds' = seeds \union {u} /\ left' = [left EXCEPT !.found = @ - 1] /\ left.found > 0
  BY DEF Seed, IInv, PageInv
<1>2. TypeInv'
  <2>1. queue' \in Seq(Entries)
    BY <1>1, EnqueueKeeps
  <2>2. left' \in [links : Nat, scripts : Nat, found : Nat]
    BY <1>1 DEF IInv, TypeInv
  <2>3. QED
    BY <1>1, <2>1, <2>2 DEF IInv, TypeInv
<1>3. QueueInv'
  BY <1>1, EnqueueKeeps
<1>4. PageInv' /\ StaysInside'
  BY <1>1 DEF IInv, PageInv, StaysInside
<1>5. PendingInv'
  <2>1. (\A t, d : Stands(t, d) => Stands(t, d)') /\ Stands(u, 0)'
    BY <1>1, EnqueueStands
  <2>2. QED
    BY <1>1, <2>1 DEF IInv, PendingInv
<1>6. QED
  BY <1>2, <1>3, <1>4, <1>5 DEF IInv

LEMMA LinkHolds == ASSUME IInv, NEW u \in Urls, Link(u) PROVE IInv'
<1>1. /\ Enqueue(u) /\ pc = "page" /\ page.url \in visited /\ depthOf[page.url] = page.depth
      /\ UNCHANGED <<pc, visited, endpoints, skipped, seeds, page, depthOf>>
      /\ link_graph' = [link_graph EXCEPT ![page.url] = @ \union {u}]
      /\ left' = [left EXCEPT !.links = @ - 1] /\ left.links > 0
  BY DEF Link, IInv, PageInv
<1>2. TypeInv'
  <2>1. queue' \in Seq(Entries)
    BY <1>1, EnqueueKeeps
  <2>2. left' \in [links : Nat, scripts : Nat, found : Nat]
    BY <1>1 DEF IInv, TypeInv
  <2>3. QED
    BY <1>1, <2>1, <2>2 DEF IInv, TypeInv
<1>3. QueueInv'
  BY <1>1, EnqueueKeeps
<1>4. PageInv' /\ StaysInside'
  BY <1>1 DEF IInv, TypeInv, PageInv, StaysInside
<1>5. PendingInv'
  <2>1. (\A t, d : Stands(t, d) => Stands(t, d)') /\ Stands(u, page.depth)'
    BY <1>1, EnqueueStands
  <2>2. \A p \in Urls : \A t \in link_graph'[p] :
          t \in link_graph[p] \/ (t = u /\ depthOf[p] = page.depth)
    BY <1>1 DEF IInv, TypeInv
  <2>3. \A p \in Urls : \A t \in link_graph'[p] : Stands(t, depthOf[p])'
    BY <1>1, <2>1, <2>2 DEF IInv, PendingInv
  <2>4. QED
    BY <1>1, <2>1, <2>3 DEF IInv, PendingInv
<1>6. QED
  BY <1>2, <1>3, <1>4, <1>5 DEF IInv

LEMMA DiscoverHolds == ASSUME IInv, NEW u \in Urls, Discover(u) PROVE IInv'
<1>1. /\ Enqueue(u)
      /\ UNCHANGED <<pc, visited, endpoints, link_graph, skipped, seeds, page, depthOf>>
      /\ left' = [left EXCEPT !.found = @ - 1] /\ left.found > 0
  BY DEF Discover
<1>2. TypeInv'
  <2>1. queue' \in Seq(Entries)
    BY <1>1, EnqueueKeeps
  <2>2. left' \in [links : Nat, scripts : Nat, found : Nat]
    BY <1>1 DEF IInv, TypeInv
  <2>3. QED
    BY <1>1, <2>1, <2>2 DEF IInv, TypeInv
<1>3. QueueInv'
  BY <1>1, EnqueueKeeps
<1>4. PageInv' /\ StaysInside'
  BY <1>1 DEF IInv, PageInv, StaysInside
<1>5. PendingInv'
  BY <1>1, EnqueueStands DEF IInv, PendingInv
<1>6. QED
  BY <1>2, <1>3, <1>4, <1>5 DEF IInv

-----------------------------------------------------------------------------
\* An entry passed over: visited already, too deep, or out of scope.
LEMMA SkipHolds == ASSUME IInv, Skip \/ SkipOutOfScope PROVE IInv'
<1>1. /\ queue # << >> /\ queue' = Tail(queue)
      /\ UNCHANGED <<pc, visited, endpoints, link_graph, seeds, page, left, depthOf>>
      /\ \/ Head(queue).url \in visited
         \/ Head(queue).depth > MaxDepth
         \/ Head(queue).url \notin InScope
  BY DEF Skip, SkipOutOfScope, TooDeep
<1>2. queue' \in Seq(Entries) /\ Head(queue) \in Entries
  BY <1>1, PopKeeps
<1>3. TypeInv'
  <2>1. skipped' \subseteq Urls
    BY <1>2 DEF Skip, SkipOutOfScope, IInv, TypeInv, Entries
  <2>2. QED
    BY <1>1, <1>2, <2>1 DEF IInv, TypeInv
<1>4. QueueInv'
  <2>1. /\ page.depth <= Head(queue).depth
        /\ \A i \in 1..Len(queue') : queue'[i].depth <= page.depth + 1
                                     /\ Head(queue).depth <= queue'[i].depth
        /\ \A i, j \in 1..Len(queue') : i <= j => queue'[i].depth <= queue'[j].depth
    BY <1>1, PopKeeps
  <2>2. \A i \in 1..Len(queue') : queue'[i].depth \in Nat
    BY <1>2, Elements
  <2>3. page.depth \in Nat /\ Head(queue).depth \in Nat /\ page' = page
    BY <1>1, <1>2 DEF IInv, TypeInv, Entries
  <2>4. QED
    BY <2>1, <2>2, <2>3 DEF QueueInv
<1>5. PageInv' /\ StaysInside'
  BY <1>1 DEF IInv, PageInv, StaysInside
<1>6. \A t : \A d \in Nat : Stands(t, d) => Stands(t, d)'
  <2> SUFFICES ASSUME NEW t, NEW d \in Nat, Stands(t, d) PROVE Stands(t, d)'
    OBVIOUS
  <2>1. InQueue(queue, t, d + 1) =>
          InQueue(queue', t, d + 1) \/ (Head(queue).url = t /\ Head(queue).depth <= d + 1)
    BY <1>1, PopKeeps
  <2>2. Head(queue).depth \in Nat /\ MaxDepth \in Nat
    BY <1>2, CrawlerAssumption DEF Entries
  <2>3. Head(queue).depth > MaxDepth /\ Head(queue).depth <= d + 1 => d >= MaxDepth
    BY <2>2
  <2>4. QED
    BY <1>1, <2>1, <2>3 DEF Stands
<1>7. PendingInv'
  BY <1>1, <1>6 DEF IInv, TypeInv, PendingInv
<1>8. QED
  BY <1>3, <1>4, <1>5, <1>7 DEF IInv

\* The first entry becomes a page, at the smallest depth it could have.
LEMMA FetchHolds ==
  ASSUME IInv, NEW answer, NEW content \in Contents, Fetch(answer, content)
  PROVE  IInv'
<1> DEFINE u == Head(queue).url
           depth == Head(queue).depth
<1>1. /\ queue # << >> /\ queue' = Tail(queue)
      /\ visited' = visited \union {u} /\ depthOf' = [depthOf EXCEPT ![u] = depth]
      /\ page' = Head(queue) /\ UNCHANGED <<link_graph, skipped, seeds>>
      /\ u \notin visited /\ u \in InScope /\ ~ (depth > MaxDepth) /\ Room
      /\ endpoints' \subseteq endpoints \union {u}
      /\ left' \in {content, NothingLeft} /\ pc' \in {"page", "loop"}
  BY DEF Fetch, TooDeep
<1>2. queue' \in Seq(Entries) /\ Head(queue) \in Entries
  BY <1>1, PopKeeps
<1>3. /\ u \in Urls /\ depth \in Nat /\ page.depth \in Nat /\ MaxDepth \in Nat
      /\ depthOf \in [Urls -> Nat]
  BY <1>2, CrawlerAssumption DEF Entries, IInv, TypeInv
<1>4. TypeInv'
  <2>1. IsFiniteSet(visited')
    BY <1>1, FS_AddElement DEF IInv, TypeInv
  <2>2. left' \in [links : Nat, scripts : Nat, found : Nat]
    BY <1>1, CrawlerAssumption DEF Contents, NothingLeft
  <2>3. visited' \subseteq Urls /\ endpoints' \subseteq visited'
    BY <1>1, <1>3 DEF IInv, TypeInv
  <2>4. QED
    BY <1>1, <1>2, <1>3, <2>1, <2>2, <2>3 DEF IInv, TypeInv
<1>5. page.depth <= depth
  BY <1>1, PopKeeps
<1>6. QueueInv'
  <2>1. /\ \A i \in 1..Len(queue') : queue'[i].depth <= page.depth + 1
                                     /\ depth <= queue'[i].depth
        /\ \A i, j \in 1..Len(queue') : i <= j => queue'[i].depth <= queue'[j].depth
    BY <1>1, PopKeeps
  <2>2. \A i \in 1..Len(queue') : queue'[i].depth \in Nat
    BY <1>2, Elements
  <2>3. QED
    BY <1>1, <1>3, <1>5, <2>1, <2>2 DEF QueueInv
<1>7. PageInv'
  <2>1. depthOf'[u] = depth /\ \A v \in Urls : v # u => depthOf'[v] = depthOf[v]
    BY <1>1, <1>3
  <2>2. \A v \in visited : v \in Urls /\ v # u /\ depthOf[v] <= page.depth /\ depthOf[v] \in Nat
    BY <1>1, <1>3 DEF IInv, TypeInv, PageInv
  <2>3. \A v \in visited' : depthOf'[v] <= depth
    BY <1>1, <1>3, <1>5, <2>1, <2>2
  <2>4. \A p \in Urls \ visited' : link_graph'[p] = {}
    BY <1>1 DEF IInv, PageInv
  <2>5. QED
    BY <1>1, <2>1, <2>3, <2>4 DEF PageInv
<1>8. \A t \in Urls : \A d \in Nat : Stands(t, d) => Stands(t, d)'
  <2> SUFFICES ASSUME NEW t \in Urls, NEW d \in Nat, Stands(t, d) PROVE Stands(t, d)'
    OBVIOUS
  <2>1. CASE t = u
    <3>1. depthOf'[t] = depth /\ t \in visited' /\ t \notin visited /\ t \in InScope
      BY <1>1, <1>3, <2>1
    <3>2. InQueue(queue, t, d + 1) => depth <= d + 1
      BY <1>1, PopKeeps
    <3>3. d >= MaxDepth => depth <= d + 1
      BY <1>1, <1>3
    <3>4. QED
      BY <3>1, <3>2, <3>3 DEF Stands
  <2>2. CASE t # u
    <3>1. depthOf'[t] = depthOf[t] /\ (t \in visited' <=> t \in visited)
      BY <1>1, <1>3, <2>2
    <3>2. InQueue(queue, t, d + 1) => InQueue(queue', t, d + 1)
      BY <1>1, <2>2, PopKeeps
    <3>3. QED
      BY <3>1, <3>2 DEF Stands
  <2>3. QED
    BY <2>1, <2>2
<1>9. PendingInv'
  <2>1. \A p \in Urls : \A t \in link_graph'[p] : Stands(t, depthOf[p])'
    <3> SUFFICES ASSUME NEW p \in Urls, NEW t \in link_graph[p] PROVE Stands(t, depthOf[p])'
      BY <1>1
    <3>1. p \in visited /\ p # u /\ t \in Urls
      BY <1>1 DEF IInv, TypeInv, PageInv
    <3>2. depthOf'[p] = depthOf[p] /\ depthOf[p] \in Nat /\ Stands(t, depthOf[p])
      BY <1>1, <1>3, <3>1 DEF IInv, PendingInv
    <3> HIDE DEF u, depth
    <3>3. QED
      BY <1>8, <3>1, <3>2 DEF Stands
  <2>2. \A s \in seeds' : Stands(s, 0)'
    <3>1. seeds \subseteq Urls /\ seeds' = seeds
      BY <1>1, CrawlerAssumption DEF IInv, TypeInv
    <3>2. QED
      BY <1>8, <3>1 DEF IInv, PendingInv
  <2>3. QED
    BY <2>1, <2>2 DEF PendingInv
<1>10. StaysInside'
  <2>1. Cardinality(visited') = Cardinality(visited) + 1 /\ Cardinality(visited) \in Nat
    BY <1>1, FS_AddElement, FS_CardinalityType DEF IInv, TypeInv
  <2>2. Cardinality(visited') <= MaxPages
    BY <1>1, <2>1, CrawlerAssumption DEF Room
  <2>3. depthOf'[u] <= MaxDepth /\ \A v \in visited : v # u /\ v \in Urls /\ depthOf'[v] = depthOf[v]
    BY <1>1, <1>3 DEF IInv, TypeInv
  <2>4. QED
    BY <1>1, <2>2, <2>3 DEF IInv, StaysInside
<1>11. QED
  BY <1>4, <1>6, <1>7, <1>9, <1>10 DEF IInv

-----------------------------------------------------------------------------
\* The steps that neither queue nor visit.
LEMMA ReadHolds ==
  ASSUME IInv, Seeded \/ EndPage \/ Return \/ Raise \/ \E found \in 0..MaxFound : Script(found)
  PROVE  IInv'
<1>1. /\ UNCHANGED <<queue, visited, endpoints, link_graph, skipped, seeds, page, depthOf>>
      /\ pc' \in {"loop", "page", "returned", "raised"} /\ (pc' = "page" => pc = "page")
  BY DEF Seeded, EndPage, Return, Raise, Script
<1>2. left' \in [links : Nat, scripts : Nat, found : Nat]
  <2>1. left \in [links : Nat, scripts : Nat, found : Nat]
    BY DEF IInv, TypeInv
  <2>2. CASE Seeded \/ EndPage \/ Return \/ Raise
    BY <2>1, <2>2 DEF Seeded, EndPage, Return, Raise
  <2>3. ASSUME NEW found \in 0..MaxFound, Script(found)
        PROVE  left' \in [links : Nat, scripts : Nat, found : Nat]
    <3>1. MaxFound \in Nat
      BY CrawlerAssumption
    <3>2. found \in Nat
      BY <2>3, <3>1
    <3>3. left.scripts \in Nat /\ left.scripts > 0
      BY <2>1, <2>3 DEF Script
    <3>4. left.scripts - 1 \in Nat
      BY <3>3
    <3>5. QED
      BY <2>1, <2>3, <3>2, <3>4 DEF Script
  <2>4. QED
    BY <2>2, <2>3
<1>3. TypeInv'
  BY <1>1, <1>2 DEF IInv, TypeInv
<1>4. QueueInv' /\ PageInv' /\ PendingInv' /\ StaysInside'
  <2>1. QueueInv' /\ PendingInv' /\ StaysInside'
    BY <1>1 DEF IInv, QueueInv, PendingInv, Stands, StaysInside
  <2>2. pc' # "seeds"
    BY <1>1
  <2>3. PageInv'
    BY <1>1, <2>2 DEF IInv, PageInv
  <2>4. QED
    BY <2>1, <2>3
<1>5. QED
  BY <1>3, <1>4 DEF IInv

LEMMA Invariance == Spec => []IInv
<1>1. IInv /\ [Next]_vars => IInv'
  <2> SUFFICES ASSUME IInv, [Next]_vars PROVE IInv'
    OBVIOUS
  <2>1. CASE UNCHANGED vars
    BY <2>1 DEF vars, IInv, TypeInv, QueueInv, PageInv, PendingInv, Stands, StaysInside
  <2>2. CASE Step
    BY <2>2, SeedHolds, LinkHolds, DiscoverHolds, SkipHolds, FetchHolds, ReadHolds DEF Step
  <2>3. QED
    BY <2>1, <2>2 DEF Next
<1>2. QED
  BY <1>1, InitHolds, PTL DEF Spec

\* Whatever the site answers, the crawl stays in scope, below its page limit
\* and above its depth limit.
THEOREM CrawlIsBounded == Spec => []StaysInside
<1>1. IInv => StaysInside
  BY DEF IInv
<1>2. QED
  BY <1>1, Invariance, PTL

\* Whatever the site answers, no page is visited deeper than the shortest way
\* the crawl has seen to it.
THEOREM ShortestWay == Spec => []BreadthFirst
<1>1. IInv => BreadthFirst
  BY DEF IInv, PendingInv, Stands, BreadthFirst
<1>2. QED
  BY <1>1, Invariance, PTL

\* Whatever the site answers, a crawl that ends with room left has visited
\* all it saw in scope above the depth limit.
THEOREM NothingForgotten == Spec => []CrawlCloses
<1> DEFINE Emptied == pc = "returned" => queue = << >> \/ ~ Room
<1>1. IInv /\ Emptied => CrawlCloses
  <2> SUFFICES ASSUME IInv, pc = "returned", Room, queue = << >> PROVE CrawlCloses
    BY DEF CrawlCloses
  <2>1. \A t, d : ~ InQueue(queue, t, d)
    BY DEF InQueue
  <2>2. endpoints \subseteq Urls /\ seeds \subseteq InScope /\ depthOf \in [Urls -> Nat] /\ MaxDepth \in Nat
    BY CrawlerAssumption DEF IInv, TypeInv
  <2>3. QED
    BY <2>1, <2>2 DEF IInv, PendingInv, Stands, CrawlCloses
<1>2. Init => Emptied
  BY DEF Init
<1>3. Emptied /\ [Next]_vars => Emptied'
  BY DEF Next, Step, Seed, Seeded, Skip, SkipOutOfScope, Fetch, Link, Script, Discover, EndPage, Return, Raise,
     vars, Room
<1>4. QED
  BY <1>1, <1>2, <1>3, Invariance, PTL DEF Spec
\* The crawl's queue, sets and counters keep their types on any site.
THEOREM TypeCorrect == Spec => []TypeOK
<1>1. IInv => TypeOK
  BY DEF IInv, TypeInv, TypeOK
<1>2. QED
  BY <1>1, Invariance, PTL

-----------------------------------------------------------------------------
(* The detectors (module Detectors), for any statuses and any answer times. *)
(* What the five invariants of its run say is said here of one detector d,  *)
(* one site S and any operator J that judges sites; each detector then has  *)
(* it of its own judgement, case by case.                                   *)

With(S, p, answer) == [S EXCEPT ![p] = answer]

\* A page that takes no notice of the probes is not reported, but for a wait.
Quiet(d, S, J(_)) ==
  OnePage(S) /\ d \notin Sameness /\ (d \in {"admin_exposure", "exposed_files"} => S.missing # Failed)
  => \A f \in J(S).found : Has(S, f.by, "wait") /\ S[f.by].wait > 0

\* What is reported although p failed is reported when p is answered.
Adds(d, S, J(_)) ==
  \A p \in DOMAIN S : S[p] = Failed /\ ~Telling(d, p) /\ J(S).found # {} =>
    \A answer : J(With(S, p, answer)).found # {}

\* What a failure of p hides is what the answer to p shows.
Hides(d, S, J(_)) ==
  \A p \in DOMAIN S : S[p] = Failed /\ ~Needed(d, p) /\ J(S) = Nothing =>
    \A answer : \A f \in J(With(S, p, answer)).found : f.by = p

\* The site when it is replayed: an answer behind a finding may be another,
\* or one page may be everywhere.
Changed(d, S, T, J(_)) ==
  \/ T = S
  \/ \E f \in J(S).found : \E answer : T = With(S, f.by, answer)
  \/ T \in Sites[d] /\ Everywhere(T)

\* On the same site the predicate shows what the detector found.
Shown(d, S, J(_)) ==
  \A f \in J(S).found : S[f.by] # Failed => Shows(d, f.by, S) \/ \A m \in Methods(d) : Blind(d, m, f.by)

\* What the predicate shows on the later site the detector still finds there.
KeptAt(d, S, T, J(_)) ==
  \A f \in J(S).found : T[f.by] # Failed /\ Shows(d, f.by, T) =>
    (\E g \in J(T).found : g.by = f.by) \/ \A m \in Methods(d) : Loose(d, m, f.by, T)
Kept(d, S, J(_)) == \A T : Changed(d, S, T, J) => KeptAt(d, S, T, J)

Sound(d, S, J(_)) == Quiet(d, S, J) /\ Adds(d, S, J) /\ Hides(d, S, J)

\* The same of the judgement that the model makes.
Judged(d, S) == LET J(T) == Judge(d, T) IN Sound(d, S, J)
Replayable(d, S) == LET J(T) == Judge(d, T) IN Shown(d, S, J) /\ Kept(d, S, J)

Under(i, H) == \A k \in 1..(i - 1) : k \notin H

\* The probes that hit have a first one (no detector sends more than six).
LEMMA Least ==
  ASSUME NEW n \in 1..6, NEW H \in SUBSET (1..n), H # {}
  PROVE  \E i \in H : Under(i, H)
<1>1. Under(1, H)
  BY DEF Under
<1>2. /\ Under(1, H) => 1 \in H \/ Under(2, H)
      /\ Under(2, H) => 2 \in H \/ Under(3, H)
      /\ Under(3, H) => 3 \in H \/ Under(4, H)
      /\ Under(4, H) => 4 \in H \/ Under(5, H)
      /\ Under(5, H) => 5 \in H \/ Under(6, H)
      /\ Under(6, H) => 6 \in H \/ Under(7, H)
  BY DEF Under
<1>3. ~Under(7, H)
  <2>1. PICK k \in H : TRUE
    OBVIOUS
  <2>2. k \in 1..(7 - 1)
    BY <2>1
  <2> QED
    BY <2>1, <2>2 DEF Under
<1> QED
  BY <1>1, <1>2, <1>3


\* A quote is judged alone, a boolean by two sizes of which one page has one, a
\* delay against the base and the control.
LEMMA Judging_sql_injection ==
  ASSUME NEW S \in Sites["sql_injection"]
  PROVE  Judged("sql_injection", S)
<1>1. Sites["sql_injection"] = [bare : Base, quote : Signature, true : Answered, false :
             Answered, sleep : Time, pg_sleep : Time, waitfor : Time, control : Time]
  BY Zenon DEF Sites
<1>2. \A T : Judge("sql_injection", T) = Judge_sql_injection(T)
  BY Zenon DEF Judge
<1>3. Sound("sql_injection", S, Judge_sql_injection)
  <2> USE <1>1 DEF Judge_sql_injection, Ok, Signs, FirstHit, Raised, Found, Finding, Delays,
      Blindness, Elapsed, Holds, Nothing, Signature, Answered, Base, Time, Timed, Maybe
  <2>1. Quiet("sql_injection", S, Judge_sql_injection)
    <3> DEFINE probes == <<"sleep", "pg_sleep", "waitfor">>
    <3>1. SUFFICES ASSUME OnePage(S), Ok(S, {"bare", "quote"})
                   PROVE  /\ ~Signs(S, "quote") /\ ~Blindness(S)
                          /\ \A f \in FirstHit(S, probes, Delays, "Likely") :
                               Has(S, f.by, "wait") /\ S[f.by].wait > 0
      BY DEF Quiet
    <3>2. ~Signs(S, "quote")
      BY <3>1 DEF OnePage, Has
    <3>3. ~Blindness(S)
      BY <3>1 DEF OnePage, Alike
    <3>4. ASSUME NEW q \in {"sleep", "pg_sleep", "waitfor"}, Delays(S, q)
          PROVE  Has(S, q, "wait") /\ S[q].wait > 0
      <4>1. S[q].time = S.bare.time
        BY <3>1, <3>4 DEF OnePage, Alike
      <4>2. S.bare.time \in Nat /\ S.bare.wait \in Nat /\ S[q].wait \in Nat
        BY <3>1, <3>4, TimesAssumption
      <4> QED
        BY <3>4, <4>1, <4>2 DEF Has
    <3>5. ASSUME NEW f \in FirstHit(S, probes, Delays, "Likely")
          PROVE  Has(S, f.by, "wait") /\ S[f.by].wait > 0
      <4>1. PICK i \in 1..3 : Delays(S, probes[i]) /\ f \in Finding(probes[i], "Likely")
        BY <3>5
      <4>2. f.by = probes[i] /\ probes[i] \in {"sleep", "pg_sleep", "waitfor"}
        BY <4>1
      <4> HIDE DEF Delays, FirstHit, probes
      <4> QED
        BY <3>4, <4>1, <4>2
    <3> QED
      BY <3>2, <3>3, <3>5
  <2>2. Adds("sql_injection", S, Judge_sql_injection)
    <3> DEFINE probes == <<"sleep", "pg_sleep", "waitfor">>
    <3>1. SUFFICES ASSUME NEW p \in DOMAIN S, S[p] = Failed, p # "control", Judge_sql_injection(S).found # {},
                          NEW answer
                   PROVE  Judge_sql_injection(With(S, p, answer)).found # {}
      BY DEF Adds, Telling
    <3>2. p # "bare" /\ S.bare # Failed /\ p # "quote" /\ S.quote # Failed
      BY <3>1
    <3>3. \A q \in DOMAIN S : S[q] # Failed => With(S, p, answer)[q] = S[q]
      BY <3>1 DEF With
    <3>4. Signs(S, "quote") \/ Blindness(S) \/ \E i \in 1..3 : Delays(S, probes[i])
      BY <3>1
    <3>5. Ok(With(S, p, answer), {"bare", "quote"})
      BY <3>2, <3>3
    <3>6. Signs(S, "quote") => Signs(With(S, p, answer), "quote")
      BY <3>2, <3>3
    <3>7. Blindness(S) => Blindness(With(S, p, answer))
      BY <3>2, <3>3
    <3>8. ASSUME NEW i \in 1..3, Delays(S, probes[i])
          PROVE  FirstHit(With(S, p, answer), probes, Delays, "Likely") # {}
      <4> DEFINE hits == {k \in 1..3 : Delays(With(S, p, answer), probes[k])}
      <4>1. With(S, p, answer).control = S.control
        BY <3>1 DEF With
      <4>2. i \in hits
        BY <3>2, <3>3, <3>8, <4>1
      <4>3. PICK k \in hits : Under(k, hits)
        <5>1. hits # {} /\ hits \in SUBSET (1..3)
          BY <4>2
        <5> HIDE DEF hits
        <5> QED
          BY <5>1, Least
      <4>4. Finding(probes[k], "Likely") \subseteq FirstHit(With(S, p, answer), probes, Delays, "Likely")
        BY <4>3 DEF Under
      <4> QED
        BY <4>4
    <3>9. Finding("quote", "Likely") # {} /\ Finding("true", "Possible") # {}
      OBVIOUS
    <3> HIDE DEF Signs, Blindness, Delays, FirstHit, Finding, Ok, Holds
    <3> QED
      BY <3>4, <3>5, <3>6, <3>7, <3>8, <3>9, Zenon
  <2>3. Hides("sql_injection", S, Judge_sql_injection)
    BY DEF Hides, With, Needed
  <2> HIDE DEF Judge_sql_injection
  <2> QED
    BY <2>1, <2>2, <2>3, Zenon DEF Sound
<1> QED
  BY <1>2, <1>3, Zenon DEF Judged, Sound, Quiet, Adds, Hides

\* The error text after a quote is looked for again; sizes and delays are not.
LEMMA Replaying_sql_injection ==
  ASSUME NEW S \in Sites["sql_injection"]
  PROVE  Replayable("sql_injection", S)
<1>1. Sites["sql_injection"] = [bare : Base, quote : Signature, true : Answered, false :
             Answered, sleep : Time, pg_sleep : Time, waitfor : Time, control : Time]
  BY Zenon DEF Sites
<1>2. \A T : Judge("sql_injection", T) = Judge_sql_injection(T)
  BY Zenon DEF Judge
<1>3. /\ Shown("sql_injection", S, Judge_sql_injection)
      /\ Kept("sql_injection", S, Judge_sql_injection)
  <2> USE <1>1 DEF Judge_sql_injection, Ok, Signs, FirstHit, Raised, Found, Finding, Delays,
      Blindness, Elapsed, Holds, Nothing, Signature, Answered, Base, Time, Timed, Maybe, Shows,
      StillLive, Tagged
  <2>1. Shown("sql_injection", S, Judge_sql_injection)
    BY DEF Shown, Blind, Stripped
  <2>2. Kept("sql_injection", S, Judge_sql_injection)
    <3>1. SUFFICES ASSUME NEW T, Changed("sql_injection", S, T, Judge_sql_injection),
                          NEW f \in Judge_sql_injection(S).found,
                          T[f.by] # Failed, Shows("sql_injection", f.by, T), f.by = "quote"
                   PROVE  \E g \in Judge_sql_injection(T).found : g.by = f.by
      <4>1. \A T, by, m : by # "quote" => Loose("sql_injection", m, by, T)
        BY DEF Loose, Unread
      <4> HIDE DEF Judge_sql_injection, Shows
      <4> QED
        BY <4>1, Zenon DEF Kept, KeptAt
    <3>2. T.quote # Failed /\ T.quote.sig
      BY <3>1
    <3>3. S.bare # Failed
      BY <3>1
    <3>4. T.bare # Failed
      <4>1. CASE T \in Sites["sql_injection"] /\ Everywhere(T)
        BY <4>1 DEF Everywhere
      <4>2. CASE \E g \in Judge_sql_injection(S).found : \E answer : T = With(S, g.by, answer)
        <5>1. PICK g \in Judge_sql_injection(S).found : \E answer : T = With(S, g.by, answer)
          BY <4>2
        <5>2. g.by # "bare"
          BY <5>1
        <5> HIDE DEF Judge_sql_injection
        <5> QED
          BY <3>3, <5>1, <5>2 DEF With
      <4> QED
        BY <3>1, <3>3, <4>1, <4>2 DEF Changed
    <3>5. Judge_sql_injection(T) = Found(Finding("quote", "Likely"))
      BY <3>2, <3>4
    <3> QED
      BY <3>1, <3>5
  <2> HIDE DEF Judge_sql_injection
  <2> QED
    BY <2>1, <2>2, Zenon
<1> DEFINE J(T) == Judge("sql_injection", T)
<1>4. Shown("sql_injection", S, J)
  BY <1>2, <1>3, Zenon DEF Shown
<1>5. \A T : Changed("sql_injection", S, T, J) =>
              Changed("sql_injection", S, T, Judge_sql_injection)
  BY <1>2, Zenon DEF Changed
<1>6. \A T : KeptAt("sql_injection", S, T, Judge_sql_injection) =>
              KeptAt("sql_injection", S, T, J)
  BY <1>2 DEF KeptAt
<1> QED
  BY <1>3, <1>4, <1>5, <1>6, Zenon DEF Replayable, Kept

\* The form is needed: its failure is raised; the json probe speaks for itself.
LEMMA Judging_sql_injection_form ==
  ASSUME NEW S \in Sites["sql_injection_form"]
  PROVE  Judged("sql_injection_form", S)
<1>1. Sites["sql_injection_form"] = [bare : Signature, form : Signature, json : Signature]
  BY Zenon DEF Sites
<1>2. \A T : Judge("sql_injection_form", T) = Judge_sql_injection_form(T)
  BY Zenon DEF Judge
<1>3. Sound("sql_injection_form", S, Judge_sql_injection_form)
  <2> USE <1>1 DEF Judge_sql_injection_form, Ok, Signs, FirstHit, Raised, Found, Finding, Holds,
      Nothing, Signature, Maybe
  <2>1. Quiet("sql_injection_form", S, Judge_sql_injection_form)
    BY DEF Quiet, OnePage, Alike, Has
  <2>2. Adds("sql_injection_form", S, Judge_sql_injection_form)
    BY DEF Adds, With
  <2>3. Hides("sql_injection_form", S, Judge_sql_injection_form)
    BY DEF Hides, With, Needed
  <2> HIDE DEF Judge_sql_injection_form
  <2> QED
    BY <2>1, <2>2, <2>3, Zenon DEF Sound
<1> QED
  BY <1>2, <1>3, Zenon DEF Judged, Sound, Quiet, Adds, Hides

\* The form is not sent again: its error is looked for on the bare page.
LEMMA Replaying_sql_injection_form ==
  ASSUME NEW S \in Sites["sql_injection_form"]
  PROVE  Replayable("sql_injection_form", S)
<1>1. Sites["sql_injection_form"] = [bare : Signature, form : Signature, json : Signature]
  BY Zenon DEF Sites
<1>2. \A T : Judge("sql_injection_form", T) = Judge_sql_injection_form(T)
  BY Zenon DEF Judge
<1>3. /\ Shown("sql_injection_form", S, Judge_sql_injection_form)
      /\ Kept("sql_injection_form", S, Judge_sql_injection_form)
  <2> USE <1>1 DEF Judge_sql_injection_form, Ok, Signs, FirstHit, Raised, Found, Finding, Holds,
      Nothing, Signature, Maybe, Shows, StillLive, Tagged
  <2>1. Shown("sql_injection_form", S, Judge_sql_injection_form)
    BY DEF Shown, Blind, Stripped, Methods
  <2>2. Kept("sql_injection_form", S, Judge_sql_injection_form)
    BY DEF Kept, KeptAt, Changed, With, Everywhere, Alike, Has, Loose, Unread
  <2> HIDE DEF Judge_sql_injection_form
  <2> QED
    BY <2>1, <2>2, Zenon
<1> DEFINE J(T) == Judge("sql_injection_form", T)
<1>4. Shown("sql_injection_form", S, J)
  BY <1>2, <1>3, Zenon DEF Shown
<1>5. \A T : Changed("sql_injection_form", S, T, J) =>
              Changed("sql_injection_form", S, T, Judge_sql_injection_form)
  BY <1>2, Zenon DEF Changed
<1>6. \A T : KeptAt("sql_injection_form", S, T, Judge_sql_injection_form) =>
              KeptAt("sql_injection_form", S, T, J)
  BY <1>2 DEF KeptAt
<1> QED
  BY <1>3, <1>4, <1>5, <1>6, Zenon DEF Replayable, Kept

\* A failed context is raised, unless one before it already echoes.
LEMMA Judging_xss ==
  ASSUME NEW S \in Sites["xss"]
  PROVE  Judged("xss", S)
<1>1. Sites["xss"] = [tag : Echo, attribute : Echo, js : Echo, uri : Echo]
  BY Zenon DEF Sites
<1>2. \A T : Judge("xss", T) = Judge_xss(T)
  BY Zenon DEF Judge
<1>3. Sound("xss", S, Judge_xss)
  <2> USE <1>1 DEF Judge_xss, Echoes, FirstHit, Raised, Found, Contexts, Finding, Holds,
      Nothing, Echo, Maybe
  <2>1. Quiet("xss", S, Judge_xss)
    BY DEF Quiet, OnePage, Alike, Has
  <2>2. Adds("xss", S, Judge_xss)
    BY DEF Adds, With
  <2>3. Hides("xss", S, Judge_xss)
    BY DEF Hides, With, Needed
  <2> HIDE DEF Judge_xss
  <2> QED
    BY <2>1, <2>2, <2>3, Zenon DEF Sound
<1> QED
  BY <1>2, <1>3, Zenon DEF Judged, Sound, Quiet, Adds, Hides

\* Only the tag comes back as what the predicate looks for.
LEMMA Replaying_xss ==
  ASSUME NEW S \in Sites["xss"]
  PROVE  Replayable("xss", S)
<1>1. Sites["xss"] = [tag : Echo, attribute : Echo, js : Echo, uri : Echo]
  BY Zenon DEF Sites
<1>2. \A T : Judge("xss", T) = Judge_xss(T)
  BY Zenon DEF Judge
<1>3. /\ Shown("xss", S, Judge_xss)
      /\ Kept("xss", S, Judge_xss)
  <2> USE <1>1 DEF Judge_xss, Echoes, FirstHit, Raised, Found, Contexts, Finding, Holds,
      Nothing, Echo, Maybe, Shows, StillLive, Tagged
  <2>1. Shown("xss", S, Judge_xss)
    BY DEF Shown, Blind, Stripped
  <2>2. Kept("xss", S, Judge_xss)
    BY DEF Kept, KeptAt, Changed, With, Everywhere, Alike, Has, Loose, Unread
  <2> HIDE DEF Judge_xss
  <2> QED
    BY <2>1, <2>2, Zenon
<1> DEFINE J(T) == Judge("xss", T)
<1>4. Shown("xss", S, J)
  BY <1>2, <1>3, Zenon DEF Shown
<1>5. \A T : Changed("xss", S, T, J) =>
              Changed("xss", S, T, Judge_xss)
  BY <1>2, Zenon DEF Changed
<1>6. \A T : KeptAt("xss", S, T, Judge_xss) =>
              KeptAt("xss", S, T, J)
  BY <1>2 DEF KeptAt
<1> QED
  BY <1>3, <1>4, <1>5, <1>6, Zenon DEF Replayable, Kept

\* A redirect to the host sent: the first probe is needed, the others stand
\* alone.
LEMMA Judging_open_redirect ==
  ASSUME NEW S \in Sites["open_redirect"]
  PROVE  Judged("open_redirect", S)
<1>1. Sites["open_redirect"] = [plain : Echo, slashes : Echo, backslash : Echo, scheme :
             Echo]
  BY Zenon DEF Sites
<1>2. \A T : Judge("open_redirect", T) = Judge_open_redirect(T)
  BY Zenon DEF Judge
<1>3. Sound("open_redirect", S, Judge_open_redirect)
  <2> USE <1>1 DEF Judge_open_redirect, Ok, Echoes, FirstHit, Found, Nothing, Finding, Holds,
      Echo, Maybe
  <2>1. Quiet("open_redirect", S, Judge_open_redirect)
    BY DEF Quiet, OnePage, Alike, Has
  <2>2. Adds("open_redirect", S, Judge_open_redirect)
    <3> DEFINE probes == <<"plain", "slashes", "backslash", "scheme">>
    <3>1. SUFFICES ASSUME NEW p \in DOMAIN S, S[p] = Failed, Judge_open_redirect(S).found # {}, NEW answer
                   PROVE  Judge_open_redirect(With(S, p, answer)).found # {}
      BY DEF Adds
    <3>2. PICK i \in 1..4 : Echoes(S, probes[i])
      BY <3>1
    <3> DEFINE hits == {k \in 1..4 : Echoes(With(S, p, answer), probes[k])}
    <3>3. i \in hits /\ Ok(With(S, p, answer), {"plain"})
      BY <3>1, <3>2 DEF With
    <3>4. PICK k \in hits : Under(k, hits)
      <4>1. hits # {} /\ hits \in SUBSET (1..4)
        BY <3>3
      <4> HIDE DEF hits
      <4> QED
        BY <4>1, Least
    <3>5. Finding(probes[k], "Confirmed") \subseteq FirstHit(With(S, p, answer), probes, Echoes, "Confirmed")
      BY <3>4 DEF Under
    <3> QED
      BY <3>3, <3>5
  <2>3. Hides("open_redirect", S, Judge_open_redirect)
    BY DEF Hides, With, Needed
  <2> HIDE DEF Judge_open_redirect
  <2> QED
    BY <2>1, <2>2, <2>3, Zenon DEF Sound
<1> QED
  BY <1>2, <1>3, Zenon DEF Judged, Sound, Quiet, Adds, Hides

\* The finding is the first redirect; only its own answer may have changed.
LEMMA Replaying_open_redirect ==
  ASSUME NEW S \in Sites["open_redirect"]
  PROVE  Replayable("open_redirect", S)
<1>1. Sites["open_redirect"] = [plain : Echo, slashes : Echo, backslash : Echo, scheme :
             Echo]
  BY Zenon DEF Sites
<1>2. \A T : Judge("open_redirect", T) = Judge_open_redirect(T)
  BY Zenon DEF Judge
<1>3. /\ Shown("open_redirect", S, Judge_open_redirect)
      /\ Kept("open_redirect", S, Judge_open_redirect)
  <2> USE <1>1 DEF Judge_open_redirect, Ok, Echoes, FirstHit, Found, Nothing, Finding, Holds,
      Echo, Maybe, Shows, StillLive, Tagged
  <2>1. Shown("open_redirect", S, Judge_open_redirect)
    BY DEF Shown, Blind, Stripped
  <2>2. Kept("open_redirect", S, Judge_open_redirect)
    BY DEF Kept, KeptAt, Changed, With, Everywhere, Alike, Has, Loose, Unread
  <2> HIDE DEF Judge_open_redirect
  <2> QED
    BY <2>1, <2>2, Zenon
<1> DEFINE J(T) == Judge("open_redirect", T)
<1>4. Shown("open_redirect", S, J)
  BY <1>2, <1>3, Zenon DEF Shown
<1>5. \A T : Changed("open_redirect", S, T, J) =>
              Changed("open_redirect", S, T, Judge_open_redirect)
  BY <1>2, Zenon DEF Changed
<1>6. \A T : KeptAt("open_redirect", S, T, Judge_open_redirect) =>
              KeptAt("open_redirect", S, T, J)
  BY <1>2 DEF KeptAt
<1> QED
  BY <1>3, <1>4, <1>5, <1>6, Zenon DEF Replayable, Kept

\* The text speaks for itself; a status counts only against the one of the
\* base.
LEMMA Judging_ssrf ==
  ASSUME NEW S \in Sites["ssrf"]
  PROVE  Judged("ssrf", S)
<1>1. Sites["ssrf"] = [local : Listing, bare : Status, decimal : Signature, ipv6 :
             Signature]
  BY Zenon DEF Sites
<1>2. \A T : Judge("ssrf", T) = Judge_ssrf(T)
  BY Zenon DEF Judge
<1>3. Sound("ssrf", S, Judge_ssrf)
  <2> USE <1>1 DEF Judge_ssrf, Ok, Signs, FirstHit, Found, Nothing, Finding, Holds, Signature,
      Status, Listing, Maybe
  <2>1. Quiet("ssrf", S, Judge_ssrf)
    BY CodesAssumption DEF Quiet, OnePage, Alike, Has
  <2>2. Adds("ssrf", S, Judge_ssrf)
    <3> DEFINE probes == <<"decimal", "ipv6">>
    <3>1. SUFFICES ASSUME NEW p \in DOMAIN S, S[p] = Failed, Judge_ssrf(S).found # {}, NEW answer
                   PROVE  Judge_ssrf(With(S, p, answer)).found # {}
      BY DEF Adds
    <3>2. CASE p = "bare"
      BY <3>1, <3>2 DEF With
    <3>3. CASE p # "bare"
      <4>1. /\ S.local # Failed /\ With(S, p, answer).local = S.local
            /\ With(S, p, answer).bare = S.bare
        BY <3>1, <3>3 DEF With
      <4>2. CASE \E i \in 1..2 : Signs(S, probes[i])
        <5>1. PICK i \in 1..2 : Signs(S, probes[i])
          BY <4>2
        <5> DEFINE hits == {k \in 1..2 : Signs(With(S, p, answer), probes[k])}
        <5>2. i \in hits
          BY <3>1, <5>1 DEF With
        <5>3. PICK k \in hits : Under(k, hits)
          <6>1. hits # {} /\ hits \in SUBSET (1..2)
            BY <5>2
          <6> HIDE DEF hits
          <6> QED
            BY <6>1, Least
        <5>4. Finding(probes[k], "Likely") \subseteq FirstHit(With(S, p, answer), probes, Signs, "Likely")
          BY <5>3 DEF Under
        <5>5. FirstHit(With(S, p, answer), probes, Signs, "Likely") # {}
          BY <5>4
        <5>6. Signs(S, "local") \/ S.bare # Failed
          BY <3>1
        <5> QED
          BY <4>1, <5>5, <5>6
      <4>3. CASE ~\E i \in 1..2 : Signs(S, probes[i])
        BY <3>1, <4>1, <4>3
      <4> QED
        BY <4>2, <4>3
    <3> QED
      BY <3>2, <3>3
  <2>3. Hides("ssrf", S, Judge_ssrf)
    BY DEF Hides, With, Needed
  <2> HIDE DEF Judge_ssrf
  <2> QED
    BY <2>1, <2>2, <2>3, Zenon DEF Sound
<1> QED
  BY <1>2, <1>3, Zenon DEF Judged, Sound, Quiet, Adds, Hides

\* The operator is needed, the json probe speaks for itself.
LEMMA Judging_nosql_injection ==
  ASSUME NEW S \in Sites["nosql_injection"]
  PROVE  Judged("nosql_injection", S)
<1>1. Sites["nosql_injection"] = [operator : Signature, json : Signature]
  BY Zenon DEF Sites
<1>2. \A T : Judge("nosql_injection", T) = Judge_nosql_injection(T)
  BY Zenon DEF Judge
<1>3. Sound("nosql_injection", S, Judge_nosql_injection)
  <2> USE <1>1 DEF Judge_nosql_injection, Ok, Signs, FirstHit, Found, Nothing, Finding, Holds,
      Signature, Maybe
  <2>1. Quiet("nosql_injection", S, Judge_nosql_injection)
    BY DEF Quiet, OnePage, Alike, Has
  <2>2. Adds("nosql_injection", S, Judge_nosql_injection)
    BY DEF Adds, With
  <2>3. Hides("nosql_injection", S, Judge_nosql_injection)
    BY DEF Hides, With, Needed
  <2> HIDE DEF Judge_nosql_injection
  <2> QED
    BY <2>1, <2>2, <2>3, Zenon DEF Sound
<1> QED
  BY <1>2, <1>3, Zenon DEF Judged, Sound, Quiet, Adds, Hides

\* Each expression is judged alone: its value in the answer, and not the
\* expression.
LEMMA Judging_ssti ==
  ASSUME NEW S \in Sites["ssti"]
  PROVE  Judged("ssti", S)
<1>1. Sites["ssti"] = [Expressions -> Maybe([sig : BOOLEAN, echo : BOOLEAN])]
  BY Zenon DEF Sites
<1>2. \A T : Judge("ssti", T) = Judge_ssti(T)
  BY Zenon DEF Judge
<1>3. Sound("ssti", S, Judge_ssti)
  <2> USE <1>1 DEF Judge_ssti, FirstHit, Found, Evaluates, Echoes, Signs, Holds, Finding,
      Nothing, Maybe, Expressions
  <2>1. Quiet("ssti", S, Judge_ssti)
    BY DEF Quiet, OnePage, Alike, Has
  <2>2. Adds("ssti", S, Judge_ssti)
    <3> DEFINE probes == <<"braces", "dollar", "erb", "hash", "equals">>
    <3>1. SUFFICES ASSUME NEW p \in DOMAIN S, S[p] = Failed, Judge_ssti(S).found # {}, NEW answer
                   PROVE  Judge_ssti(With(S, p, answer)).found # {}
      BY DEF Adds
    <3>2. PICK i \in 1..5 : Evaluates(S, probes[i])
      BY <3>1
    <3> DEFINE hits == {k \in 1..5 : Evaluates(With(S, p, answer), probes[k])}
    <3>3. i \in hits
      BY <3>1, <3>2 DEF With
    <3>4. PICK k \in hits : Under(k, hits)
      <4>1. hits # {} /\ hits \in SUBSET (1..5)
        BY <3>3
      <4> HIDE DEF hits
      <4> QED
        BY <4>1, Least
    <3>5. Finding(probes[k], "Likely") \subseteq FirstHit(With(S, p, answer), probes, Evaluates, "Likely")
      BY <3>4 DEF Under
    <3> QED
      BY <3>3, <3>5
  <2>3. Hides("ssti", S, Judge_ssti)
    BY DEF Hides, With, Needed
  <2> HIDE DEF Judge_ssti
  <2> QED
    BY <2>1, <2>2, <2>3, Zenon DEF Sound
<1> QED
  BY <1>2, <1>3, Zenon DEF Judged, Sound, Quiet, Adds, Hides

\* One probe, and the text it provokes.
LEMMA Judging_ldap_injection ==
  ASSUME NEW S \in Sites["ldap_injection"]
  PROVE  Judged("ldap_injection", S)
<1>1. Sites["ldap_injection"] = [probe : Signature]
  BY Zenon DEF Sites
<1>2. \A T : Judge("ldap_injection", T) = Judge_ldap_injection(T)
  BY Zenon DEF Judge
<1>3. Sound("ldap_injection", S, Judge_ldap_injection)
  <2> USE <1>1 DEF Judge_ldap_injection, Signs, FirstHit, Found, Finding, Holds, Nothing,
      Signature, Maybe
  <2>1. Quiet("ldap_injection", S, Judge_ldap_injection)
    BY DEF Quiet, OnePage, Alike, Has
  <2>2. Adds("ldap_injection", S, Judge_ldap_injection)
    BY DEF Adds, With
  <2>3. Hides("ldap_injection", S, Judge_ldap_injection)
    BY DEF Hides, With, Needed
  <2> HIDE DEF Judge_ldap_injection
  <2> QED
    BY <2>1, <2>2, <2>3, Zenon DEF Sound
<1> QED
  BY <1>2, <1>3, Zenon DEF Judged, Sound, Quiet, Adds, Hides

\* One probe, and the text it provokes.
LEMMA Judging_xpath_injection ==
  ASSUME NEW S \in Sites["xpath_injection"]
  PROVE  Judged("xpath_injection", S)
<1>1. Sites["xpath_injection"] = [probe : Signature]
  BY Zenon DEF Sites
<1>2. \A T : Judge("xpath_injection", T) = Judge_xpath_injection(T)
  BY Zenon DEF Judge
<1>3. Sound("xpath_injection", S, Judge_xpath_injection)
  <2> USE <1>1 DEF Judge_xpath_injection, Signs, FirstHit, Found, Finding, Holds, Nothing,
      Signature, Maybe
  <2>1. Quiet("xpath_injection", S, Judge_xpath_injection)
    BY DEF Quiet, OnePage, Alike, Has
  <2>2. Adds("xpath_injection", S, Judge_xpath_injection)
    BY DEF Adds, With
  <2>3. Hides("xpath_injection", S, Judge_xpath_injection)
    BY DEF Hides, With, Needed
  <2> HIDE DEF Judge_xpath_injection
  <2> QED
    BY <2>1, <2>2, <2>3, Zenon DEF Sound
<1> QED
  BY <1>2, <1>3, Zenon DEF Judged, Sound, Quiet, Adds, Hides

\* Two probes, each judged by the header it plants.
LEMMA Judging_crlf_injection ==
  ASSUME NEW S \in Sites["crlf_injection"]
  PROVE  Judged("crlf_injection", S)
<1>1. Sites["crlf_injection"] = [crlf : Echo, lf : Echo]
  BY Zenon DEF Sites
<1>2. \A T : Judge("crlf_injection", T) = Judge_crlf_injection(T)
  BY Zenon DEF Judge
<1>3. Sound("crlf_injection", S, Judge_crlf_injection)
  <2> USE <1>1 DEF Judge_crlf_injection, Echoes, FirstHit, Found, Finding, Holds, Nothing, Echo,
      Maybe
  <2>1. Quiet("crlf_injection", S, Judge_crlf_injection)
    BY DEF Quiet, OnePage, Alike, Has
  <2>2. Adds("crlf_injection", S, Judge_crlf_injection)
    <3> DEFINE probes == <<"crlf", "lf">>
    <3>1. SUFFICES ASSUME NEW p \in DOMAIN S, S[p] = Failed, Judge_crlf_injection(S).found # {}, NEW answer
                   PROVE  Judge_crlf_injection(With(S, p, answer)).found # {}
      BY DEF Adds
    <3>2. PICK i \in 1..2 : Echoes(S, probes[i])
      BY <3>1
    <3> DEFINE hits == {k \in 1..2 : Echoes(With(S, p, answer), probes[k])}
    <3>3. i \in hits
      BY <3>1, <3>2 DEF With
    <3>4. PICK k \in hits : Under(k, hits)
      <4>1. hits # {} /\ hits \in SUBSET (1..2)
        BY <3>3
      <4> HIDE DEF hits
      <4> QED
        BY <4>1, Least
    <3>5. Finding(probes[k], "Confirmed") \subseteq FirstHit(With(S, p, answer), probes, Echoes, "Confirmed")
      BY <3>4 DEF Under
    <3> QED
      BY <3>3, <3>5
  <2>3. Hides("crlf_injection", S, Judge_crlf_injection)
    BY DEF Hides, With, Needed
  <2> HIDE DEF Judge_crlf_injection
  <2> QED
    BY <2>1, <2>2, <2>3, Zenon DEF Sound
<1> QED
  BY <1>2, <1>3, Zenon DEF Judged, Sound, Quiet, Adds, Hides

\* A delay counts against the base and the control, which one page answers as
\* late.
LEMMA Judging_command_injection ==
  ASSUME NEW S \in Sites["command_injection"]
  PROVE  Judged("command_injection", S)
<1>1. Sites["command_injection"] = [bare : Time, control : Time, semicolon : Time, pipe :
             Time, backtick : Time, dollar : Time, ping : Time, timeout : Time]
  BY Zenon DEF Sites
<1>2. \A T : Judge("command_injection", T) = Judge_command_injection(T)
  BY Zenon DEF Judge
<1>3. Sound("command_injection", S, Judge_command_injection)
  <2> USE <1>1 DEF Judge_command_injection, Ok, FirstHit, Found, Nothing, Delays, Elapsed,
      Finding, Time, Timed, Maybe
  <2>1. Quiet("command_injection", S, Judge_command_injection)
    <3> DEFINE probes == <<"semicolon", "pipe", "backtick", "dollar", "ping", "timeout">>
    <3>1. SUFFICES ASSUME OnePage(S), Ok(S, {"bare"})
                   PROVE  \A f \in FirstHit(S, probes, Delays, "Likely") : Has(S, f.by, "wait") /\ S[f.by].wait > 0
      BY DEF Quiet
    <3>2. ASSUME NEW q \in DOMAIN S, Delays(S, q) PROVE Has(S, q, "wait") /\ S[q].wait > 0
      <4>1. S[q].time = S.bare.time
        BY <3>1, <3>2 DEF OnePage, Alike
      <4>2. S.bare \in Timed /\ S[q] \in Timed
        BY <3>1, <3>2
      <4>3. S.bare.time \in Nat /\ S.bare.wait \in Nat /\ S[q].wait \in Nat
        BY <4>2, TimesAssumption
      <4> QED
        BY <3>2, <4>1, <4>3 DEF Has
    <3>3. \A i \in 1..6 : probes[i] \in DOMAIN S
      OBVIOUS
    <3>4. ASSUME NEW f \in FirstHit(S, probes, Delays, "Likely")
          PROVE  Has(S, f.by, "wait") /\ S[f.by].wait > 0
      <4>1. PICK i \in 1..6 : Delays(S, probes[i]) /\ f \in Finding(probes[i], "Likely")
        BY <3>4
      <4>2. f.by = probes[i]
        BY <4>1
      <4> HIDE DEF Delays, FirstHit, probes
      <4> QED
        BY <3>2, <3>3, <4>1, <4>2
    <3> QED
      BY <3>4
  <2>2. Adds("command_injection", S, Judge_command_injection)
    <3> DEFINE probes == <<"semicolon", "pipe", "backtick", "dollar", "ping", "timeout">>
    <3>1. SUFFICES ASSUME NEW p \in DOMAIN S, S[p] = Failed, p # "control",
                          Judge_command_injection(S).found # {}, NEW answer
                   PROVE  Judge_command_injection(With(S, p, answer)).found # {}
      BY DEF Adds, Telling
    <3>2. PICK i \in 1..6 : Delays(S, probes[i])
      BY <3>1
    <3>3. p # "bare" /\ S.bare # Failed
      BY <3>1
    <3>4. \A q \in {"bare", "control", probes[i]} : With(S, p, answer)[q] = S[q]
      BY <3>1, <3>2, <3>3 DEF With
    <3> DEFINE hits == {k \in 1..6 : Delays(With(S, p, answer), probes[k])}
    <3>5. i \in hits
      BY <3>2, <3>4
    <3>6. PICK k \in hits : Under(k, hits)
      <4>1. hits # {} /\ hits \in SUBSET (1..6)
        BY <3>5
      <4> HIDE DEF hits
      <4> QED
        BY <4>1, Least
    <3>7. Finding(probes[k], "Likely") \subseteq FirstHit(With(S, p, answer), probes, Delays, "Likely")
      BY <3>6 DEF Under
    <3>8. Ok(With(S, p, answer), {"bare"})
      BY <3>3, <3>4
    <3>9. Finding(probes[k], "Likely") # {}
      OBVIOUS
    <3> HIDE DEF FirstHit, Finding, Delays, Ok
    <3> QED
      BY <3>7, <3>8, <3>9
  <2>3. Hides("command_injection", S, Judge_command_injection)
    BY DEF Hides, With, Needed
  <2> HIDE DEF Judge_command_injection
  <2> QED
    BY <2>1, <2>2, <2>3, Zenon DEF Sound
<1> QED
  BY <1>2, <1>3, Zenon DEF Judged, Sound, Quiet, Adds, Hides

\* The doubled parameter counts only against the single one.
LEMMA Judging_http_parameter_pollution ==
  ASSUME NEW S \in Sites["http_parameter_pollution"]
  PROVE  Judged("http_parameter_pollution", S)
<1>1. Sites["http_parameter_pollution"] = [bare : Shape, doubled : Shape]
  BY Zenon DEF Sites
<1>2. \A T : Judge("http_parameter_pollution", T) = Judge_http_parameter_pollution(T)
  BY Zenon DEF Judge
<1>3. Sound("http_parameter_pollution", S, Judge_http_parameter_pollution)
  <2> USE <1>1 DEF Judge_http_parameter_pollution, Ok, Found, Finding, When, Differ, Nothing,
      Shape, Maybe
  <2>1. Quiet("http_parameter_pollution", S, Judge_http_parameter_pollution)
    BY CodesAssumption DEF Quiet, OnePage, Alike, Has
  <2>2. Adds("http_parameter_pollution", S, Judge_http_parameter_pollution)
    BY DEF Adds, With
  <2>3. Hides("http_parameter_pollution", S, Judge_http_parameter_pollution)
    BY DEF Hides, With, Needed
  <2> HIDE DEF Judge_http_parameter_pollution
  <2> QED
    BY <2>1, <2>2, <2>3, Zenon DEF Sound
<1> QED
  BY <1>2, <1>3, Zenon DEF Judged, Sound, Quiet, Adds, Hides

\* The parent path counts only against the base.
LEMMA Judging_path_traversal ==
  ASSUME NEW S \in Sites["path_traversal"]
  PROVE  Judged("path_traversal", S)
<1>1. Sites["path_traversal"] = [bare : Shape, parent : Shape]
  BY Zenon DEF Sites
<1>2. \A T : Judge("path_traversal", T) = Judge_path_traversal(T)
  BY Zenon DEF Judge
<1>3. Sound("path_traversal", S, Judge_path_traversal)
  <2> USE <1>1 DEF Judge_path_traversal, Ok, Found, Finding, When, Differ, Nothing, Shape, Maybe
  <2>1. Quiet("path_traversal", S, Judge_path_traversal)
    BY CodesAssumption DEF Quiet, OnePage, Alike, Has
  <2>2. Adds("path_traversal", S, Judge_path_traversal)
    BY DEF Adds, With
  <2>3. Hides("path_traversal", S, Judge_path_traversal)
    BY DEF Hides, With, Needed
  <2> HIDE DEF Judge_path_traversal
  <2> QED
    BY <2>1, <2>2, <2>3, Zenon DEF Sound
<1> QED
  BY <1>2, <1>3, Zenon DEF Judged, Sound, Quiet, Adds, Hides

\* One probe, judged by its echo.
LEMMA Judging_prototype_pollution ==
  ASSUME NEW S \in Sites["prototype_pollution"]
  PROVE  Judged("prototype_pollution", S)
<1>1. Sites["prototype_pollution"] = [nested : Echo]
  BY Zenon DEF Sites
<1>2. \A T : Judge("prototype_pollution", T) = Judge_prototype_pollution(T)
  BY Zenon DEF Judge
<1>3. Sound("prototype_pollution", S, Judge_prototype_pollution)
  <2> USE <1>1 DEF Judge_prototype_pollution, Echoes, Found, Finding, When, Holds, Nothing,
      Echo, Maybe
  <2>1. Quiet("prototype_pollution", S, Judge_prototype_pollution)
    BY DEF Quiet, OnePage, Alike, Has
  <2>2. Adds("prototype_pollution", S, Judge_prototype_pollution)
    BY DEF Adds, With
  <2>3. Hides("prototype_pollution", S, Judge_prototype_pollution)
    BY DEF Hides, With, Needed
  <2> HIDE DEF Judge_prototype_pollution
  <2> QED
    BY <2>1, <2>2, <2>3, Zenon DEF Sound
<1> QED
  BY <1>2, <1>3, Zenon DEF Judged, Sound, Quiet, Adds, Hides

\* The origin sent must come back: its failure is raised; null is judged alone.
LEMMA Judging_cors ==
  ASSUME NEW S \in Sites["cors"]
  PROVE  Judged("cors", S)
<1>1. Sites["cors"] = [origin : Maybe([acao : {"echo", "*", "null", "none"}, credentials :
             BOOLEAN]), null : Maybe([acao : {"echo", "*", "null", "none"}, credentials :
             BOOLEAN])]
  BY Zenon DEF Sites
<1>2. \A T : Judge("cors", T) = Judge_cors(T)
  BY Zenon DEF Judge
<1>3. Sound("cors", S, Judge_cors)
  <2> USE <1>1 DEF Judge_cors, Ok, Raised, Found, Finding, When, Nothing, Maybe
  <2>1. Quiet("cors", S, Judge_cors)
    BY DEF Quiet, OnePage, Alike, Has
  <2>2. Adds("cors", S, Judge_cors)
    BY DEF Adds, With
  <2>3. Hides("cors", S, Judge_cors)
    BY DEF Hides, With, Needed
  <2> HIDE DEF Judge_cors
  <2> QED
    BY <2>1, <2>2, <2>3, Zenon DEF Sound
<1> QED
  BY <1>2, <1>3, Zenon DEF Judged, Sound, Quiet, Adds, Hides

\* The origin of the probe is replayed; null is not what the predicate expects.
LEMMA Replaying_cors ==
  ASSUME NEW S \in Sites["cors"]
  PROVE  Replayable("cors", S)
<1>1. Sites["cors"] = [origin : Maybe([acao : {"echo", "*", "null", "none"}, credentials :
             BOOLEAN]), null : Maybe([acao : {"echo", "*", "null", "none"}, credentials :
             BOOLEAN])]
  BY Zenon DEF Sites
<1>2. \A T : Judge("cors", T) = Judge_cors(T)
  BY Zenon DEF Judge
<1>3. /\ Shown("cors", S, Judge_cors)
      /\ Kept("cors", S, Judge_cors)
  <2> USE <1>1 DEF Judge_cors, Ok, Raised, Found, Finding, When, Nothing, Maybe, Shows,
      StillLive, Tagged
  <2>1. Shown("cors", S, Judge_cors)
    BY DEF Shown, Blind, Stripped
  <2>2. Kept("cors", S, Judge_cors)
    BY DEF Kept, KeptAt, Changed, With, Everywhere, Alike, Has, Loose, Unread
  <2> HIDE DEF Judge_cors
  <2> QED
    BY <2>1, <2>2, Zenon
<1> DEFINE J(T) == Judge("cors", T)
<1>4. Shown("cors", S, J)
  BY <1>2, <1>3, Zenon DEF Shown
<1>5. \A T : Changed("cors", S, T, J) =>
              Changed("cors", S, T, Judge_cors)
  BY <1>2, Zenon DEF Changed
<1>6. \A T : KeptAt("cors", S, T, Judge_cors) =>
              KeptAt("cors", S, T, J)
  BY <1>2 DEF KeptAt
<1> QED
  BY <1>3, <1>4, <1>5, <1>6, Zenon DEF Replayable, Kept

\* Three findings of three probes; the override counts only against the base.
LEMMA Judging_http_methods ==
  ASSUME NEW S \in Sites["http_methods"]
  PROVE  Judged("http_methods", S)
<1>1. Sites["http_methods"] = [trace : Listing, options : Signature, bare : Status, override
             : Status]
  BY Zenon DEF Sites
<1>2. \A T : Judge("http_methods", T) = Judge_http_methods(T)
  BY Zenon DEF Judge
<1>3. Sound("http_methods", S, Judge_http_methods)
  <2> USE <1>1 DEF Judge_http_methods, Signs, Found, Finding, When, Overridden, Ok, Holds,
      Nothing, Signature, Status, Listing, Maybe
  <2>1. Quiet("http_methods", S, Judge_http_methods)
    BY CodesAssumption DEF Quiet, OnePage, Alike, Has
  <2>2. Adds("http_methods", S, Judge_http_methods)
    BY DEF Adds, With
  <2>3. Hides("http_methods", S, Judge_http_methods)
    BY DEF Hides, With, Needed
  <2> HIDE DEF Judge_http_methods
  <2> QED
    BY <2>1, <2>2, <2>3, Zenon DEF Sound
<1> QED
  BY <1>2, <1>3, Zenon DEF Judged, Sound, Quiet, Adds, Hides

\* The first header is needed, each is judged by its echo.
LEMMA Judging_host_header ==
  ASSUME NEW S \in Sites["host_header"]
  PROVE  Judged("host_header", S)
<1>1. Sites["host_header"] = [host : Echo, forwarded : Echo]
  BY Zenon DEF Sites
<1>2. \A T : Judge("host_header", T) = Judge_host_header(T)
  BY Zenon DEF Judge
<1>3. Sound("host_header", S, Judge_host_header)
  <2> USE <1>1 DEF Judge_host_header, Ok, Echoes, Found, Nothing, Finding, When, Holds, Echo,
      Maybe
  <2>1. Quiet("host_header", S, Judge_host_header)
    BY DEF Quiet, OnePage, Alike, Has
  <2>2. Adds("host_header", S, Judge_host_header)
    BY DEF Adds, With
  <2>3. Hides("host_header", S, Judge_host_header)
    BY DEF Hides, With, Needed
  <2> HIDE DEF Judge_host_header
  <2> QED
    BY <2>1, <2>2, <2>3, Zenon DEF Sound
<1> QED
  BY <1>2, <1>3, Zenon DEF Judged, Sound, Quiet, Adds, Hides

\* The base is asked, but only the echo is judged.
LEMMA Judging_forwarded_host_trust ==
  ASSUME NEW S \in Sites["forwarded_host_trust"]
  PROVE  Judged("forwarded_host_trust", S)
<1>1. Sites["forwarded_host_trust"] = [bare : Status, forwarded : Echo]
  BY Zenon DEF Sites
<1>2. \A T : Judge("forwarded_host_trust", T) = Judge_forwarded_host_trust(T)
  BY Zenon DEF Judge
<1>3. Sound("forwarded_host_trust", S, Judge_forwarded_host_trust)
  <2> USE <1>1 DEF Judge_forwarded_host_trust, Ok, Echoes, Found, Finding, When, Holds, Nothing,
      Echo, Status, Maybe
  <2>1. Quiet("forwarded_host_trust", S, Judge_forwarded_host_trust)
    BY CodesAssumption DEF Quiet, OnePage, Alike, Has
  <2>2. Adds("forwarded_host_trust", S, Judge_forwarded_host_trust)
    BY DEF Adds, With
  <2>3. Hides("forwarded_host_trust", S, Judge_forwarded_host_trust)
    BY DEF Hides, With, Needed
  <2> HIDE DEF Judge_forwarded_host_trust
  <2> QED
    BY <2>1, <2>2, <2>3, Zenon DEF Sound
<1> QED
  BY <1>2, <1>3, Zenon DEF Judged, Sound, Quiet, Adds, Hides

\* For each header the tag, or the quote where the tag is encoded; a tag is
\* needed.
LEMMA Judging_header_injection ==
  ASSUME NEW S \in Sites["header_injection"]
  PROVE  Judged("header_injection", S)
<1>1. Sites["header_injection"] = [tag1 : Echo, quote1 : Signature, tag2 : Echo, quote2 :
             Signature]
  BY Zenon DEF Sites
<1>2. \A T : Judge("header_injection", T) = Judge_header_injection(T)
  BY Zenon DEF Judge
<1>3. Sound("header_injection", S, Judge_header_injection)
  <2> USE <1>1 DEF Judge_header_injection, Ok, Echoes, Signs, Found, Finding, When, Holds,
      Nothing, Echo, Signature, Maybe
  <2>1. Quiet("header_injection", S, Judge_header_injection)
    BY DEF Quiet, OnePage, Alike, Has
  <2>2. Adds("header_injection", S, Judge_header_injection)
    BY DEF Adds, With
  <2>3. Hides("header_injection", S, Judge_header_injection)
    BY DEF Hides, With, Needed
  <2> HIDE DEF Judge_header_injection
  <2> QED
    BY <2>1, <2>2, <2>3, Zenon DEF Sound
<1> QED
  BY <1>2, <1>3, Zenon DEF Judged, Sound, Quiet, Adds, Hides

\* The tags come back as what the predicate looks for, the quotes do not.
LEMMA Replaying_header_injection ==
  ASSUME NEW S \in Sites["header_injection"]
  PROVE  Replayable("header_injection", S)
<1>1. Sites["header_injection"] = [tag1 : Echo, quote1 : Signature, tag2 : Echo, quote2 :
             Signature]
  BY Zenon DEF Sites
<1>2. \A T : Judge("header_injection", T) = Judge_header_injection(T)
  BY Zenon DEF Judge
<1>3. /\ Shown("header_injection", S, Judge_header_injection)
      /\ Kept("header_injection", S, Judge_header_injection)
  <2> USE <1>1 DEF Judge_header_injection, Ok, Echoes, Signs, Found, Finding, When, Holds,
      Nothing, Echo, Signature, Maybe, Shows, StillLive, Tagged
  <2>1. Shown("header_injection", S, Judge_header_injection)
    BY DEF Shown, Blind, Stripped
  <2>2. Kept("header_injection", S, Judge_header_injection)
    BY DEF Kept, KeptAt, Changed, With, Everywhere, Alike, Has, Loose, Unread
  <2> HIDE DEF Judge_header_injection
  <2> QED
    BY <2>1, <2>2, Zenon
<1> DEFINE J(T) == Judge("header_injection", T)
<1>4. Shown("header_injection", S, J)
  BY <1>2, <1>3, Zenon DEF Shown
<1>5. \A T : Changed("header_injection", S, T, J) =>
              Changed("header_injection", S, T, Judge_header_injection)
  BY <1>2, Zenon DEF Changed
<1>6. \A T : KeptAt("header_injection", S, T, Judge_header_injection) =>
              KeptAt("header_injection", S, T, J)
  BY <1>2 DEF KeptAt
<1> QED
  BY <1>3, <1>4, <1>5, <1>6, Zenon DEF Replayable, Kept

\* A panel counts unless the missing page is one: the missing page must have
\* been seen.
LEMMA Judging_admin_exposure ==
  ASSUME NEW S \in Sites["admin_exposure"]
  PROVE  Judged("admin_exposure", S)
<1>1. Sites["admin_exposure"] = [{"missing", "admin", "console"} -> Page({"none", "login",
             "users", "settings"})]
  BY Zenon DEF Sites
<1>2. \A T : Judge("admin_exposure", T) = Judge_admin_exposure(T)
  BY Zenon DEF Judge
<1>3. Sound("admin_exposure", S, Judge_admin_exposure)
  <2> USE <1>1 DEF Judge_admin_exposure, Found, Finding, When, Live, Nothing, Page, Maybe
  <2>1. Quiet("admin_exposure", S, Judge_admin_exposure)
    BY DEF Quiet, OnePage, Alike, Has
  <2>2. Adds("admin_exposure", S, Judge_admin_exposure)
    BY DEF Adds, With, Telling
  <2>3. Hides("admin_exposure", S, Judge_admin_exposure)
    BY DEF Hides, With, Needed
  <2> HIDE DEF Judge_admin_exposure
  <2> QED
    BY <2>1, <2>2, <2>3, Zenon DEF Sound
<1> QED
  BY <1>2, <1>3, Zenon DEF Judged, Sound, Quiet, Adds, Hides

\* The predicate wants the panel live, as the detector does.
LEMMA Replaying_admin_exposure ==
  ASSUME NEW S \in Sites["admin_exposure"]
  PROVE  Replayable("admin_exposure", S)
<1>1. Sites["admin_exposure"] = [{"missing", "admin", "console"} -> Page({"none", "login",
             "users", "settings"})]
  BY Zenon DEF Sites
<1>2. \A T : Judge("admin_exposure", T) = Judge_admin_exposure(T)
  BY Zenon DEF Judge
<1>3. /\ Shown("admin_exposure", S, Judge_admin_exposure)
      /\ Kept("admin_exposure", S, Judge_admin_exposure)
  <2> USE <1>1 DEF Judge_admin_exposure, Found, Finding, When, Live, Nothing, Page, Maybe,
      Shows, StillLive, Tagged
  <2>1. Shown("admin_exposure", S, Judge_admin_exposure)
    BY DEF Shown, Blind, Stripped
  <2>2. Kept("admin_exposure", S, Judge_admin_exposure)
    BY DEF Kept, KeptAt, Changed, With, Everywhere, Alike, Has, Loose, Unread
  <2> HIDE DEF Judge_admin_exposure
  <2> QED
    BY <2>1, <2>2, Zenon
<1> DEFINE J(T) == Judge("admin_exposure", T)
<1>4. Shown("admin_exposure", S, J)
  BY <1>2, <1>3, Zenon DEF Shown
<1>5. \A T : Changed("admin_exposure", S, T, J) =>
              Changed("admin_exposure", S, T, Judge_admin_exposure)
  BY <1>2, Zenon DEF Changed
<1>6. \A T : KeptAt("admin_exposure", S, T, Judge_admin_exposure) =>
              KeptAt("admin_exposure", S, T, J)
  BY <1>2 DEF KeptAt
<1> QED
  BY <1>3, <1>4, <1>5, <1>6, Zenon DEF Replayable, Kept

\* A file counts unless the missing page is the same: it must have been seen.
LEMMA Judging_exposed_files ==
  ASSUME NEW S \in Sites["exposed_files"]
  PROVE  Judged("exposed_files", S)
<1>1. Sites["exposed_files"] = [{"missing", "special", "plain"} -> Page({"none", "other",
             "key", "dump"})]
  BY Zenon DEF Sites
<1>2. \A T : Judge("exposed_files", T) = Judge_exposed_files(T)
  BY Zenon DEF Judge
<1>3. Sound("exposed_files", S, Judge_exposed_files)
  <2> USE <1>1 DEF Judge_exposed_files, Found, Finding, When, Nothing, Page, Maybe
  <2>1. Quiet("exposed_files", S, Judge_exposed_files)
    BY DEF Quiet, OnePage, Alike, Has
  <2>2. Adds("exposed_files", S, Judge_exposed_files)
    BY DEF Adds, With, Telling
  <2>3. Hides("exposed_files", S, Judge_exposed_files)
    BY DEF Hides, With, Needed
  <2> HIDE DEF Judge_exposed_files
  <2> QED
    BY <2>1, <2>2, <2>3, Zenon DEF Sound
<1> QED
  BY <1>2, <1>3, Zenon DEF Judged, Sound, Quiet, Adds, Hides

\* The predicate takes any page for the file.
LEMMA Replaying_exposed_files ==
  ASSUME NEW S \in Sites["exposed_files"]
  PROVE  Replayable("exposed_files", S)
<1>1. Sites["exposed_files"] = [{"missing", "special", "plain"} -> Page({"none", "other",
             "key", "dump"})]
  BY Zenon DEF Sites
<1>2. \A T : Judge("exposed_files", T) = Judge_exposed_files(T)
  BY Zenon DEF Judge
<1>3. /\ Shown("exposed_files", S, Judge_exposed_files)
      /\ Kept("exposed_files", S, Judge_exposed_files)
  <2> USE <1>1 DEF Judge_exposed_files, Found, Finding, When, Nothing, Page, Maybe, Shows,
      StillLive, Tagged
  <2>1. Shown("exposed_files", S, Judge_exposed_files)
    BY DEF Shown, Blind, Stripped
  <2>2. Kept("exposed_files", S, Judge_exposed_files)
    BY DEF Kept, KeptAt, Changed, With, Everywhere, Alike, Has, Loose, Unread
  <2> HIDE DEF Judge_exposed_files
  <2> QED
    BY <2>1, <2>2, Zenon
<1> DEFINE J(T) == Judge("exposed_files", T)
<1>4. Shown("exposed_files", S, J)
  BY <1>2, <1>3, Zenon DEF Shown
<1>5. \A T : Changed("exposed_files", S, T, J) =>
              Changed("exposed_files", S, T, Judge_exposed_files)
  BY <1>2, Zenon DEF Changed
<1>6. \A T : KeptAt("exposed_files", S, T, Judge_exposed_files) =>
              KeptAt("exposed_files", S, T, J)
  BY <1>2 DEF KeptAt
<1> QED
  BY <1>3, <1>4, <1>5, <1>6, Zenon DEF Replayable, Kept

\* Each directory is judged alone.
LEMMA Judging_directory_listing ==
  ASSUME NEW S \in Sites["directory_listing"]
  PROVE  Judged("directory_listing", S)
<1>1. Sites["directory_listing"] = [images : Listing, backup : Listing]
  BY Zenon DEF Sites
<1>2. \A T : Judge("directory_listing", T) = Judge_directory_listing(T)
  BY Zenon DEF Judge
<1>3. Sound("directory_listing", S, Judge_directory_listing)
  <2> USE <1>1 DEF Judge_directory_listing, Found, Finding, When, Lists, Signs, Holds, Nothing,
      Listing, Maybe
  <2>1. Quiet("directory_listing", S, Judge_directory_listing)
    BY CodesAssumption DEF Quiet, OnePage, Alike, Has
  <2>2. Adds("directory_listing", S, Judge_directory_listing)
    BY DEF Adds, With
  <2>3. Hides("directory_listing", S, Judge_directory_listing)
    BY DEF Hides, With, Needed
  <2> HIDE DEF Judge_directory_listing
  <2> QED
    BY <2>1, <2>2, <2>3, Zenon DEF Sound
<1> QED
  BY <1>2, <1>3, Zenon DEF Judged, Sound, Quiet, Adds, Hides

\* The predicate is the detector's own condition.
LEMMA Replaying_directory_listing ==
  ASSUME NEW S \in Sites["directory_listing"]
  PROVE  Replayable("directory_listing", S)
<1>1. Sites["directory_listing"] = [images : Listing, backup : Listing]
  BY Zenon DEF Sites
<1>2. \A T : Judge("directory_listing", T) = Judge_directory_listing(T)
  BY Zenon DEF Judge
<1>3. /\ Shown("directory_listing", S, Judge_directory_listing)
      /\ Kept("directory_listing", S, Judge_directory_listing)
  <2> USE <1>1 DEF Judge_directory_listing, Found, Finding, When, Lists, Signs, Holds, Nothing,
      Listing, Maybe, Shows, StillLive, Tagged
  <2>1. Shown("directory_listing", S, Judge_directory_listing)
    BY DEF Shown, Blind, Stripped
  <2>2. Kept("directory_listing", S, Judge_directory_listing)
    BY DEF Kept, KeptAt, Changed, With, Everywhere, Alike, Has, Loose, Unread
  <2> HIDE DEF Judge_directory_listing
  <2> QED
    BY <2>1, <2>2, Zenon
<1> DEFINE J(T) == Judge("directory_listing", T)
<1>4. Shown("directory_listing", S, J)
  BY <1>2, <1>3, Zenon DEF Shown
<1>5. \A T : Changed("directory_listing", S, T, J) =>
              Changed("directory_listing", S, T, Judge_directory_listing)
  BY <1>2, Zenon DEF Changed
<1>6. \A T : KeptAt("directory_listing", S, T, Judge_directory_listing) =>
              KeptAt("directory_listing", S, T, J)
  BY <1>2 DEF KeptAt
<1> QED
  BY <1>3, <1>4, <1>5, <1>6, Zenon DEF Replayable, Kept

\* The deep query is asked only of an end point that answers the schema.
LEMMA Judging_graphql_introspection ==
  ASSUME NEW S \in Sites["graphql_introspection"]
  PROVE  Judged("graphql_introspection", S)
<1>1. Sites["graphql_introspection"] = [schema : Listing, deep : Maybe([code : Codes, errors
             : BOOLEAN])]
  BY Zenon DEF Sites
<1>2. \A T : Judge("graphql_introspection", T) = Judge_graphql_introspection(T)
  BY Zenon DEF Judge
<1>3. Sound("graphql_introspection", S, Judge_graphql_introspection)
  <2> USE <1>1 DEF Judge_graphql_introspection, Ok, Found, Nothing, Finding, When, Lists, Signs,
      Holds, Listing, Maybe
  <2>1. Quiet("graphql_introspection", S, Judge_graphql_introspection)
    BY CodesAssumption DEF Quiet, OnePage, Alike, Has
  <2>2. Adds("graphql_introspection", S, Judge_graphql_introspection)
    BY DEF Adds, With
  <2>3. Hides("graphql_introspection", S, Judge_graphql_introspection)
    BY DEF Hides, With, Needed
  <2> HIDE DEF Judge_graphql_introspection
  <2> QED
    BY <2>1, <2>2, <2>3, Zenon DEF Sound
<1> QED
  BY <1>2, <1>3, Zenon DEF Judged, Sound, Quiet, Adds, Hides

\* The query is lost, and with it every sign.
LEMMA Replaying_graphql_introspection ==
  ASSUME NEW S \in Sites["graphql_introspection"]
  PROVE  Replayable("graphql_introspection", S)
<1>1. Sites["graphql_introspection"] = [schema : Listing, deep : Maybe([code : Codes, errors
             : BOOLEAN])]
  BY Zenon DEF Sites
<1>2. \A T : Judge("graphql_introspection", T) = Judge_graphql_introspection(T)
  BY Zenon DEF Judge
<1>3. /\ Shown("graphql_introspection", S, Judge_graphql_introspection)
      /\ Kept("graphql_introspection", S, Judge_graphql_introspection)
  <2> USE <1>1 DEF Judge_graphql_introspection, Ok, Found, Nothing, Finding, When, Lists, Signs,
      Holds, Listing, Maybe, Shows, StillLive, Tagged
  <2>1. Shown("graphql_introspection", S, Judge_graphql_introspection)
    BY DEF Shown, Blind, Stripped
  <2>2. Kept("graphql_introspection", S, Judge_graphql_introspection)
    BY DEF Kept, KeptAt, Changed, With, Everywhere, Alike, Has, Loose, Unread
  <2> HIDE DEF Judge_graphql_introspection
  <2> QED
    BY <2>1, <2>2, Zenon
<1> DEFINE J(T) == Judge("graphql_introspection", T)
<1>4. Shown("graphql_introspection", S, J)
  BY <1>2, <1>3, Zenon DEF Shown
<1>5. \A T : Changed("graphql_introspection", S, T, J) =>
              Changed("graphql_introspection", S, T, Judge_graphql_introspection)
  BY <1>2, Zenon DEF Changed
<1>6. \A T : KeptAt("graphql_introspection", S, T, Judge_graphql_introspection) =>
              KeptAt("graphql_introspection", S, T, J)
  BY <1>2 DEF KeptAt
<1> QED
  BY <1>3, <1>4, <1>5, <1>6, Zenon DEF Replayable, Kept

\* The first place where it is published decides; the base is asked when there
\* is none.
LEMMA Judging_security_txt ==
  ASSUME NEW S \in Sites["security_txt"]
  PROVE  Judged("security_txt", S)
<1>1. Sites["security_txt"] = [known : Page({"none", "contact", "valid"}), root :
             Page({"none", "contact", "valid"}), bare : Status]
  BY Zenon DEF Sites
<1>2. \A T : Judge("security_txt", T) = Judge_security_txt(T)
  BY Zenon DEF Judge
<1>3. Sound("security_txt", S, Judge_security_txt)
  <2> USE <1>1 DEF Judge_security_txt, Ok, FirstHit, Found, Finding, When, Nothing, Page,
      Status, Maybe
  <2>1. Quiet("security_txt", S, Judge_security_txt)
    BY CodesAssumption DEF Quiet, Sameness
  <2>2. Adds("security_txt", S, Judge_security_txt)
    BY DEF Adds, With, Telling
  <2>3. Hides("security_txt", S, Judge_security_txt)
    <3> DEFINE Published(U, q) == U[q] # Failed /\ U[q].page # "none"
               first(U) == FirstHit(U, <<"known", "root">>, Published, "Confirmed")
               Entry(q) == [by |-> q, confidence |-> "Confirmed"]
    <3>1. \A U : Judge_security_txt(U).found = IF first(U) = {} THEN When(Ok(U, {"bare"}), Finding("bare", "Possible"))
                                               ELSE {f \in first(U) : U[f.by].page = "contact"}
      BY Zenon
    <3>2. \A U : first(U) = IF Published(U, "known") THEN {Entry("known")}
                            ELSE IF Published(U, "root") THEN {Entry("root")} ELSE {}
      OBVIOUS
    <3> DEFINE found(U) == Judge_security_txt(U).found
    <3>3. ASSUME NEW U, Published(U, "known")
          PROVE  /\ \A f \in found(U) : f.by = "known" /\ U["known"].page = "contact"
                 /\ U["known"].page = "contact" => found(U) # {}
      <4> HIDE DEF first, Judge_security_txt
      <4>1. first(U) = {Entry("known")}
        BY <3>2, <3>3
      <4>2. found(U) = {f \in {Entry("known")} : U[f.by].page = "contact"}
        BY <3>1, <4>1
      <4>3. Entry("known").by = "known"
        OBVIOUS
      <4> HIDE DEF found, Entry
      <4> QED
        BY <4>2, <4>3
    <3>4. ASSUME NEW U, ~Published(U, "known"), Published(U, "root")
          PROVE  /\ \A f \in found(U) : f.by = "root" /\ U["root"].page = "contact"
                 /\ U["root"].page = "contact" => found(U) # {}
      <4> HIDE DEF first, Judge_security_txt
      <4>1. first(U) = {Entry("root")}
        BY <3>2, <3>4
      <4>2. found(U) = {f \in {Entry("root")} : U[f.by].page = "contact"}
        BY <3>1, <4>1
      <4>3. Entry("root").by = "root"
        OBVIOUS
      <4> HIDE DEF found, Entry
      <4> QED
        BY <4>2, <4>3
    <3>5. ASSUME NEW U, ~Published(U, "known"), ~Published(U, "root")
          PROVE  found(U) = {} <=> U["bare"] = Failed
      <4> HIDE DEF first, Judge_security_txt
      <4>1. first(U) = {}
        BY <3>2, <3>5
      <4> QED
        BY <3>1, <4>1
    <3>6. SUFFICES ASSUME NEW p \in {"known", "root"}, S[p] = Failed, found(S) = {}, NEW answer,
                          NEW f \in found(With(S, p, answer))
                   PROVE  f.by = p
      <4> HIDE DEF Judge_security_txt
      <4> QED
        BY DEF Hides, Needed
    <3> DEFINE T == With(S, p, answer)
    <3>7. f \in found(T)
      BY <3>6
    <3>0. \A q \in {"known", "root", "bare"} \ {p} : T[q] = S[q]
      <4>1. DOMAIN S = {"known", "root", "bare"}
        OBVIOUS
      <4> QED
        BY <4>1 DEF With
    <3> HIDE DEF found, T
    <3>8. CASE p = "known"
      <4>1. ~Published(S, "known") /\ T["root"] = S["root"] /\ T["bare"] = S["bare"]
        BY <3>0, <3>6, <3>8
      <4>2. CASE Published(S, "root")
        <5>1. S["root"].page # "contact"
          BY <3>4, <3>6, <4>1, <4>2
        <5>2. Published(T, "root") /\ T["root"].page # "contact"
          BY <4>1, <4>2, <5>1
        <5> QED
          BY <3>3, <3>4, <3>7, <3>8, <5>2
      <4>3. CASE ~Published(S, "root")
        <5>1. T["bare"] = Failed /\ ~Published(T, "root")
          BY <3>5, <3>6, <4>1, <4>3, <3>8
        <5> QED
          BY <3>3, <3>4, <3>5, <3>7, <3>8, <5>1
      <4> QED
        BY <4>2, <4>3
    <3>9. CASE p = "root"
      <4>1. ~Published(S, "root") /\ T["known"] = S["known"] /\ T["bare"] = S["bare"]
        BY <3>0, <3>6, <3>9
      <4>2. CASE Published(S, "known")
        <5>1. S["known"].page # "contact"
          BY <3>3, <3>6, <4>1, <4>2
        <5>2. Published(T, "known") /\ T["known"].page # "contact"
          BY <4>1, <4>2, <5>1
        <5> QED
          BY <3>3, <3>4, <3>7, <3>9, <5>2
      <4>3. CASE ~Published(S, "known")
        <5>1. T["bare"] = Failed /\ ~Published(T, "known")
          BY <3>5, <3>6, <4>1, <4>3, <3>9
        <5> QED
          BY <3>3, <3>4, <3>5, <3>7, <3>9, <5>1
      <4> QED
        BY <4>2, <4>3
    <3> QED
      BY <3>6, <3>8, <3>9
  <2> HIDE DEF Judge_security_txt
  <2> QED
    BY <2>1, <2>2, <2>3, Zenon DEF Sound
<1> QED
  BY <1>2, <1>3, Zenon DEF Judged, Sound, Quiet, Adds, Hides

\* One page, judged by its text; a failure is raised.
LEMMA Judging_dom_xss ==
  ASSUME NEW S \in Sites["dom_xss"]
  PROVE  Judged("dom_xss", S)
<1>1. Sites["dom_xss"] = [bare : Signature]
  BY Zenon DEF Sites
<1>2. \A T : Judge("dom_xss", T) = Judge_dom_xss(T)
  BY Zenon DEF Judge
<1>3. Sound("dom_xss", S, Judge_dom_xss)
  <2> USE <1>1 DEF Judge_dom_xss, Ok, Signs, Raised, Found, Finding, When, Holds, Nothing,
      Signature, Maybe
  <2>1. Quiet("dom_xss", S, Judge_dom_xss)
    BY DEF Quiet, OnePage, Alike, Has
  <2>2. Adds("dom_xss", S, Judge_dom_xss)
    BY DEF Adds, With
  <2>3. Hides("dom_xss", S, Judge_dom_xss)
    BY DEF Hides, With, Needed
  <2> HIDE DEF Judge_dom_xss
  <2> QED
    BY <2>1, <2>2, <2>3, Zenon DEF Sound
<1> QED
  BY <1>2, <1>3, Zenon DEF Judged, Sound, Quiet, Adds, Hides

\* The predicate knows no sink.
LEMMA Replaying_dom_xss ==
  ASSUME NEW S \in Sites["dom_xss"]
  PROVE  Replayable("dom_xss", S)
<1>1. Sites["dom_xss"] = [bare : Signature]
  BY Zenon DEF Sites
<1>2. \A T : Judge("dom_xss", T) = Judge_dom_xss(T)
  BY Zenon DEF Judge
<1>3. /\ Shown("dom_xss", S, Judge_dom_xss)
      /\ Kept("dom_xss", S, Judge_dom_xss)
  <2> USE <1>1 DEF Judge_dom_xss, Ok, Signs, Raised, Found, Finding, When, Holds, Nothing,
      Signature, Maybe, Shows, StillLive, Tagged
  <2>1. Shown("dom_xss", S, Judge_dom_xss)
    BY DEF Shown, Blind, Stripped
  <2>2. Kept("dom_xss", S, Judge_dom_xss)
    BY DEF Kept, KeptAt, Changed, With, Everywhere, Alike, Has, Loose, Unread
  <2> HIDE DEF Judge_dom_xss
  <2> QED
    BY <2>1, <2>2, Zenon
<1> DEFINE J(T) == Judge("dom_xss", T)
<1>4. Shown("dom_xss", S, J)
  BY <1>2, <1>3, Zenon DEF Shown
<1>5. \A T : Changed("dom_xss", S, T, J) =>
              Changed("dom_xss", S, T, Judge_dom_xss)
  BY <1>2, Zenon DEF Changed
<1>6. \A T : KeptAt("dom_xss", S, T, Judge_dom_xss) =>
              KeptAt("dom_xss", S, T, J)
  BY <1>2 DEF KeptAt
<1> QED
  BY <1>3, <1>4, <1>5, <1>6, Zenon DEF Replayable, Kept

\* The decoy must be answered like the page: two answers, both needed or
\* silent.
LEMMA Judging_web_cache_deception ==
  ASSUME NEW S \in Sites["web_cache_deception"]
  PROVE  Judged("web_cache_deception", S)
<1>1. Sites["web_cache_deception"] = [bare : Shape, decoy : Maybe([code : Codes, size :
             Sizes, public : BOOLEAN])]
  BY Zenon DEF Sites
<1>2. \A T : Judge("web_cache_deception", T) = Judge_web_cache_deception(T)
  BY Zenon DEF Judge
<1>3. Sound("web_cache_deception", S, Judge_web_cache_deception)
  <2> USE <1>1 DEF Judge_web_cache_deception, Ok, Found, Finding, When, Nothing, Shape, Maybe
  <2>1. Quiet("web_cache_deception", S, Judge_web_cache_deception)
    BY CodesAssumption DEF Quiet, Sameness
  <2>2. Adds("web_cache_deception", S, Judge_web_cache_deception)
    BY DEF Adds, With
  <2>3. Hides("web_cache_deception", S, Judge_web_cache_deception)
    BY DEF Hides, With, Needed
  <2> HIDE DEF Judge_web_cache_deception
  <2> QED
    BY <2>1, <2>2, <2>3, Zenon DEF Sound
<1> QED
  BY <1>2, <1>3, Zenon DEF Judged, Sound, Quiet, Adds, Hides

\* A variant counts only against the base, by its status.
LEMMA Judging_path_canonicalization ==
  ASSUME NEW S \in Sites["path_canonicalization"]
  PROVE  Judged("path_canonicalization", S)
<1>1. Sites["path_canonicalization"] = [bare : Status, dot : Status, slashes : Status]
  BY Zenon DEF Sites
<1>2. \A T : Judge("path_canonicalization", T) = Judge_path_canonicalization(T)
  BY Zenon DEF Judge
<1>3. Sound("path_canonicalization", S, Judge_path_canonicalization)
  <2> USE <1>1 DEF Judge_path_canonicalization, Ok, FirstHit, Found, Nothing, Finding, Status,
      Maybe
  <2>1. Quiet("path_canonicalization", S, Judge_path_canonicalization)
    BY CodesAssumption DEF Quiet, OnePage, Alike, Has
  <2>2. Adds("path_canonicalization", S, Judge_path_canonicalization)
    BY DEF Adds, With
  <2>3. Hides("path_canonicalization", S, Judge_path_canonicalization)
    BY DEF Hides, With, Needed
  <2> HIDE DEF Judge_path_canonicalization
  <2> QED
    BY <2>1, <2>2, <2>3, Zenon DEF Sound
<1> QED
  BY <1>2, <1>3, Zenon DEF Judged, Sound, Quiet, Adds, Hides

\* Three statuses are compared, all of them needed.
LEMMA Judging_content_negotiation_auth ==
  ASSUME NEW S \in Sites["content_negotiation_auth"]
  PROVE  Judged("content_negotiation_auth", S)
<1>1. Sites["content_negotiation_auth"] = [bare : Status, json : Status, html : Status]
  BY Zenon DEF Sites
<1>2. \A T : Judge("content_negotiation_auth", T) = Judge_content_negotiation_auth(T)
  BY Zenon DEF Judge
<1>3. Sound("content_negotiation_auth", S, Judge_content_negotiation_auth)
  <2> USE <1>1 DEF Judge_content_negotiation_auth, Ok, Found, Nothing, Finding, When, Status,
      Maybe
  <2>1. Quiet("content_negotiation_auth", S, Judge_content_negotiation_auth)
    BY CodesAssumption DEF Quiet, OnePage, Alike, Has
  <2>2. Adds("content_negotiation_auth", S, Judge_content_negotiation_auth)
    BY DEF Adds, With
  <2>3. Hides("content_negotiation_auth", S, Judge_content_negotiation_auth)
    BY DEF Hides, With, Needed
  <2> HIDE DEF Judge_content_negotiation_auth
  <2> QED
    BY <2>1, <2>2, <2>3, Zenon DEF Sound
<1> QED
  BY <1>2, <1>3, Zenon DEF Judged, Sound, Quiet, Adds, Hides

\* The burst ends with the first failure, so any of them can be telling.
LEMMA Judging_rate_limiting ==
  ASSUME NEW S \in Sites["rate_limiting"]
  PROVE  Judged("rate_limiting", S)
<1>1. Sites["rate_limiting"] = [{"r1", "r2", "r3", "r4", "r5", "r6"} -> Status]
  BY Zenon DEF Sites
<1>2. \A T : Judge("rate_limiting", T) = Judge_rate_limiting(T)
  BY Zenon DEF Judge
<1>3. Sound("rate_limiting", S, Judge_rate_limiting)
  <2> USE <1>1 DEF Judge_rate_limiting, Found, Finding, When, Burst, Nothing, Status, Maybe
  <2>1. Quiet("rate_limiting", S, Judge_rate_limiting)
    BY CodesAssumption DEF Quiet, Sameness
  <2>2. Adds("rate_limiting", S, Judge_rate_limiting)
    BY DEF Adds, With, Telling
  <2>3. Hides("rate_limiting", S, Judge_rate_limiting)
    BY DEF Hides, With, Needed
  <2> HIDE DEF Judge_rate_limiting
  <2> QED
    BY <2>1, <2>2, <2>3, Zenon DEF Sound
<1> QED
  BY <1>2, <1>3, Zenon DEF Judged, Sound, Quiet, Adds, Hides

\* One probe, judged by its echo.
LEMMA Judging_xxe ==
  ASSUME NEW S \in Sites["xxe"]
  PROVE  Judged("xxe", S)
<1>1. Sites["xxe"] = [entity : Maybe([echo : BOOLEAN, code : Codes])]
  BY Zenon DEF Sites
<1>2. \A T : Judge("xxe", T) = Judge_xxe(T)
  BY Zenon DEF Judge
<1>3. Sound("xxe", S, Judge_xxe)
  <2> USE <1>1 DEF Judge_xxe, Echoes, Found, Finding, When, Holds, Nothing, Maybe
  <2>1. Quiet("xxe", S, Judge_xxe)
    BY CodesAssumption DEF Quiet, OnePage, Alike, Has
  <2>2. Adds("xxe", S, Judge_xxe)
    BY DEF Adds, With
  <2>3. Hides("xxe", S, Judge_xxe)
    BY DEF Hides, With, Needed
  <2> HIDE DEF Judge_xxe
  <2> QED
    BY <2>1, <2>2, <2>3, Zenon DEF Sound
<1> QED
  BY <1>2, <1>3, Zenon DEF Judged, Sound, Quiet, Adds, Hides

\* The document is lost, and with it every sign.
LEMMA Replaying_xxe ==
  ASSUME NEW S \in Sites["xxe"]
  PROVE  Replayable("xxe", S)
<1>1. Sites["xxe"] = [entity : Maybe([echo : BOOLEAN, code : Codes])]
  BY Zenon DEF Sites
<1>2. \A T : Judge("xxe", T) = Judge_xxe(T)
  BY Zenon DEF Judge
<1>3. /\ Shown("xxe", S, Judge_xxe)
      /\ Kept("xxe", S, Judge_xxe)
  <2> USE <1>1 DEF Judge_xxe, Echoes, Found, Finding, When, Holds, Nothing, Maybe, Shows,
      StillLive, Tagged
  <2>1. Shown("xxe", S, Judge_xxe)
    BY DEF Shown, Blind, Stripped
  <2>2. Kept("xxe", S, Judge_xxe)
    BY DEF Kept, KeptAt, Changed, With, Everywhere, Alike, Has, Loose, Unread
  <2> HIDE DEF Judge_xxe
  <2> QED
    BY <2>1, <2>2, Zenon
<1> DEFINE J(T) == Judge("xxe", T)
<1>4. Shown("xxe", S, J)
  BY <1>2, <1>3, Zenon DEF Shown
<1>5. \A T : Changed("xxe", S, T, J) =>
              Changed("xxe", S, T, Judge_xxe)
  BY <1>2, Zenon DEF Changed
<1>6. \A T : KeptAt("xxe", S, T, Judge_xxe) =>
              KeptAt("xxe", S, T, J)
  BY <1>2 DEF KeptAt
<1> QED
  BY <1>3, <1>4, <1>5, <1>6, Zenon DEF Replayable, Kept

\* The neighbour must look like the own object: both are asked.
LEMMA Judging_idor_heuristic ==
  ASSUME NEW S \in Sites["idor_heuristic"]
  PROVE  Judged("idor_heuristic", S)
<1>1. Sites["idor_heuristic"] = [own : Maybe([code : Codes, size : Sizes, gated : BOOLEAN]),
             neighbour : Maybe([code : Codes, size : Sizes, gated : BOOLEAN])]
  BY Zenon DEF Sites
<1>2. \A T : Judge("idor_heuristic", T) = Judge_idor_heuristic(T)
  BY Zenon DEF Judge
<1>3. Sound("idor_heuristic", S, Judge_idor_heuristic)
  <2> USE <1>1 DEF Judge_idor_heuristic, Ok, Found, Finding, When, Differ, Nothing, Maybe
  <2>1. Quiet("idor_heuristic", S, Judge_idor_heuristic)
    BY CodesAssumption DEF Quiet, Sameness
  <2>2. Adds("idor_heuristic", S, Judge_idor_heuristic)
    BY DEF Adds, With
  <2>3. Hides("idor_heuristic", S, Judge_idor_heuristic)
    BY DEF Hides, With, Needed
  <2> HIDE DEF Judge_idor_heuristic
  <2> QED
    BY <2>1, <2>2, <2>3, Zenon DEF Sound
<1> QED
  BY <1>2, <1>3, Zenon DEF Judged, Sound, Quiet, Adds, Hides

\* The first answer counts only against the second.
LEMMA Judging_user_enumeration ==
  ASSUME NEW S \in Sites["user_enumeration"]
  PROVE  Judged("user_enumeration", S)
<1>1. Sites["user_enumeration"] = [first : Shape, second : Shape]
  BY Zenon DEF Sites
<1>2. \A T : Judge("user_enumeration", T) = Judge_user_enumeration(T)
  BY Zenon DEF Judge
<1>3. Sound("user_enumeration", S, Judge_user_enumeration)
  <2> USE <1>1 DEF Judge_user_enumeration, Ok, Found, Finding, When, Differ, Nothing, Shape,
      Maybe
  <2>1. Quiet("user_enumeration", S, Judge_user_enumeration)
    BY CodesAssumption DEF Quiet, OnePage, Alike, Has
  <2>2. Adds("user_enumeration", S, Judge_user_enumeration)
    BY DEF Adds, With
  <2>3. Hides("user_enumeration", S, Judge_user_enumeration)
    BY DEF Hides, With, Needed
  <2> HIDE DEF Judge_user_enumeration
  <2> QED
    BY <2>1, <2>2, <2>3, Zenon DEF Sound
<1> QED
  BY <1>2, <1>3, Zenon DEF Judged, Sound, Quiet, Adds, Hides

\* The marker must be there on the revisit, after a submission that was
\* answered.
LEMMA Judging_stored_xss ==
  ASSUME NEW S \in Sites["stored_xss"]
  PROVE  Judged("stored_xss", S)
<1>1. Sites["stored_xss"] = [submit : Status, revisit : Echo]
  BY Zenon DEF Sites
<1>2. \A T : Judge("stored_xss", T) = Judge_stored_xss(T)
  BY Zenon DEF Judge
<1>3. Sound("stored_xss", S, Judge_stored_xss)
  <2> USE <1>1 DEF Judge_stored_xss, Ok, Echoes, Found, Finding, When, Holds, Nothing, Echo,
      Status, Maybe
  <2>1. Quiet("stored_xss", S, Judge_stored_xss)
    BY CodesAssumption DEF Quiet, OnePage, Alike, Has
  <2>2. Adds("stored_xss", S, Judge_stored_xss)
    BY DEF Adds, With
  <2>3. Hides("stored_xss", S, Judge_stored_xss)
    BY DEF Hides, With, Needed
  <2> HIDE DEF Judge_stored_xss
  <2> QED
    BY <2>1, <2>2, <2>3, Zenon DEF Sound
<1> QED
  BY <1>2, <1>3, Zenon DEF Judged, Sound, Quiet, Adds, Hides

\* The revisit is replayed, and its marker is a tag.
LEMMA Replaying_stored_xss ==
  ASSUME NEW S \in Sites["stored_xss"]
  PROVE  Replayable("stored_xss", S)
<1>1. Sites["stored_xss"] = [submit : Status, revisit : Echo]
  BY Zenon DEF Sites
<1>2. \A T : Judge("stored_xss", T) = Judge_stored_xss(T)
  BY Zenon DEF Judge
<1>3. /\ Shown("stored_xss", S, Judge_stored_xss)
      /\ Kept("stored_xss", S, Judge_stored_xss)
  <2> USE <1>1 DEF Judge_stored_xss, Ok, Echoes, Found, Finding, When, Holds, Nothing, Echo,
      Status, Maybe, Shows, StillLive, Tagged
  <2>1. Shown("stored_xss", S, Judge_stored_xss)
    BY DEF Shown, Blind, Stripped
  <2>2. Kept("stored_xss", S, Judge_stored_xss)
    BY DEF Kept, KeptAt, Changed, With, Everywhere, Alike, Has, Loose, Unread
  <2> HIDE DEF Judge_stored_xss
  <2> QED
    BY <2>1, <2>2, Zenon
<1> DEFINE J(T) == Judge("stored_xss", T)
<1>4. Shown("stored_xss", S, J)
  BY <1>2, <1>3, Zenon DEF Shown
<1>5. \A T : Changed("stored_xss", S, T, J) =>
              Changed("stored_xss", S, T, Judge_stored_xss)
  BY <1>2, Zenon DEF Changed
<1>6. \A T : KeptAt("stored_xss", S, T, Judge_stored_xss) =>
              KeptAt("stored_xss", S, T, J)
  BY <1>2 DEF KeptAt
<1> QED
  BY <1>3, <1>4, <1>5, <1>6, Zenon DEF Replayable, Kept

\* One probe, judged by its echo.
LEMMA Judging_mass_assignment ==
  ASSUME NEW S \in Sites["mass_assignment"]
  PROVE  Judged("mass_assignment", S)
<1>1. Sites["mass_assignment"] = [extra : Maybe([echo : BOOLEAN, code : Codes])]
  BY Zenon DEF Sites
<1>2. \A T : Judge("mass_assignment", T) = Judge_mass_assignment(T)
  BY Zenon DEF Judge
<1>3. Sound("mass_assignment", S, Judge_mass_assignment)
  <2> USE <1>1 DEF Judge_mass_assignment, Echoes, Found, Finding, When, Holds, Nothing, Maybe
  <2>1. Quiet("mass_assignment", S, Judge_mass_assignment)
    BY CodesAssumption DEF Quiet, OnePage, Alike, Has
  <2>2. Adds("mass_assignment", S, Judge_mass_assignment)
    BY DEF Adds, With
  <2>3. Hides("mass_assignment", S, Judge_mass_assignment)
    BY DEF Hides, With, Needed
  <2> HIDE DEF Judge_mass_assignment
  <2> QED
    BY <2>1, <2>2, <2>3, Zenon DEF Sound
<1> QED
  BY <1>2, <1>3, Zenon DEF Judged, Sound, Quiet, Adds, Hides

\* One probe, judged by its text and status.
LEMMA Judging_verbose_errors ==
  ASSUME NEW S \in Sites["verbose_errors"]
  PROVE  Judged("verbose_errors", S)
<1>1. Sites["verbose_errors"] = [probe : Listing]
  BY Zenon DEF Sites
<1>2. \A T : Judge("verbose_errors", T) = Judge_verbose_errors(T)
  BY Zenon DEF Judge
<1>3. Sound("verbose_errors", S, Judge_verbose_errors)
  <2> USE <1>1 DEF Judge_verbose_errors, Signs, Found, Finding, When, Holds, Nothing, Listing,
      Maybe
  <2>1. Quiet("verbose_errors", S, Judge_verbose_errors)
    BY CodesAssumption DEF Quiet, OnePage, Alike, Has
  <2>2. Adds("verbose_errors", S, Judge_verbose_errors)
    BY DEF Adds, With
  <2>3. Hides("verbose_errors", S, Judge_verbose_errors)
    BY DEF Hides, With, Needed
  <2> HIDE DEF Judge_verbose_errors
  <2> QED
    BY <2>1, <2>2, <2>3, Zenon DEF Sound
<1> QED
  BY <1>2, <1>3, Zenon DEF Judged, Sound, Quiet, Adds, Hides

\* The base is needed, each script is judged alone.
LEMMA Judging_source_map_exposure ==
  ASSUME NEW S \in Sites["source_map_exposure"]
  PROVE  Judged("source_map_exposure", S)
<1>1. Sites["source_map_exposure"] = [bare : Signature, first : Listing, second : Listing]
  BY Zenon DEF Sites
<1>2. \A T : Judge("source_map_exposure", T) = Judge_source_map_exposure(T)
  BY Zenon DEF Judge
<1>3. Sound("source_map_exposure", S, Judge_source_map_exposure)
  <2> USE <1>1 DEF Judge_source_map_exposure, Signs, Found, Finding, When, Lists, Assets, Holds,
      Nothing, Signature, Listing, Maybe
  <2>1. Quiet("source_map_exposure", S, Judge_source_map_exposure)
    BY CodesAssumption DEF Quiet, OnePage, Alike, Has
  <2>2. Adds("source_map_exposure", S, Judge_source_map_exposure)
    BY DEF Adds, With
  <2>3. Hides("source_map_exposure", S, Judge_source_map_exposure)
    BY DEF Hides, With, Needed
  <2> HIDE DEF Judge_source_map_exposure
  <2> QED
    BY <2>1, <2>2, <2>3, Zenon DEF Sound
<1> QED
  BY <1>2, <1>3, Zenon DEF Judged, Sound, Quiet, Adds, Hides

\* Each name is judged alone.
LEMMA Judging_service_worker_exposure ==
  ASSUME NEW S \in Sites["service_worker_exposure"]
  PROVE  Judged("service_worker_exposure", S)
<1>1. Sites["service_worker_exposure"] = [first : Listing, second : Listing]
  BY Zenon DEF Sites
<1>2. \A T : Judge("service_worker_exposure", T) = Judge_service_worker_exposure(T)
  BY Zenon DEF Judge
<1>3. Sound("service_worker_exposure", S, Judge_service_worker_exposure)
  <2> USE <1>1 DEF Judge_service_worker_exposure, Found, Finding, When, Lists, Assets, Signs,
      Holds, Nothing, Listing, Maybe
  <2>1. Quiet("service_worker_exposure", S, Judge_service_worker_exposure)
    BY CodesAssumption DEF Quiet, OnePage, Alike, Has
  <2>2. Adds("service_worker_exposure", S, Judge_service_worker_exposure)
    BY DEF Adds, With
  <2>3. Hides("service_worker_exposure", S, Judge_service_worker_exposure)
    BY DEF Hides, With, Needed
  <2> HIDE DEF Judge_service_worker_exposure
  <2> QED
    BY <2>1, <2>2, <2>3, Zenon DEF Sound
<1> QED
  BY <1>2, <1>3, Zenon DEF Judged, Sound, Quiet, Adds, Hides

\* The base is needed, each script is judged alone.
LEMMA Judging_client_side_credential_leak ==
  ASSUME NEW S \in Sites["client_side_credential_leak"]
  PROVE  Judged("client_side_credential_leak", S)
<1>1. Sites["client_side_credential_leak"] = [bare : Status, first : Signature, second :
             Signature]
  BY Zenon DEF Sites
<1>2. \A T : Judge("client_side_credential_leak", T) = Judge_client_side_credential_leak(T)
  BY Zenon DEF Judge
<1>3. Sound("client_side_credential_leak", S, Judge_client_side_credential_leak)
  <2> USE <1>1 DEF Judge_client_side_credential_leak, Ok, Signs, Found, Finding, When, Assets,
      Holds, Nothing, Signature, Status, Maybe
  <2>1. Quiet("client_side_credential_leak", S, Judge_client_side_credential_leak)
    BY CodesAssumption DEF Quiet, OnePage, Alike, Has
  <2>2. Adds("client_side_credential_leak", S, Judge_client_side_credential_leak)
    BY DEF Adds, With
  <2>3. Hides("client_side_credential_leak", S, Judge_client_side_credential_leak)
    BY DEF Hides, With, Needed
  <2> HIDE DEF Judge_client_side_credential_leak
  <2> QED
    BY <2>1, <2>2, <2>3, Zenon DEF Sound
<1> QED
  BY <1>2, <1>3, Zenon DEF Judged, Sound, Quiet, Adds, Hides

\* The base is needed, each asset is judged alone.
LEMMA Judging_sri_integrity_mismatch ==
  ASSUME NEW S \in Sites["sri_integrity_mismatch"]
  PROVE  Judged("sri_integrity_mismatch", S)
<1>1. Sites["sri_integrity_mismatch"] = [bare : Status, first : Listing, second : Listing]
  BY Zenon DEF Sites
<1>2. \A T : Judge("sri_integrity_mismatch", T) = Judge_sri_integrity_mismatch(T)
  BY Zenon DEF Judge
<1>3. Sound("sri_integrity_mismatch", S, Judge_sri_integrity_mismatch)
  <2> USE <1>1 DEF Judge_sri_integrity_mismatch, Ok, Found, Finding, When, Lists, Assets, Signs,
      Holds, Nothing, Status, Listing, Maybe
  <2>1. Quiet("sri_integrity_mismatch", S, Judge_sri_integrity_mismatch)
    BY CodesAssumption DEF Quiet, OnePage, Alike, Has
  <2>2. Adds("sri_integrity_mismatch", S, Judge_sri_integrity_mismatch)
    BY DEF Adds, With
  <2>3. Hides("sri_integrity_mismatch", S, Judge_sri_integrity_mismatch)
    BY DEF Hides, With, Needed
  <2> HIDE DEF Judge_sri_integrity_mismatch
  <2> QED
    BY <2>1, <2>2, <2>3, Zenon DEF Sound
<1> QED
  BY <1>2, <1>3, Zenon DEF Judged, Sound, Quiet, Adds, Hides

\* The evidence is the page, whichever script holds the text.
LEMMA Judging_dom_open_redirect ==
  ASSUME NEW S \in Sites["dom_open_redirect"]
  PROVE  Judged("dom_open_redirect", S)
<1>1. Sites["dom_open_redirect"] = [bare : Signature, script : Signature]
  BY Zenon DEF Sites
<1>2. \A T : Judge("dom_open_redirect", T) = Judge_dom_open_redirect(T)
  BY Zenon DEF Judge
<1>3. Sound("dom_open_redirect", S, Judge_dom_open_redirect)
  <2> USE <1>1 DEF Judge_dom_open_redirect, Ok, Signs, Found, Finding, When, Holds, Nothing,
      Signature, Maybe
  <2>1. Quiet("dom_open_redirect", S, Judge_dom_open_redirect)
    BY DEF Quiet, OnePage, Alike, Has
  <2>2. Adds("dom_open_redirect", S, Judge_dom_open_redirect)
    BY DEF Adds, With
  <2>3. Hides("dom_open_redirect", S, Judge_dom_open_redirect)
    BY DEF Hides, With, Needed
  <2> HIDE DEF Judge_dom_open_redirect
  <2> QED
    BY <2>1, <2>2, <2>3, Zenon DEF Sound
<1> QED
  BY <1>2, <1>3, Zenon DEF Judged, Sound, Quiet, Adds, Hides

\* The page's failure is raised; a page is no handshake, whatever final status
\* it has.
LEMMA Judging_websocket ==
  ASSUME NEW S \in Sites["websocket"]
  PROVE  Judged("websocket", S)
<1>1. Sites["websocket"] = [bare : Listing, handshake : Maybe([code : Codes \union {101}])]
  BY Zenon DEF Sites
<1>2. \A T : Judge("websocket", T) = Judge_websocket(T)
  BY Zenon DEF Judge
<1>3. Sound("websocket", S, Judge_websocket)
  <2> USE <1>1 DEF Judge_websocket, Ok, Signs, Raised, Found, Finding, When, Holds, Nothing,
      Listing, Maybe
  <2>1. Quiet("websocket", S, Judge_websocket)
    BY CodesAssumption DEF Quiet, OnePage, Alike, Has
  <2>2. Adds("websocket", S, Judge_websocket)
    BY DEF Adds, With
  <2>3. Hides("websocket", S, Judge_websocket)
    BY DEF Hides, With, Needed
  <2> HIDE DEF Judge_websocket
  <2> QED
    BY <2>1, <2>2, <2>3, Zenon DEF Sound
<1> QED
  BY <1>2, <1>3, Zenon DEF Judged, Sound, Quiet, Adds, Hides

\* The preflight counts only against the answer that lets the origin in.
LEMMA Judging_cors_preflight_consistency ==
  ASSUME NEW S \in Sites["cors_preflight_consistency"]
  PROVE  Judged("cors_preflight_consistency", S)
<1>1. Sites["cors_preflight_consistency"] = [normal : Maybe([acao : {"echo", "none"}]),
             preflight : Maybe([allows : BOOLEAN])]
  BY Zenon DEF Sites
<1>2. \A T : Judge("cors_preflight_consistency", T) = Judge_cors_preflight_consistency(T)
  BY Zenon DEF Judge
<1>3. Sound("cors_preflight_consistency", S, Judge_cors_preflight_consistency)
  <2> USE <1>1 DEF Judge_cors_preflight_consistency, Ok, Found, Finding, When, Nothing, Maybe
  <2>1. Quiet("cors_preflight_consistency", S, Judge_cors_preflight_consistency)
    BY DEF Quiet, OnePage, Alike, Has
  <2>2. Adds("cors_preflight_consistency", S, Judge_cors_preflight_consistency)
    BY DEF Adds, With
  <2>3. Hides("cors_preflight_consistency", S, Judge_cors_preflight_consistency)
    BY DEF Hides, With, Needed
  <2> HIDE DEF Judge_cors_preflight_consistency
  <2> QED
    BY <2>1, <2>2, <2>3, Zenon DEF Sound
<1> QED
  BY <1>2, <1>3, Zenon DEF Judged, Sound, Quiet, Adds, Hides

\* One probe, judged by its text and status.
LEMMA Judging_graphql_sensitive_schema ==
  ASSUME NEW S \in Sites["graphql_sensitive_schema"]
  PROVE  Judged("graphql_sensitive_schema", S)
<1>1. Sites["graphql_sensitive_schema"] = [schema : Listing]
  BY Zenon DEF Sites
<1>2. \A T : Judge("graphql_sensitive_schema", T) = Judge_graphql_sensitive_schema(T)
  BY Zenon DEF Judge
<1>3. Sound("graphql_sensitive_schema", S, Judge_graphql_sensitive_schema)
  <2> USE <1>1 DEF Judge_graphql_sensitive_schema, Found, Finding, When, Lists, Signs, Holds,
      Nothing, Listing, Maybe
  <2>1. Quiet("graphql_sensitive_schema", S, Judge_graphql_sensitive_schema)
    BY CodesAssumption DEF Quiet, OnePage, Alike, Has
  <2>2. Adds("graphql_sensitive_schema", S, Judge_graphql_sensitive_schema)
    BY DEF Adds, With
  <2>3. Hides("graphql_sensitive_schema", S, Judge_graphql_sensitive_schema)
    BY DEF Hides, With, Needed
  <2> HIDE DEF Judge_graphql_sensitive_schema
  <2> QED
    BY <2>1, <2>2, <2>3, Zenon DEF Sound
<1> QED
  BY <1>2, <1>3, Zenon DEF Judged, Sound, Quiet, Adds, Hides

\* Each path is judged alone, and any text will do.
LEMMA Judging_backup_artifact_exposure ==
  ASSUME NEW S \in Sites["backup_artifact_exposure"]
  PROVE  Judged("backup_artifact_exposure", S)
<1>1. Sites["backup_artifact_exposure"] = [env : Page({"none", "html", "plain"}), dump :
             Page({"none", "html", "plain"})]
  BY Zenon DEF Sites
<1>2. \A T : Judge("backup_artifact_exposure", T) = Judge_backup_artifact_exposure(T)
  BY Zenon DEF Judge
<1>3. Sound("backup_artifact_exposure", S, Judge_backup_artifact_exposure)
  <2> USE <1>1 DEF Judge_backup_artifact_exposure, Found, Finding, When, Nothing, Page, Maybe
  <2>1. Quiet("backup_artifact_exposure", S, Judge_backup_artifact_exposure)
    BY DEF Quiet, Sameness
  <2>2. Adds("backup_artifact_exposure", S, Judge_backup_artifact_exposure)
    BY DEF Adds, With
  <2>3. Hides("backup_artifact_exposure", S, Judge_backup_artifact_exposure)
    BY DEF Hides, With, Needed
  <2> HIDE DEF Judge_backup_artifact_exposure
  <2> QED
    BY <2>1, <2>2, <2>3, Zenon DEF Sound
<1> QED
  BY <1>2, <1>3, Zenon DEF Judged, Sound, Quiet, Adds, Hides

\* The text answer counts only next to a json one.
LEMMA Judging_api_content_type_confusion ==
  ASSUME NEW S \in Sites["api_content_type_confusion"]
  PROVE  Judged("api_content_type_confusion", S)
<1>1. Sites["api_content_type_confusion"] = [json : Maybe([json : BOOLEAN]), text :
             Maybe([json : BOOLEAN, sig : BOOLEAN, code : Codes])]
  BY Zenon DEF Sites
<1>2. \A T : Judge("api_content_type_confusion", T) = Judge_api_content_type_confusion(T)
  BY Zenon DEF Judge
<1>3. Sound("api_content_type_confusion", S, Judge_api_content_type_confusion)
  <2> USE <1>1 DEF Judge_api_content_type_confusion, Ok, Found, Finding, When, Lists, Signs,
      Holds, Nothing, Maybe
  <2>1. Quiet("api_content_type_confusion", S, Judge_api_content_type_confusion)
    BY CodesAssumption DEF Quiet, OnePage, Alike, Has
  <2>2. Adds("api_content_type_confusion", S, Judge_api_content_type_confusion)
    BY DEF Adds, With
  <2>3. Hides("api_content_type_confusion", S, Judge_api_content_type_confusion)
    BY DEF Hides, With, Needed
  <2> HIDE DEF Judge_api_content_type_confusion
  <2> QED
    BY <2>1, <2>2, <2>3, Zenon DEF Sound
<1> QED
  BY <1>2, <1>3, Zenon DEF Judged, Sound, Quiet, Adds, Hides

\* The base is asked, but only the echo and its status are judged.
LEMMA Judging_json_parser_differential ==
  ASSUME NEW S \in Sites["json_parser_differential"]
  PROVE  Judged("json_parser_differential", S)
<1>1. Sites["json_parser_differential"] = [bare : Status, keys : Maybe([echo : BOOLEAN, code
             : Codes])]
  BY Zenon DEF Sites
<1>2. \A T : Judge("json_parser_differential", T) = Judge_json_parser_differential(T)
  BY Zenon DEF Judge
<1>3. Sound("json_parser_differential", S, Judge_json_parser_differential)
  <2> USE <1>1 DEF Judge_json_parser_differential, Ok, Echoes, Found, Finding, When, Holds,
      Nothing, Status, Maybe
  <2>1. Quiet("json_parser_differential", S, Judge_json_parser_differential)
    BY CodesAssumption DEF Quiet, OnePage, Alike, Has
  <2>2. Adds("json_parser_differential", S, Judge_json_parser_differential)
    BY DEF Adds, With
  <2>3. Hides("json_parser_differential", S, Judge_json_parser_differential)
    BY DEF Hides, With, Needed
  <2> HIDE DEF Judge_json_parser_differential
  <2> QED
    BY <2>1, <2>2, <2>3, Zenon DEF Sound
<1> QED
  BY <1>2, <1>3, Zenon DEF Judged, Sound, Quiet, Adds, Hides

\* Every shape counts against the base, and all must be answered.
LEMMA Judging_parameter_shape_differential ==
  ASSUME NEW S \in Sites["parameter_shape_differential"]
  PROVE  Judged("parameter_shape_differential", S)
<1>1. Sites["parameter_shape_differential"] = [bare : Shape, array : Shape, duplicate :
             Shape, empty : Shape]
  BY Zenon DEF Sites
<1>2. \A T : Judge("parameter_shape_differential", T) = Judge_parameter_shape_differential(T)
  BY Zenon DEF Judge
<1>3. Sound("parameter_shape_differential", S, Judge_parameter_shape_differential)
  <2> USE <1>1 DEF Judge_parameter_shape_differential, Ok, FirstHit, Found, Nothing, Differ,
      Finding, Shape, Maybe
  <2>1. Quiet("parameter_shape_differential", S, Judge_parameter_shape_differential)
    BY CodesAssumption DEF Quiet, OnePage, Alike, Has
  <2>2. Adds("parameter_shape_differential", S, Judge_parameter_shape_differential)
    BY DEF Adds, With
  <2>3. Hides("parameter_shape_differential", S, Judge_parameter_shape_differential)
    BY DEF Hides, With, Needed
  <2> HIDE DEF Judge_parameter_shape_differential
  <2> QED
    BY <2>1, <2>2, <2>3, Zenon DEF Sound
<1> QED
  BY <1>2, <1>3, Zenon DEF Judged, Sound, Quiet, Adds, Hides

\* Two representations are compared, both needed.
LEMMA Judging_api_response_consistency ==
  ASSUME NEW S \in Sites["api_response_consistency"]
  PROVE  Judged("api_response_consistency", S)
<1>1. Sites["api_response_consistency"] = [json : Listing, html : Listing]
  BY Zenon DEF Sites
<1>2. \A T : Judge("api_response_consistency", T) = Judge_api_response_consistency(T)
  BY Zenon DEF Judge
<1>3. Sound("api_response_consistency", S, Judge_api_response_consistency)
  <2> USE <1>1 DEF Judge_api_response_consistency, Ok, Found, Nothing, Finding, When, Listing,
      Maybe
  <2>1. Quiet("api_response_consistency", S, Judge_api_response_consistency)
    BY CodesAssumption DEF Quiet, OnePage, Alike, Has
  <2>2. Adds("api_response_consistency", S, Judge_api_response_consistency)
    BY DEF Adds, With
  <2>3. Hides("api_response_consistency", S, Judge_api_response_consistency)
    BY DEF Hides, With, Needed
  <2> HIDE DEF Judge_api_response_consistency
  <2> QED
    BY <2>1, <2>2, <2>3, Zenon DEF Sound
<1> QED
  BY <1>2, <1>3, Zenon DEF Judged, Sound, Quiet, Adds, Hides

\* The page counts only against the root.
LEMMA Judging_security_header_drift ==
  ASSUME NEW S \in Sites["security_header_drift"]
  PROVE  Judged("security_header_drift", S)
<1>1. Sites["security_header_drift"] = [root : Maybe([controls : SUBSET {"csp", "hsts"}]),
             bare : Maybe([controls : SUBSET {"csp", "hsts"}])]
  BY Zenon DEF Sites
<1>2. \A T : Judge("security_header_drift", T) = Judge_security_header_drift(T)
  BY Zenon DEF Judge
<1>3. Sound("security_header_drift", S, Judge_security_header_drift)
  <2> USE <1>1 DEF Judge_security_header_drift, Ok, Found, Finding, When, Nothing, Maybe
  <2>1. Quiet("security_header_drift", S, Judge_security_header_drift)
    BY DEF Quiet, OnePage, Alike, Has
  <2>2. Adds("security_header_drift", S, Judge_security_header_drift)
    BY DEF Adds, With
  <2>3. Hides("security_header_drift", S, Judge_security_header_drift)
    BY DEF Hides, With, Needed
  <2> HIDE DEF Judge_security_header_drift
  <2> QED
    BY <2>1, <2>2, <2>3, Zenon DEF Sound
<1> QED
  BY <1>2, <1>3, Zenon DEF Judged, Sound, Quiet, Adds, Hides

\* What holds of each detector holds of any.
LEMMA EveryDetector ==
  ASSUME NEW d \in Detectors, NEW S \in Sites[d]
  PROVE  Judged(d, S)
<1>1. d \in {"sql_injection", "sql_injection_form", "xss", "open_redirect", "ssrf",
             "nosql_injection", "ssti", "ldap_injection", "xpath_injection", "crlf_injection",
             "command_injection", "http_parameter_pollution", "path_traversal",
             "prototype_pollution", "cors", "http_methods", "host_header",
             "forwarded_host_trust", "header_injection", "admin_exposure", "exposed_files",
             "directory_listing", "graphql_introspection", "security_txt", "dom_xss",
             "web_cache_deception", "path_canonicalization", "content_negotiation_auth",
             "rate_limiting", "xxe", "idor_heuristic", "user_enumeration", "stored_xss",
             "mass_assignment", "verbose_errors", "source_map_exposure",
             "service_worker_exposure", "client_side_credential_leak", "sri_integrity_mismatch",
             "dom_open_redirect", "websocket", "cors_preflight_consistency",
             "graphql_sensitive_schema", "backup_artifact_exposure",
             "api_content_type_confusion", "json_parser_differential",
             "parameter_shape_differential", "api_response_consistency", "security_header_drift"}
  BY SMTT(30) DEF Detectors, Sites
<1>2. ASSUME d \in {"sql_injection", "sql_injection_form", "xss", "open_redirect", "ssrf",
               "nosql_injection", "ssti", "ldap_injection", "xpath_injection", "crlf_injection",
               "command_injection", "http_parameter_pollution", "path_traversal"}
      PROVE  Judged(d, S)
  BY <1>2, Judging_sql_injection, Judging_sql_injection_form, Judging_xss,
     Judging_open_redirect, Judging_ssrf, Judging_nosql_injection, Judging_ssti,
     Judging_ldap_injection, Judging_xpath_injection, Judging_crlf_injection,
     Judging_command_injection, Judging_http_parameter_pollution, Judging_path_traversal
<1>3. ASSUME d \in {"prototype_pollution", "cors", "http_methods", "host_header",
               "forwarded_host_trust", "header_injection", "admin_exposure", "exposed_files",
               "directory_listing", "graphql_introspection", "security_txt", "dom_xss",
               "web_cache_deception"}
      PROVE  Judged(d, S)
  BY <1>3, Judging_prototype_pollution, Judging_cors, Judging_http_methods, Judging_host_header,
     Judging_forwarded_host_trust, Judging_header_injection, Judging_admin_exposure,
     Judging_exposed_files, Judging_directory_listing, Judging_graphql_introspection,
     Judging_security_txt, Judging_dom_xss, Judging_web_cache_deception
<1>4. ASSUME d \in {"path_canonicalization", "content_negotiation_auth", "rate_limiting", "xxe",
               "idor_heuristic", "user_enumeration", "stored_xss", "mass_assignment",
               "verbose_errors", "source_map_exposure", "service_worker_exposure",
               "client_side_credential_leak", "sri_integrity_mismatch"}
      PROVE  Judged(d, S)
  BY <1>4, Judging_path_canonicalization, Judging_content_negotiation_auth,
     Judging_rate_limiting, Judging_xxe, Judging_idor_heuristic, Judging_user_enumeration,
     Judging_stored_xss, Judging_mass_assignment, Judging_verbose_errors,
     Judging_source_map_exposure, Judging_service_worker_exposure,
     Judging_client_side_credential_leak, Judging_sri_integrity_mismatch
<1>5. ASSUME d \in {"dom_open_redirect", "websocket", "cors_preflight_consistency",
               "graphql_sensitive_schema", "backup_artifact_exposure",
               "api_content_type_confusion", "json_parser_differential",
               "parameter_shape_differential", "api_response_consistency",
               "security_header_drift"}
      PROVE  Judged(d, S)
  BY <1>5, Judging_dom_open_redirect, Judging_websocket, Judging_cors_preflight_consistency,
     Judging_graphql_sensitive_schema, Judging_backup_artifact_exposure,
     Judging_api_content_type_confusion, Judging_json_parser_differential,
     Judging_parameter_shape_differential, Judging_api_response_consistency,
     Judging_security_header_drift
<1> QED
  BY <1>1, <1>2, <1>3, <1>4, <1>5

\* And of any with a predicate of its own.
LEMMA EveryReplay ==
  ASSUME NEW d \in Targeted, NEW S \in Sites[d]
  PROVE  Replayable(d, S)
  BY Replaying_sql_injection, Replaying_sql_injection_form, Replaying_xss, Replaying_stored_xss,
     Replaying_dom_xss, Replaying_header_injection, Replaying_open_redirect, Replaying_cors,
     Replaying_admin_exposure, Replaying_exposed_files, Replaying_directory_listing,
     Replaying_graphql_introspection, Replaying_xxe DEF Targeted

Altered(d, S, T) == LET J(U) == Judge(d, U) IN Changed(d, S, T, J)

\* What was reported is the judgement of the site; the site differs from it
\* at most in one answer behind a finding or is one page everywhere, and the
\* verdicts are about that.
ProbeInv ==
  /\ stage \in {"probing", "reported", "verified"}
  /\ detector \in Detectors /\ method \in Methods(detector) /\ site \in Sites[detector]
  /\ stage = "probing" => now = site
  /\ stage # "probing" => report = Judge(detector, site) /\ Altered(detector, site, now)
  /\ stage = "verified" =>
       /\ DOMAIN verdict = {f.by : f \in report.found}
       /\ \A by \in DOMAIN verdict : verdict[by] \in Verdicts(detector, method, by, site, now)

\* The run of a detector, a change of the site and the verification keep it.
THEOREM ProbesInvariance == ProbesSpec => []ProbeInv
<1>1. ProbesInit => ProbeInv
  BY DEF ProbesInit, ProbeInv
<1>2. ProbeInv /\ [ProbesNext]_probesVars => ProbeInv'
  <2> SUFFICES ASSUME ProbeInv, [ProbesNext]_probesVars
               PROVE  ProbeInv'
    OBVIOUS
  <2>1. CASE Probe
    <3>1. Altered(detector, site, site)
      BY DEF Altered, Changed
    <3> QED
      BY <2>1, <3>1 DEF Probe, ProbeInv
  <2>2. CASE Change
    <3>1. \/ \E f \in report.found : \E answer : now' = With(site, f.by, answer)
          \/ now' \in Sites[detector] /\ Everywhere(now')
      <4>1. CASE now' \in CatchAlls[detector]
        BY <4>1 DEF CatchAlls, ProbeInv
      <4>2. CASE \E f \in report.found : \E answer \in Answers[detector][f.by] : now' = [site EXCEPT ![f.by] = answer]
        BY <4>2, Zenon DEF With
      <4> QED
        BY <2>2, <4>1, <4>2, Zenon DEF Change
    <3>2. Altered(detector, site, now')
      BY <2>2, <3>1, Zenon DEF Change, ProbeInv, Altered, Changed
    <3> QED
      BY <2>2, <3>2 DEF Change, ProbeInv
  <2>3. CASE Verify
    BY <2>3 DEF Verify, ProbeInv
  <2>4. CASE UNCHANGED probesVars
    BY <2>4 DEF probesVars, ProbeInv
  <2> QED
    BY <2>1, <2>2, <2>3, <2>4 DEF ProbesNext
<1> QED
  BY <1>1, <1>2, PTL DEF ProbesSpec

\* No site that takes no notice of the probes is reported, whatever its status,
\* its size or the time it takes, unless the client had to wait before the
\* probe.
THEOREM QuietOnOnePage == ProbesSpec => []OnePageIsQuiet
<1>1. ProbeInv => OnePageIsQuiet
  <2> SUFFICES ASSUME ProbeInv, stage = "reported", OnePage(site), detector \notin Sameness,
                      detector \in {"admin_exposure", "exposed_files"} => site.missing # Failed
               PROVE  \A f \in report.found : Has(site, f.by, "wait") /\ site[f.by].wait > 0
    BY DEF OnePageIsQuiet
  <2>1. Judged(detector, site)
    BY EveryDetector DEF ProbeInv
  <2> QED
    BY <2>1, Zenon DEF ProbeInv, Judged, Sound, Quiet
<1> QED
  BY <1>1, ProbesInvariance, PTL

\* No failed request is evidence, but for those of Telling.
THEOREM FailureIsNoEvidence == ProbesSpec => []FailureAddsNothing
<1>1. ProbeInv => FailureAddsNothing
  <2> SUFFICES ASSUME ProbeInv, stage = "reported", report.found # {},
                      NEW p \in DOMAIN site, site[p] = Failed, ~Telling(detector, p), NEW answer
               PROVE  Judge(detector, [site EXCEPT ![p] = answer]).found # {}
    BY DEF FailureAddsNothing
  <2>1. Judged(detector, site)
    BY EveryDetector DEF ProbeInv
  <2> QED
    BY <2>1, Zenon DEF ProbeInv, Judged, Sound, Adds, With
<1> QED
  BY <1>1, ProbesInvariance, PTL

\* No swallowed failure hides more than its own answer, but for those of
\* Needed.
THEOREM FailureIsNoBlindness == ProbesSpec => []FailureHidesLittle
<1>1. ProbeInv => FailureHidesLittle
  <2> SUFFICES ASSUME ProbeInv, stage = "reported", report = Nothing,
                      NEW p \in DOMAIN site, site[p] = Failed, ~Needed(detector, p), NEW answer,
                      NEW f \in Judge(detector, [site EXCEPT ![p] = answer]).found
               PROVE  f.by = p
    BY DEF FailureHidesLittle
  <2>1. Judged(detector, site)
    BY EveryDetector DEF ProbeInv
  <2> QED
    BY <2>1, Zenon DEF ProbeInv, Judged, Sound, Hides, With
<1> QED
  BY <1>1, ProbesInvariance, PTL

\* A verdict of a predicate: it is of a targeted detector, on an answer.
LEMMA OfPredicate ==
  ASSUME ProbeInv, stage = "verified", NEW by \in DOMAIN verdict, verdict[by] \in {"resolved", "still_present"}
  PROVE  /\ detector \in Targeted
         /\ \/ Stripped(detector, method, by)
            \/ /\ now[by] # Failed
               /\ verdict[by] = "resolved" => ~Shows(detector, by, now)
               /\ verdict[by] = "still_present" => Shows(detector, by, now) \/ Unread(detector, by, now)
         /\ \E f \in Judge(detector, site).found : f.by = by
<1>1. verdict[by] \in Verdicts(detector, method, by, site, now) /\ by \in {f.by : f \in Judge(detector, site).found}
  BY DEF ProbeInv
<1> QED
  BY <1>1 DEF Verdicts, When

\* On the site as it was no finding is called resolved, but for the Blind
\* ones.
THEOREM NothingResolvesItself == ProbesSpec => []UnchangedIsNotResolved
<1>1. ProbeInv => UnchangedIsNotResolved
  <2> SUFFICES ASSUME ProbeInv, stage = "verified", now = site, NEW by \in DOMAIN verdict, verdict[by] = "resolved"
               PROVE  Blind(detector, method, by)
    BY DEF UnchangedIsNotResolved
  <2>1. /\ detector \in Targeted /\ method \in Methods(detector)
        /\ Stripped(detector, method, by) \/ (site[by] # Failed /\ ~Shows(detector, by, site))
        /\ \E f \in Judge(detector, site).found : f.by = by
    BY OfPredicate DEF ProbeInv
  <2>2. Replayable(detector, site)
    BY <2>1, EveryReplay DEF ProbeInv
  <2> QED
    BY <2>1, <2>2, Zenon DEF Replayable, Shown, Blind
<1> QED
  BY <1>1, ProbesInvariance, PTL

\* What is called still present the detector still finds, on the later site,
\* except for the Loose ones.
THEOREM StillPresentIsThere == ProbesSpec => []StillPresentIsFound
<1>1. ProbeInv => StillPresentIsFound
  <2> SUFFICES ASSUME ProbeInv, stage = "verified", NEW by \in DOMAIN verdict, verdict[by] = "still_present"
               PROVE  (\E f \in Judge(detector, now).found : f.by = by) \/ Loose(detector, method, by, now)
    BY DEF StillPresentIsFound
  <2>1. /\ detector \in Targeted /\ method \in Methods(detector)
        /\ \/ Stripped(detector, method, by) \/ Unread(detector, by, now)
           \/ now[by] # Failed /\ Shows(detector, by, now)
        /\ \E f \in Judge(detector, site).found : f.by = by
    BY OfPredicate DEF ProbeInv
  <2>2. Replayable(detector, site) /\ Altered(detector, site, now)
    BY <2>1, EveryReplay DEF ProbeInv
  <2> QED
    BY <2>1, <2>2, Zenon DEF Replayable, Kept, KeptAt, Altered, Loose
<1> QED
  BY <1>1, ProbesInvariance, PTL
=============================================================================
