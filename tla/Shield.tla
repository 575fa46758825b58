------------------------------- MODULE Shield -------------------------------
(***************************************************************************)
(* ERSEC Shield (src/src/ersec/ersec_core.py): the gateway that handles    *)
(* every request in a thread of its own, with ShieldRateLimiter, the       *)
(* virtual patches that ShieldPolicy.from_report makes of a scan report,   *)
(* and the profile of routes that the threads learn and save.              *)
(*                                                                         *)
(* Telemetry and the events counter, which no decision reads, are left     *)
(* out.  Time is counted in ticks.                                         *)
(***************************************************************************)
EXTENDS Integers, Sequences, FiniteSets, SequencesExt

CONSTANTS
  MaxRequests, \* requests, each handled by a thread of its own (bound)
  Scenarios,   \* name -> mode, report, traffic, horizon, steady: whether all runs on
  Rate,        \* rate_per_minute
  Burst,       \* burst
  Window,      \* ticks in the minute of the rate
  Span,        \* ticks in the second of the burst
  MaxStale,    \* ticks a thread waits for the limiter's lock (bound)
  MaxRestarts, \* starts of the gateway after the first (bound)
  None, Torn   \* no file, no answer; a file that holds no JSON

\* The paths that requests can ask for.
Routes ==
  UNION {{Scenarios[s].traffic[r].path : r \in DOMAIN Scenarios[s].traffic} : s \in DOMAIN Scenarios}

\* ShieldRateLimiter.__init__ raises both limits to one.
ASSUME ShieldAssumption ==
  /\ {Rate, Burst} \subseteq Nat \ {0}
  /\ {MaxRequests, Window, Span, MaxStale, MaxRestarts} \subseteq Nat /\ Span <= Window
  /\ None # "limited" /\ None \notin (-MaxRestarts)..MaxRequests
  /\ \A file \in SUBSET Routes : file # Torn

VARIABLES
  scenario,    \* the configuration and the traffic of this behaviour
  phase,       \* of the process: "serving", "closing", "stopped"
  starts,      \* restarts so far
  clock,
  pc,          \* request -> where its thread is
  now,         \* request -> the time it took for the limiter
  reply,       \* request -> what its client was answered
  buckets,     \* client -> times of the requests the limiter let through
  learned,     \* learned_routes
  saver,       \* saving thread -> where it is in save_learning
  handle,      \* saving thread -> the file it has open
  tmp,         \* the file under the temporary name, or None
  profile,     \* the file under the learning path, or None
  content,     \* file -> what it holds
  passed,      \* history: client -> when its requests were let through
  promised,    \* history: routes that a save, completed, had written
  overlapped   \* history: two saves were under way at once

limiter == <<now, buckets, passed>>
disk == <<saver, handle, tmp, profile, content, promised, overlapped>>
vars == <<scenario, phase, starts, clock, pc, reply, learned, limiter, disk>>

Setting == Scenarios[scenario]
mode == Setting.mode
\* Numbered in the order in which they are accepted.
Requests == 1..MaxRequests
traffic == Setting.traffic
Clients == {traffic[r].client : r \in DOMAIN traffic}

\* serve_forever saves once per start; its thread is named after the start.
Servers == {-start : start \in 0..MaxRestarts}
Savers == Requests \union Servers

-----------------------------------------------------------------------------
(* The policy compiled from a report                                       *)

\* Only families that have patterns, and evidence that is at least likely.
RuleOf(f) ==
  [action |-> IF f.confidence = "confirmed" /\ f.severity \in {"CRITICAL", "HIGH", "MEDIUM"}
              THEN "block" ELSE "monitor",
   path |-> f.path, family |-> f.family]

Rules(report) ==
  LET kept == SelectSeq(report, LAMBDA f : f.patterned /\ f.confidence \in {"confirmed", "likely"})
  IN [i \in 1..Len(kept) |-> RuleOf(kept[i])]

\* The rules that match: the path as text begins with the rule's, and what
\* the rule inspects shows one of its patterns.
Matches(rules, t) ==
  {i \in 1..Len(rules) : IsPrefix(rules[i].path, t.path) /\ rules[i].family \in t.shows}

\* The first rule that matches decides.
Verdict(t) ==
  LET rules == Rules(Setting.report)
      hits == Matches(rules, t)
      first == CHOOSE i \in hits : \A j \in hits : i <= j
  IN IF hits = {} THEN "allow"
     ELSE IF mode = "block" /\ rules[first].action = "block" THEN "block" ELSE "monitor"

-----------------------------------------------------------------------------
Init ==
  /\ scenario \in DOMAIN Scenarios
  /\ phase = "serving"
  /\ starts = 0
  /\ clock = 0
  /\ pc = [r \in Requests |-> "idle"]
  /\ now = [r \in Requests |-> 0]
  /\ reply = [r \in Requests |-> None]
  /\ buckets = [c \in Clients |-> << >>]
  /\ learned = {}
  /\ saver = [s \in Savers |-> "idle"]
  /\ handle = [s \in Savers |-> None]
  /\ tmp = None
  /\ profile = None
  /\ content = [s \in Savers |-> Torn]
  /\ passed = [c \in Clients |-> << >>]
  /\ promised = {}
  /\ overlapped = FALSE

Goto(r, where) == pc' = [pc EXCEPT ![r] = where]

Answer(r, what) ==
  /\ reply' = [reply EXCEPT ![r] = what]
  /\ Goto(r, "done")

\* A thread that holds a time reaches the lock within MaxStale ticks.
Tick ==
  /\ phase = "serving" /\ clock < Setting.horizon
  /\ \A r \in Requests : pc[r] = "limit" => clock < now[r] + MaxStale
  /\ clock' = clock + 1
  /\ UNCHANGED <<scenario, phase, starts, pc, reply, learned, limiter, disk>>

\* A new thread.  A body beyond the limit is refused unread, a url too long or
\* a method not allowed by the first checks; neither reaches the limiter.  Of
\* the others it takes the time, before the lock.
Arrive(r) ==
  /\ phase = "serving" /\ r \in DOMAIN traffic /\ pc[r] = "idle"
  /\ \A q \in 1..(r - 1) : pc[q] # "idle"
  /\ IF traffic[r].flaw \in {"body", "shape"}
     THEN Answer(r, "refused") /\ UNCHANGED now
     ELSE /\ Goto(r, "limit") /\ UNCHANGED reply
          /\ now' = [now EXCEPT ![r] = clock]
  /\ UNCHANGED <<scenario, phase, starts, clock, learned, buckets, passed, disk>>

\* Faulty variants (<definition>_<fault>) stand before the definition they
\* distort: the runs must tell them from the code.
Pruned_Never(q, time) == q

\* The entries older than the window leave from the head, up to the first
\* that is not.
Pruned(q, time) ==
  LET young == {i \in 1..Len(q) : time - q[i] <= Window}
  IN IF young = {} THEN << >>
     ELSE SubSeq(q, CHOOSE i \in young : \A j \in young : i <= j, Len(q))

Recent(q, time) == {i \in 1..Len(q) : time - q[i] <= Span}

Full_Late(q) == Len(q) > Rate
Full(q) == Len(q) >= Rate

\* An anomalous path or ambiguous framing, then the rules.
Blocked(t) == t.flaw = "framing" \/ Verdict(t) = "block"

\* The section under the lock, and what follows it in inspect.
Allow(r) ==
  LET c == traffic[r].client
      q == Pruned(buckets[c], now[r])
      limited == Full(q) \/ Cardinality(Recent(q, now[r])) >= Burst
  IN
  /\ pc[r] = "limit"
  /\ now' = [now EXCEPT ![r] = 0]
  /\ IF limited
     THEN /\ Answer(r, "limited")
          /\ buckets' = [buckets EXCEPT ![c] = q] /\ UNCHANGED passed
     ELSE /\ IF Blocked(traffic[r]) THEN Answer(r, "refused")
             ELSE Goto(r, "forward") /\ UNCHANGED reply
          /\ buckets' = [buckets EXCEPT ![c] = Append(q, now[r])]
          /\ passed' = [passed EXCEPT ![c] = Append(@, clock)]
  /\ UNCHANGED <<scenario, phase, starts, clock, learned, disk>>

\* The upstream answered: its route is recorded, and saved in learn mode.
Forward(r) ==
  /\ pc[r] = "forward"
  /\ learned' = learned \union {traffic[r].path}
  /\ IF mode = "learn"
     THEN Goto(r, "saving") /\ saver' = [saver EXCEPT ![r] = "open"] /\ UNCHANGED reply
     ELSE Answer(r, "upstream") /\ UNCHANGED saver
  /\ UNCHANGED <<scenario, phase, starts, clock, limiter, handle, tmp, profile, content,
                 promised, overlapped>>

\* requests.RequestException.
Unavailable(r) ==
  /\ pc[r] = "forward" /\ ~Setting.steady
  /\ Answer(r, "unavailable")
  /\ UNCHANGED <<scenario, phase, starts, clock, learned, limiter, disk>>

-----------------------------------------------------------------------------
(* save_learning, by a handler or by serve_forever at the end              *)

Saving == {s \in Savers : saver[s] \in {"write", "replace"}}

\* Opening for writing empties the file of that name, or makes a new one.
OpenTmp(s) ==
  LET file == IF tmp = None THEN s ELSE tmp
  IN
  /\ saver[s] = "open"
  /\ tmp' = file
  /\ handle' = [handle EXCEPT ![s] = file]
  /\ content' = [content EXCEPT ![file] = Torn]
  /\ overlapped' = (overlapped \/ Saving # {})
  /\ saver' = [saver EXCEPT ![s] = "write"]
  /\ UNCHANGED <<scenario, phase, starts, clock, pc, reply, learned, limiter, profile, promised>>

\* json.dump of the live dictionary, outside its lock: with sort_keys it takes
\* the routes at one moment, and its text reaches the file in pieces, which are
\* no JSON until the last.  Where another thread has the file open too, or has
\* written it, the pieces mix: one of the two texts stays, or no JSON.
WriteTmp(s) ==
  /\ saver[s] = "write"
  /\ \/ content' = [content EXCEPT ![handle[s]] = learned]
     \/ /\ content[handle[s]] # Torn \/ \E o \in Saving \ {s} : handle[o] = handle[s]
        /\ \E mix \in {Torn, content[handle[s]]} : content' = [content EXCEPT ![handle[s]] = mix]
  /\ saver' = [saver EXCEPT ![s] = "replace"]
  /\ UNCHANGED <<scenario, phase, starts, clock, pc, reply, learned, limiter, handle, tmp,
                 profile, promised, overlapped>>

\* The process ends, and with it the threads of the handlers and all they
\* have not written.
End ==
  /\ phase' = "stopped"
  /\ pc' = [r \in Requests |-> IF pc[r] \in {"idle", "done"} THEN pc[r] ELSE "killed"]
  /\ now' = [r \in Requests |-> 0]
  /\ buckets' = [c \in Clients |-> << >>]
  /\ passed' = [c \in Clients |-> << >>]
  /\ learned' = {}
  /\ saver' = [s \in Savers |-> "idle"]
  /\ handle' = [s \in Savers |-> None]

\* os.replace; that the name is gone is an OSError, which ends the save
\* without a word.  The file replaced is gone for good.
Replace ==
  IF tmp = None
  THEN UNCHANGED <<tmp, profile, content, promised>>
  ELSE /\ profile' = tmp
       /\ tmp' = None
       /\ content' = IF profile = None THEN content ELSE [content EXCEPT ![profile] = Torn]
       /\ promised' = IF content[tmp] = Torn THEN promised ELSE promised \union content[tmp]

Ready_Unwritten(s) == saver[s] \in {"write", "replace"}
Ready_IfThere(s) == saver[s] = "replace" /\ tmp # None
Ready(s) == saver[s] = "replace"

\* A handler then answers; serve_forever returns and the process ends.
ReplaceProfile(s) ==
  /\ Ready(s)
  /\ Replace
  /\ IF s \in Requests
     THEN /\ Answer(s, "upstream")
          /\ saver' = [saver EXCEPT ![s] = "idle"]
          /\ handle' = [handle EXCEPT ![s] = None]
          /\ UNCHANGED <<phase, learned, limiter>>
     ELSE End /\ UNCHANGED reply
  /\ UNCHANGED <<scenario, starts, clock, overlapped>>

-----------------------------------------------------------------------------
\* KeyboardInterrupt: no more requests; the handlers under way go on.
Stop ==
  /\ phase = "serving" /\ ~Setting.steady
  /\ phase' = "closing"
  /\ saver' = [saver EXCEPT ![-starts] = "open"]
  /\ UNCHANGED <<scenario, starts, clock, pc, reply, learned, limiter, handle, tmp, profile,
                 content, promised, overlapped>>

\* The process is killed.
Crash ==
  /\ phase # "stopped" /\ ~Setting.steady
  /\ End
  /\ UNCHANGED <<scenario, starts, clock, reply, tmp, profile, content, promised, overlapped>>

\* load_learning: a file that is missing or no JSON counts as nothing learned.
Loaded == IF profile = None THEN {} ELSE IF content[profile] = Torn THEN {} ELSE content[profile]

Restart ==
  /\ phase = "stopped" /\ starts < MaxRestarts
  /\ phase' = "serving"
  /\ starts' = starts + 1
  /\ learned' = Loaded
  /\ UNCHANGED <<scenario, clock, pc, reply, limiter, disk>>

Save(s) == OpenTmp(s) \/ WriteTmp(s) \/ ReplaceProfile(s)
Handle(r) == Allow(r) \/ Forward(r) \/ Unavailable(r) \/ Save(r)

Next ==
  \/ Tick \/ Stop \/ Crash \/ Restart
  \/ \E r \in Requests : Arrive(r) \/ Handle(r)
  \/ \E s \in Servers : Save(s)

\* The threads are scheduled, and the upstream answers or times out.
Spec == Init /\ [][Next]_vars /\ \A r \in Requests : WF_vars(Handle(r))

-----------------------------------------------------------------------------
Within(c, ticks) == {i \in 1..Len(passed[c]) : clock - passed[c][i] <= ticks}

TypeOK ==
  /\ scenario \in DOMAIN Scenarios
  /\ phase \in {"serving", "closing", "stopped"}
  /\ starts \in 0..MaxRestarts /\ clock \in Nat
  /\ pc \in [Requests -> {"idle", "limit", "forward", "saving", "done", "killed"}]
  /\ now \in [Requests -> Nat]
  /\ reply \in [Requests -> {None, "refused", "limited", "upstream", "unavailable"}]
  /\ buckets \in [Clients -> Seq(Nat)] /\ passed \in [Clients -> Seq(Nat)]
  /\ learned \in SUBSET Routes
  /\ saver \in [Savers -> {"idle", "open", "write", "replace"}]
  /\ handle \in [Savers -> Savers \union {None}] /\ {tmp, profile} \subseteq Savers \union {None}
  /\ content \in [Savers -> (SUBSET Routes) \union {Torn}]

\* ShieldRateLimiter keeps its word in real time although it judges a request
\* by a time taken before the lock: in a window, less the wait for the lock,
\* a client gets no more than rate_per_minute requests through, and in the
\* second of the burst no more than burst.
LimitsHold ==
  \A c \in Clients :
    /\ Cardinality(Within(c, Window - MaxStale)) <= Rate
    /\ Span >= MaxStale => Cardinality(Within(c, Span - MaxStale)) <= Burst

\* Nobody is limited without cause: when the limiter refuses, as many requests
\* of that client as a limit allows were let through shortly before.  Entries
\* can be out of order, and the head can hide older ones behind it: that adds
\* at most the wait for the lock.
LimitedForCause ==
  [][\A r \in Requests :
       reply'[r] = "limited" /\ reply[r] = None =>
         LET c == traffic[r].client
         IN \/ Cardinality(Within(c, Window + MaxStale)) >= Rate
            \/ Cardinality(Within(c, Span + MaxStale)) >= Burst]_vars

\* save_learning by one thread at a time: whatever a completed save has
\* written is on the disk for the next start to load, over crashes anywhere,
\* stops with requests under way, and restarts.
SavedIsKept == ~overlapped => promised \subseteq Loaded

\* Every request whose thread has started is answered, unless the process ends.
RequestsAnswered ==
  \A r \in Requests : pc[r] = "limit" ~> (pc[r] = "done" \/ phase = "stopped")
=============================================================================
