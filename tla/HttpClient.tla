----------------------------- MODULE HttpClient -----------------------------
(***************************************************************************)
(* SafeHttpClient (src/src/ersec/ersec_core.py): the one HTTP client every *)
(* detector, crawler and replay of a scan shares.  Worker threads call     *)
(* request() or request_follow_redirects() concurrently.  A call takes a   *)
(* permit of the request budget under the lock, is authorised and audited  *)
(* outside it, reserves a send slot under the lock, sleeps until the slot, *)
(* contacts the target and feeds the answer to the adaptive backoff.       *)
(*                                                                         *)
(* Time is an integer clock.  A permit is named by the value request_count *)
(* took when it was granted; audit, asked, slot and sentAt are history     *)
(* variables indexed by permit (audit_events and the network itself in the *)
(* program), strays counts the requests a thread sent into the backoff in  *)
(* force, since the busy answer that set it.                               *)
(***************************************************************************)
EXTENDS Integers, FiniteSets

CONSTANTS
  Workers,        \* threads that use the client
  Methods, Urls,  \* what they may ask for
  SafeMethods,    \* GET, HEAD, OPTIONS
  AllowedMethods, \* scope.allowed_methods
  InScope,        \* the urls is_in_scope accepts
  OptIn,          \* config.allow_state_changing_methods
  HasManifest,    \* config.authorization_manifest is set
  Authorized,     \* the <<method, url>> pairs whose host, port, path and
                  \* method the manifest lists
  ManifestPrivate,\* private_address_policy = "allow"
  WindowEnd,      \* window_end of the manifest
  AllowPrivate,   \* scope.allow_private_addresses
  MaxRequests,    \* scope.max_requests
  MaxRedirects,   \* scope.max_redirects
  Interval,       \* scope.rate_limit_seconds
  RetryAfters,    \* Retry-After values a target may send
  MaxCalls,       \* bound: calls the workers make
  MaxTime         \* bound: the clock moves on by itself up to here

ASSUME ClientAssumption ==
  /\ "GET" \in Methods
  /\ SafeMethods \subseteq Methods
  /\ AllowedMethods \subseteq Methods
  /\ InScope \subseteq Urls
  /\ {OptIn, HasManifest, ManifestPrivate, AllowPrivate} \subseteq BOOLEAN
  /\ {WindowEnd, MaxRequests, MaxRedirects, Interval, MaxCalls, MaxTime} \subseteq Nat
  /\ RetryAfters \subseteq Nat

Unset == -1
Permits == 1..MaxRequests
Requests == [method : Methods, url : Urls]
Modes == {"plain", "follow", "auto"}   \* auto: allow_redirects=True was passed
Statuses == {"ok", "busy", "redirect", "see_other"}  \* busy is 429 or 503
Addresses == {"public", "private", "unresolved"}
Phases == {"idle", "acquire", "authorize", "clock", "reserve", "sleep", "sent", "hop"}

NoRequest == [method |-> "none", url |-> "none"]
NoCall == [mode |-> "none", request |-> NoRequest, hops |-> 0, permit |-> 0, clock |-> 0]

VARIABLES
  now,               \* time.time()
  request_count, skipped, exhausted, consecutive_429s,
  backoff_until, last_request_time,
  pc,                \* per worker: where its call is
  call,              \* per worker: the arguments and locals of its call
  calls,             \* calls made so far (it only bounds the runs)
  audit, asked, slot, sentAt, strays

budget == <<request_count, skipped, exhausted>>
pacing == <<consecutive_429s, backoff_until, last_request_time>>
history == <<audit, asked, slot, sentAt, strays>>
vars == <<now, budget, pacing, pc, call, calls, history>>

Larger(a, b) == IF a >= b THEN a ELSE b

(***************************************************************************)
(* _authorize_request: method and url inside the scope, explicit opt-in    *)
(* and a manifest for state-changing methods, and the manifest's own list. *)
(***************************************************************************)
Boundary(r) ==
  /\ r.method \in AllowedMethods
  /\ r.url \in InScope
  /\ r.method \notin SafeMethods => OptIn /\ HasManifest
  /\ HasManifest => <<r.method, r.url>> \in Authorized

\* AuthorizationManifest.allows_request reads the clock and, when it denies
\* private addresses, resolves the host itself.
ManifestOpen(t, address) ==
  HasManifest => t <= WindowEnd /\ (ManifestPrivate \/ address = "public")

\* _validate_network_address, on the answer of its own resolution
AddressAllowed(address) ==
  address = "public" \/ (address = "private" /\ AllowPrivate)

\* The delay _handle_response_backoff picks when there is no Retry-After:
\* min(2 * 2^min(n, 5), 30) after the n-th busy answer in a row.
DefaultDelay(n) == IF n \in 1..3 THEN <<4, 8, 16>>[n] ELSE 30

Goto(w, phase) == pc' = [pc EXCEPT ![w] = phase]

SetCall(w, c) == call' = [call EXCEPT ![w] = c]

Return(w) == Goto(w, "idle") /\ SetCall(w, NoCall)

\* A call of mode m for request r with h redirects left, not yet granted a permit.
FreshCall(m, r, h) == [mode |-> m, request |-> r, hops |-> h, permit |-> 0, clock |-> 0]

-----------------------------------------------------------------------------
\* The clock starts late enough for the first slot to be free, as time.time()
\* does beside _last_request_time = 0.0.
Init ==
  /\ now = Interval
  /\ request_count = 0 /\ skipped = 0 /\ exhausted = FALSE
  /\ consecutive_429s = 0 /\ backoff_until = 0 /\ last_request_time = 0
  /\ pc = [w \in Workers |-> "idle"]
  /\ call = [w \in Workers |-> NoCall]
  /\ calls = 0
  /\ audit = [n \in Permits |-> "none"]
  /\ asked = [n \in Permits |-> NoRequest]
  /\ slot = [n \in Permits |-> Unset]
  /\ sentAt = [n \in Permits |-> Unset]
  /\ strays = [w \in Workers |-> 0]

\* A detector calls request() or request_follow_redirects().
Call(w, m, r) ==
  /\ pc[w] = "idle"
  /\ calls < MaxCalls
  /\ calls' = calls + 1
  /\ SetCall(w, FreshCall(m, r, IF m = "follow" THEN MaxRedirects ELSE 0))
  /\ Goto(w, "acquire")
  /\ UNCHANGED <<now, budget, pacing, history>>

\* request(), first critical section: a permit is left.
Acquire(w) ==
  /\ pc[w] = "acquire"
  /\ request_count < MaxRequests
  /\ request_count' = request_count + 1
  /\ SetCall(w, [call[w] EXCEPT !.permit = request_count + 1])
  /\ asked' = [asked EXCEPT ![request_count + 1] = call[w].request]
  /\ Goto(w, "authorize")
  /\ UNCHANGED <<now, skipped, exhausted, pacing, calls, audit, slot, sentAt, strays>>

\* Faulty variants, named <action>_<fault>, stand before the action they would
\* replace: the runs must tell each of them from the code's own action.
Reject_OneEarly(w) ==
  /\ pc[w] = "acquire"
  /\ request_count >= MaxRequests - 1
  /\ exhausted' = TRUE
  /\ skipped' = skipped + 1
  /\ Return(w)
  /\ UNCHANGED <<now, request_count, pacing, calls, history>>

Reject_Waits(w) ==
  /\ pc[w] = "acquire"
  /\ request_count >= MaxRequests
  /\ exhausted' = TRUE
  /\ UNCHANGED <<now, request_count, skipped, pacing, pc, call, calls, history>>

\* request(), first critical section: the budget is spent, ERSECError.
Reject(w) ==
  /\ pc[w] = "acquire"
  /\ request_count >= MaxRequests
  /\ exhausted' = TRUE
  /\ skipped' = skipped + 1
  /\ Return(w)
  /\ UNCHANGED <<now, request_count, pacing, calls, history>>

\* allow_redirects=True is refused after the permit is taken, unaudited.
RefuseAutoRedirect(w) ==
  /\ pc[w] = "authorize"
  /\ call[w].mode = "auto"
  /\ Return(w)
  /\ UNCHANGED <<now, budget, pacing, calls, history>>

Authorize_AuditOnly(w, seen, resolved) ==
  /\ pc[w] = "authorize"
  /\ call[w].mode # "auto"
  /\ LET ok == /\ Boundary(call[w].request)
               /\ ManifestOpen(now, seen)
               /\ AddressAllowed(resolved)
     IN audit' = [audit EXCEPT ![call[w].permit] = IF ok THEN "allowed" ELSE "blocked"]
  /\ Goto(w, "clock")
  /\ UNCHANGED <<now, budget, pacing, call, calls, asked, slot, sentAt, strays>>

\* _authorize_request(network_check=True) and the audit event it ends in.
Authorize(w, seen, resolved) ==
  /\ pc[w] = "authorize"
  /\ call[w].mode # "auto"
  /\ LET ok == /\ Boundary(call[w].request)
               /\ ManifestOpen(now, seen)
               /\ AddressAllowed(resolved)
     IN /\ audit' = [audit EXCEPT ![call[w].permit] = IF ok THEN "allowed" ELSE "blocked"]
        /\ IF ok THEN Goto(w, "clock") /\ UNCHANGED call ELSE Return(w)
  /\ UNCHANGED <<now, budget, pacing, calls, asked, slot, sentAt, strays>>

\* _throttle: now = time.time(), before the lock.
ReadClock(w) ==
  /\ pc[w] = "clock"
  /\ SetCall(w, [call[w] EXCEPT !.clock = now])
  /\ Goto(w, "reserve")
  /\ UNCHANGED <<now, budget, pacing, calls, history>>

Reserve_NotStored(w) ==
  /\ pc[w] = "reserve"
  /\ LET scheduled == Larger(Larger(call[w].clock, backoff_until),
                             last_request_time + Interval)
     IN slot' = [slot EXCEPT ![call[w].permit] = scheduled]
  /\ Goto(w, "sleep")
  /\ UNCHANGED <<now, budget, pacing, call, calls, audit, asked, sentAt, strays>>

Reserve_NoBackoff(w) ==
  /\ pc[w] = "reserve"
  /\ LET scheduled == Larger(call[w].clock, last_request_time + Interval)
     IN /\ last_request_time' = scheduled
        /\ slot' = [slot EXCEPT ![call[w].permit] = scheduled]
  /\ Goto(w, "sleep")
  /\ UNCHANGED <<now, budget, consecutive_429s, backoff_until, call, calls,
                 audit, asked, sentAt, strays>>

\* _throttle: the next slot is reserved under the lock.
Reserve(w) ==
  /\ pc[w] = "reserve"
  /\ LET scheduled == Larger(Larger(call[w].clock, backoff_until),
                             last_request_time + Interval)
     IN /\ last_request_time' = scheduled
        /\ slot' = [slot EXCEPT ![call[w].permit] = scheduled]
  /\ Goto(w, "sleep")
  /\ UNCHANGED <<now, budget, consecutive_429s, backoff_until, call, calls,
                 audit, asked, sentAt, strays>>

\* The sleep is over and the request goes out, outside the lock.
Send(w) ==
  /\ pc[w] = "sleep"
  /\ now >= slot[call[w].permit]
  /\ sentAt' = [sentAt EXCEPT ![call[w].permit] = now]
  /\ strays' = IF now < backoff_until THEN [strays EXCEPT ![w] = @ + 1] ELSE strays
  /\ Goto(w, "sent")
  /\ UNCHANGED <<now, budget, pacing, call, calls, audit, asked, slot>>

\* _handle_response_backoff, then request() returns the response; only
\* request_follow_redirects() looks at a redirect.
Redirected(r, status) ==
  IF status = "see_other" /\ r.method \notin {"GET", "HEAD"}
  THEN [r EXCEPT !.method = "GET"] ELSE r

Finish(w, status) ==
  IF call[w].mode = "follow" /\ status \in {"redirect", "see_other"}
  THEN /\ Goto(w, "hop")
       /\ SetCall(w, [call[w] EXCEPT !.request = Redirected(call[w].request, status)])
  ELSE Return(w)

RespondBusy(w, retryAfter) ==
  /\ pc[w] = "sent"
  /\ consecutive_429s' = consecutive_429s + 1
  /\ backoff_until' = now + (IF retryAfter = Unset THEN DefaultDelay(consecutive_429s + 1)
                                                   ELSE retryAfter)
  \* The thread that was told has had its one request.
  /\ strays' = [u \in Workers |-> IF u = w THEN 1 ELSE 0]
  /\ Finish(w, "busy")
  /\ UNCHANGED <<now, budget, last_request_time, calls, audit, asked, slot, sentAt>>

Respond(w, status) ==
  /\ pc[w] = "sent"
  /\ consecutive_429s' = 0
  /\ Finish(w, status)
  /\ UNCHANGED <<now, budget, backoff_until, last_request_time, calls, history>>

\* TLS, connection and timeout errors: ERSECError, the backoff is not told.
NetworkError(w) ==
  /\ pc[w] = "sent"
  /\ Return(w)
  /\ UNCHANGED <<now, budget, pacing, calls, history>>

\* request_follow_redirects: the next hop is authorised again, without an
\* address check and without an audit event, before the loop's bound is met.
FollowHop(w, url, seen) ==
  LET next == [call[w].request EXCEPT !.url = url]
      cleared == Boundary(next) /\ ManifestOpen(now, seen)
  IN /\ pc[w] = "hop"
     /\ IF cleared /\ call[w].hops > 0
        THEN /\ Goto(w, "acquire")
             /\ SetCall(w, FreshCall("follow", next, call[w].hops - 1))
        ELSE Return(w)
     /\ UNCHANGED <<now, budget, pacing, calls, history>>

\* Time moves on, and always while somebody sleeps.
Tick ==
  /\ now < MaxTime \/ \E w \in Workers : pc[w] = "sleep" /\ now < slot[call[w].permit]
  /\ now' = now + 1
  /\ UNCHANGED <<budget, pacing, pc, call, calls, history>>

-----------------------------------------------------------------------------
Step(w) ==
  \/ Acquire(w) \/ Reject(w)
  \/ RefuseAutoRedirect(w)
  \/ \E seen, resolved \in Addresses : Authorize(w, seen, resolved)
  \/ ReadClock(w) \/ Reserve(w) \/ Send(w)
  \/ \E retryAfter \in RetryAfters \union {Unset} : RespondBusy(w, retryAfter)
  \/ \E status \in Statuses \ {"busy"} : Respond(w, status)
  \/ NetworkError(w)
  \/ \E url \in Urls, seen \in Addresses : FollowHop(w, url, seen)

Next ==
  \/ \E w \in Workers, m \in Modes, r \in Requests : Call(w, m, r)
  \/ \E w \in Workers : Step(w)
  \/ Tick

\* Every step of a call is taken by a running thread, the answer by the
\* connect and read timeouts of the call, and time passes.
Fairness == WF_vars(Tick) /\ \A w \in Workers : WF_vars(Step(w))

Spec == Init /\ [][Next]_vars /\ Fairness

-----------------------------------------------------------------------------
CallRecords ==
  [mode : Modes \union {"none"}, request : Requests \union {NoRequest},
   hops : Nat, permit : Nat, clock : Nat]
Times == Nat \union {Unset}

TypeOK ==
  /\ now \in Nat
  /\ request_count \in 0..MaxRequests /\ skipped \in Nat /\ exhausted \in BOOLEAN
  /\ consecutive_429s \in Nat /\ backoff_until \in Nat /\ last_request_time \in Nat
  /\ pc \in [Workers -> Phases]
  /\ call \in [Workers -> CallRecords]
  /\ calls \in Nat
  /\ audit \in [Permits -> {"none", "allowed", "blocked"}]
  /\ asked \in [Permits -> Requests \union {NoRequest}]
  /\ slot \in [Permits -> Times]
  /\ sentAt \in [Permits -> Times]
  /\ strays \in [Workers -> Nat]

\* The exhausted flag the scan report and the scheduler read is set exactly
\* when a call was turned away, and a call is turned away only when the whole
\* budget was granted: max_requests is neither overrun nor cut short.
ExhaustionIsReal ==
  /\ exhausted <=> skipped > 0
  /\ exhausted => request_count = MaxRequests

\* Whatever the threads do, two requests of a scan never hold slots closer
\* than rate_limit_seconds (_throttle reserves them under the lock), and no
\* request leaves before its slot.
SlotsSpaced ==
  /\ \A m, n \in Permits :
       m # n /\ slot[m] # Unset /\ slot[n] # Unset =>
         slot[m] >= slot[n] + Interval \/ slot[n] >= slot[m] + Interval
  /\ \A n \in Permits : sentAt[n] # Unset => slot[n] # Unset /\ sentAt[n] >= slot[n]

\* The target is contacted only for a request the boundary admits and an
\* "allowed" audit event was written for, first requests and redirect hops
\* alike.
ContactsAreCleared ==
  \A n \in Permits : sentAt[n] # Unset => audit[n] = "allowed" /\ Boundary(asked[n])

\* A busy answer stops the scan, threads asleep for an earlier slot included:
\* into the backoff it sets, a thread sends at most the one request whose slot
\* it already held, and the thread that got the answer sends none
\* (_handle_response_backoff moves no slot, _throttle gives none inside it).
BackoffHolds == \A w \in Workers : strays[w] <= 1

\* Every call ends: no worker waits for ever for a permit, a slot or an answer.
CallsReturn == \A w \in Workers : pc[w] # "idle" ~> pc[w] = "idle"

\* The client implements the abstract budget.
Budget == INSTANCE RequestBudget WITH
  used <- request_count, refused <- skipped,
  contacts <- {n \in Permits : sentAt[n] # Unset}

ImplementsBudget == Budget!BudgetSpec
=============================================================================
