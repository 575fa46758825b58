-------------------------- MODULE HttpClientProofs --------------------------
(***************************************************************************)
(* What holds of HttpClient for every number of workers, every budget and  *)
(* every pacing: type correctness, the life of a permit, spaced slots,     *)
(* cleared contacts, the backoff, and the refinement of RequestBudget.     *)
(***************************************************************************)
EXTENDS HttpClient, TLAPS

\* A call in progress carries the request it was made with.
ActiveCalls ==
  \A w \in Workers : pc[w] # "idle" => call[w].request \in Requests /\ call[w].mode \in Modes

TypeInv == TypeOK /\ ActiveCalls

LEMMA ConstantTypes ==
  /\ OptIn \in BOOLEAN /\ HasManifest \in BOOLEAN /\ WindowEnd \in Nat
  /\ MaxRequests \in Nat /\ MaxRedirects \in Nat /\ Interval \in Nat
  /\ MaxCalls \in Nat /\ MaxTime \in Nat /\ RetryAfters \subseteq Nat
  /\ "GET" \in Methods
  BY ClientAssumption DEF ClientAssumption

LEMMA DelayType == ASSUME NEW n \in Nat PROVE DefaultDelay(n) \in Nat
  BY DEF DefaultDelay

LEMMA NoCallType == NoCall \in CallRecords
  BY DEF NoCall, CallRecords, NoRequest

\* What an update of a call's fields keeps.
LEMMA FieldUpdates ==
  ASSUME NEW c \in CallRecords, NEW n \in Nat
  PROVE  /\ [c EXCEPT !.permit = n] \in CallRecords
         /\ [c EXCEPT !.permit = n].request = c.request
         /\ [c EXCEPT !.permit = n].mode = c.mode
         /\ [c EXCEPT !.clock = n] \in CallRecords
         /\ [c EXCEPT !.clock = n].request = c.request
         /\ [c EXCEPT !.clock = n].mode = c.mode
         /\ [c EXCEPT !.clock = n].permit = c.permit
  BY DEF CallRecords

LEMMA RequestUpdate ==
  ASSUME NEW c \in CallRecords, NEW r \in Requests
  PROVE  /\ [c EXCEPT !.request = r] \in CallRecords
         /\ [c EXCEPT !.request = r].request = r
         /\ [c EXCEPT !.request = r].mode = c.mode
  BY DEF CallRecords

LEMMA RedirectedType ==
  ASSUME NEW r \in Requests, NEW s PROVE Redirected(r, s) \in Requests
  BY ConstantTypes DEF Redirected, Requests

LEMMA FreshType ==
  ASSUME NEW m \in Modes, NEW r \in Requests, NEW h \in Nat
  PROVE  /\ FreshCall(m, r, h) \in CallRecords
         /\ FreshCall(m, r, h).request = r /\ FreshCall(m, r, h).mode = m
  BY DEF FreshCall, CallRecords

LEMMA TypeInit == Init => TypeInv
<1> SUFFICES ASSUME Init PROVE TypeInv
  OBVIOUS
<1>1. TypeOK
  <2>1. /\ now \in Nat
        /\ request_count \in 0..MaxRequests /\ skipped \in Nat
        /\ consecutive_429s \in Nat /\ backoff_until \in Nat /\ last_request_time \in Nat
        /\ calls \in Nat
    BY ConstantTypes DEF Init
  <2>2. exhausted \in BOOLEAN
    BY DEF Init
  <2>3. pc \in [Workers -> Phases] /\ call \in [Workers -> CallRecords]
    BY NoCallType DEF Init, Phases
  <2>4. /\ audit \in [Permits -> {"none", "allowed", "blocked"}]
        /\ asked \in [Permits -> Requests \union {NoRequest}]
        /\ slot \in [Permits -> Times]
        /\ sentAt \in [Permits -> Times]
        /\ strays \in [Workers -> Nat]
    BY DEF Init, Times
  <2>5. QED
    BY <2>1, <2>2, <2>3, <2>4 DEF TypeOK
<1>2. ActiveCalls
  BY DEF Init, ActiveCalls
<1>3. QED
  BY <1>1, <1>2 DEF TypeInv

LEMMA ReturnType ==
  ASSUME TypeInv, NEW w \in Workers, Return(w)
  PROVE  /\ pc' \in [Workers -> Phases]
         /\ call' \in [Workers -> CallRecords]
         /\ ActiveCalls'
  BY NoCallType DEF TypeInv, TypeOK, ActiveCalls, Return, SetCall, Goto, Phases

LEMMA FinishType ==
  ASSUME TypeInv, NEW w \in Workers, NEW s, pc[w] = "sent", Finish(w, s)
  PROVE  /\ pc' \in [Workers -> Phases]
         /\ call' \in [Workers -> CallRecords]
         /\ ActiveCalls'
<1>1. CASE Return(w)
  BY <1>1, ReturnType
<1>2. CASE ~ Return(w)
  <2> DEFINE r == Redirected(call[w].request, s)
  <2>1. r \in Requests
    BY RedirectedType DEF TypeInv, ActiveCalls
  <2>2. call[w] \in CallRecords
    BY DEF TypeInv, TypeOK
  <2>3. Goto(w, "hop") /\ SetCall(w, [call[w] EXCEPT !.request = r])
    BY <1>2 DEF Finish
  <2>4. /\ [call[w] EXCEPT !.request = r] \in CallRecords
        /\ [call[w] EXCEPT !.request = r].request = r
        /\ [call[w] EXCEPT !.request = r].mode = call[w].mode
    BY <2>1, <2>2, RequestUpdate
  <2> HIDE DEF r
  <2>5. QED
    BY <2>1, <2>3, <2>4 DEF SetCall, Goto, Phases, TypeInv, TypeOK, ActiveCalls
<1>3. QED
  BY <1>1, <1>2

LEMMA TypeStep == TypeInv /\ [Next]_vars => TypeInv'
<1> SUFFICES ASSUME TypeInv, [Next]_vars PROVE TypeInv'
  OBVIOUS
<1> USE ConstantTypes, ReturnType DEF TypeInv, TypeOK, budget, pacing, history
<1>1. ASSUME NEW w \in Workers, NEW m \in Modes, NEW r \in Requests, Call(w, m, r)
      PROVE  TypeInv'
  BY <1>1, FreshType DEF Call, SetCall, Goto, Phases, ActiveCalls
<1>2. ASSUME NEW w \in Workers, Acquire(w) PROVE TypeInv'
  <2>1. request_count + 1 \in Permits /\ request_count + 1 \in Nat
    BY <1>2 DEF Acquire, Permits
  <2>2. /\ call' \in [Workers -> CallRecords]
        /\ pc' \in [Workers -> Phases]
        /\ ActiveCalls'
    <3> DEFINE c == [call[w] EXCEPT !.permit = request_count + 1]
    <3>1. c \in CallRecords /\ c.request = call[w].request /\ c.mode = call[w].mode
      BY <2>1, FieldUpdates
    <3>2. pc[w] = "acquire" /\ SetCall(w, c) /\ Goto(w, "authorize")
      BY <1>2 DEF Acquire
    <3> HIDE DEF c
    <3>3. QED
      BY <3>1, <3>2 DEF SetCall, Goto, Phases, ActiveCalls
  <2>3. call[w].request \in Requests
    BY <1>2 DEF Acquire, ActiveCalls
  <2>4. QED
    BY <1>2, <2>1, <2>2, <2>3 DEF Acquire, Permits
<1>3. ASSUME NEW w \in Workers, Reject(w) PROVE TypeInv'
  BY <1>3 DEF Reject
<1>4. ASSUME NEW w \in Workers, RefuseAutoRedirect(w) PROVE TypeInv'
  BY <1>4 DEF RefuseAutoRedirect
<1>5. ASSUME NEW w \in Workers, NEW seen \in Addresses, NEW resolved \in Addresses,
             Authorize(w, seen, resolved)
      PROVE  TypeInv'
  BY <1>5 DEF Authorize, Goto, Phases, ActiveCalls
<1>6. ASSUME NEW w \in Workers, ReadClock(w) PROVE TypeInv'
  <2>1. [call[w] EXCEPT !.clock = now] \in CallRecords
    BY FieldUpdates
  <2>2. call' \in [Workers -> CallRecords] /\ ActiveCalls'
    BY <1>6, <2>1, FieldUpdates DEF ReadClock, SetCall, Goto, ActiveCalls
  <2>3. QED
    BY <1>6, <2>2 DEF ReadClock, Goto, Phases
<1>7. ASSUME NEW w \in Workers, Reserve(w) PROVE TypeInv'
  <2>1. Larger(Larger(call[w].clock, backoff_until), last_request_time + Interval) \in Nat
    BY DEF Larger, CallRecords
  <2>2. QED
    BY <1>7, <2>1 DEF Reserve, Goto, Phases, ActiveCalls, Times
<1>8. ASSUME NEW w \in Workers, Send(w) PROVE TypeInv'
  <2>1. /\ now \in Times /\ pc' \in [Workers -> Phases]
        /\ (\A u \in Workers : pc[u] # "idle" => call[u].request \in Requests
                                                 /\ call[u].mode \in Modes)'
    BY <1>8 DEF Send, Goto, Phases, ActiveCalls, Times
  <2>2. sentAt' \in [Permits -> Times]
    BY <1>8, <2>1 DEF Send
  <2>3. strays' = [strays EXCEPT ![w] = @ + 1] \/ strays' = strays
    BY <1>8 DEF Send
  <2>4. strays' \in [Workers -> Nat]
    BY <2>3
  <2>5. UNCHANGED <<now, budget, pacing, call, calls, audit, asked, slot>>
    BY <1>8 DEF Send
  <2>6. TypeOK'
    BY <2>1, <2>2, <2>4, <2>5
  <2>7. QED
    BY <2>1, <2>6 DEF ActiveCalls
<1>9. ASSUME NEW w \in Workers, NEW ra \in RetryAfters \union {Unset}, RespondBusy(w, ra)
      PROVE  TypeInv'
  <2>1. backoff_until' \in Nat
    BY <1>9, DelayType DEF RespondBusy, Unset
  <2>2. QED
    BY <1>9, <2>1, FinishType DEF RespondBusy
<1>10. ASSUME NEW w \in Workers, NEW s \in Statuses \ {"busy"}, Respond(w, s) PROVE TypeInv'
  BY <1>10, FinishType DEF Respond
<1>11. ASSUME NEW w \in Workers, NetworkError(w) PROVE TypeInv'
  BY <1>11 DEF NetworkError
<1>12. ASSUME NEW w \in Workers, NEW url \in Urls, NEW seen \in Addresses, FollowHop(w, url, seen)
       PROVE  TypeInv'
  <2>1. CASE Return(w)
    BY <1>12, <2>1 DEF FollowHop
  <2>2. CASE ~ Return(w)
    <3> DEFINE next == [call[w].request EXCEPT !.url = url]
    <3>1. next \in Requests
      BY <1>12 DEF FollowHop, ActiveCalls, Requests
    <3>2. call[w].hops - 1 \in Nat
      BY <1>12, <2>2 DEF FollowHop, CallRecords
    <3>3. FreshCall("follow", next, call[w].hops - 1) \in CallRecords
      BY <3>1, <3>2, FreshType DEF Modes
    <3>4. /\ FreshCall("follow", next, call[w].hops - 1).request = next
          /\ FreshCall("follow", next, call[w].hops - 1).mode \in Modes
      BY <3>1, <3>2, FreshType DEF Modes
    <3>5. Goto(w, "acquire") /\ SetCall(w, FreshCall("follow", next, call[w].hops - 1))
      BY <1>12, <2>2 DEF FollowHop
    <3> HIDE DEF next
    <3>6. call' \in [Workers -> CallRecords] /\ pc' \in [Workers -> Phases] /\ ActiveCalls'
      BY <3>1, <3>3, <3>4, <3>5 DEF SetCall, Goto, Phases, ActiveCalls
    <3>7. QED
      BY <1>12, <3>6 DEF FollowHop
  <2>3. QED
    BY <2>1, <2>2
<1>13. CASE Tick
  BY <1>13 DEF Tick, ActiveCalls
<1>14. CASE UNCHANGED vars
  BY <1>14 DEF vars, ActiveCalls
<1>15. QED
  BY <1>1, <1>2, <1>3, <1>4, <1>5, <1>6, <1>7, <1>8, <1>9, <1>10, <1>11, <1>12, <1>13, <1>14
  DEF Next, Step

\* Type correctness of the client.
THEOREM TypeCorrect == Spec => []TypeOK
<1>1. Spec => []TypeInv
  BY TypeInit, TypeStep, PTL DEF Spec
<1>2. TypeInv => TypeOK
  BY DEF TypeInv
<1>3. QED
  BY <1>1, <1>2, PTL

-----------------------------------------------------------------------------
(***************************************************************************)
(* The life of a permit.  Between Acquire and the end of the call exactly  *)
(* one worker holds a permit; its slot is written once, its contact after  *)
(* that, and its decision before both.                                     *)
(***************************************************************************)
Authorizing == {w \in Workers : pc[w] = "authorize"}
Pacing == {w \in Workers : pc[w] \in {"clock", "reserve"}}
Sleeping == {w \in Workers : pc[w] = "sleep"}
Sent == {w \in Workers : pc[w] = "sent"}
Unslotted == Authorizing \union Pacing
Unsent == Unslotted \union Sleeping
Holders == Unsent \union Sent

PermitInv ==
  /\ \A w \in Holders : call[w].permit \in 1..request_count
  /\ \A v, w \in Holders : call[v].permit = call[w].permit => v = w
  /\ \A n \in Permits : n > request_count => slot[n] = Unset /\ sentAt[n] = Unset
  /\ \A w \in Unslotted : slot[call[w].permit] = Unset
  /\ \A w \in Unsent : sentAt[call[w].permit] = Unset
  /\ \A w \in Sleeping : slot[call[w].permit] # Unset

DecisionInv ==
  /\ \A w \in Authorizing : asked[call[w].permit] = call[w].request
  /\ \A w \in Pacing \union Sleeping :
       audit[call[w].permit] = "allowed" /\ Boundary(asked[call[w].permit])
  /\ ContactsAreCleared

SlotInv ==
  /\ \A n \in Permits : slot[n] # Unset => slot[n] <= last_request_time
  /\ SlotsSpaced

IInv == TypeInv /\ PermitInv /\ DecisionInv /\ SlotInv

LEMMA IInvInit == Init => IInv
<1> SUFFICES ASSUME Init PROVE IInv
  OBVIOUS
<1>1. TypeInv
  BY TypeInit
<1>2. PermitInv /\ DecisionInv /\ SlotInv
  BY DEF Init, PermitInv, DecisionInv, SlotInv, ContactsAreCleared, SlotsSpaced,
     Holders, Unsent, Unslotted, Authorizing, Pacing, Sleeping, Sent
<1>3. QED
  BY <1>1, <1>2 DEF IInv

\* A step that lets go of w's permit, or starts a call that has none yet,
\* and leaves the client's shared state and the history alone.
LEMMA Letting ==
  ASSUME IInv, TypeInv',
         NEW w \in Workers, NEW p \in {"idle", "acquire", "hop"}, Goto(w, p),
         \A v \in Workers \ {w} : call'[v] = call[v],
         UNCHANGED <<request_count, last_request_time, audit, asked, slot, sentAt>>
  PROVE  IInv'
<1>1. /\ Authorizing' \subseteq Authorizing \ {w} /\ Pacing' \subseteq Pacing \ {w}
      /\ Sleeping' \subseteq Sleeping \ {w} /\ Sent' \subseteq Sent \ {w}
  BY DEF Goto, Authorizing, Pacing, Sleeping, Sent, IInv, TypeInv, TypeOK
<1>2. /\ Unslotted' \subseteq Unslotted \ {w} /\ Unsent' \subseteq Unsent \ {w}
      /\ Holders' \subseteq Holders \ {w} /\ Holders \subseteq Workers
  BY <1>1 DEF Unslotted, Unsent, Holders, Authorizing, Pacing, Sleeping, Sent
<1>3. \A v \in Holders' : call'[v] = call[v]
  BY <1>2
<1>4. PermitInv'
  BY <1>1, <1>2, <1>3 DEF PermitInv, IInv, Unsent, Unslotted, Holders
<1>5. DecisionInv'
  BY <1>1, <1>2, <1>3 DEF DecisionInv, IInv, ContactsAreCleared, Boundary, Holders, Unsent, Unslotted
<1>6. SlotInv'
  BY DEF SlotInv, IInv, SlotsSpaced
<1>7. QED
  BY <1>4, <1>5, <1>6 DEF IInv

LEMMA PermitRange ==
  ASSUME IInv, NEW w \in Holders
  PROVE  call[w].permit \in Permits
  BY ConstantTypes DEF IInv, PermitInv, TypeInv, TypeOK, Permits

LEMMA IInvStep == IInv /\ [Next]_vars => IInv'
<1> SUFFICES ASSUME IInv, [Next]_vars PROVE IInv'
  OBVIOUS
<1>0. TypeInv'
  BY TypeStep DEF IInv
<1>a. TypeOK /\ TypeInv
  BY DEF IInv, TypeInv
<1> USE <1>0, <1>a
<1> USE DEF Holders, Unsent, Unslotted, Authorizing, Pacing, Sleeping, Sent
<1>1. ASSUME NEW w \in Workers, NEW m \in Modes, NEW r \in Requests, Call(w, m, r)
      PROVE  IInv'
  BY <1>1, Letting DEF Call, SetCall, TypeOK, budget, pacing, history
<1>2. ASSUME NEW w \in Workers, Acquire(w) PROVE IInv'
  <2> DEFINE n == request_count + 1
  <2>1. /\ pc[w] = "acquire" /\ pc' = [pc EXCEPT ![w] = "authorize"]
        /\ request_count' = n /\ n \in Permits /\ n \in Nat /\ request_count \in Nat
        /\ call'[w] = [call[w] EXCEPT !.permit = n]
        /\ \A v \in Workers \ {w} : call'[v] = call[v]
        /\ asked' = [asked EXCEPT ![n] = call[w].request]
        /\ UNCHANGED <<last_request_time, audit, slot, sentAt>>
    BY <1>2, ConstantTypes DEF Acquire, Goto, SetCall, TypeOK, Permits, pacing
  <2>2. call'[w].permit = n /\ call'[w].request = call[w].request
    BY <2>1 DEF TypeOK, CallRecords
  <2>3. \A v \in Holders : call[v].permit # n /\ call[v].permit \in Permits
    BY <2>1, PermitRange DEF IInv, PermitInv
  <2> HIDE DEF n
  <2>4. /\ n = request_count + 1 /\ slot[n] = Unset /\ sentAt[n] = Unset
        /\ asked'[n] = call[w].request
        /\ \A k \in Permits \ {n} : asked'[k] = asked[k]
    BY <2>1 DEF n, IInv, PermitInv, TypeOK
  <2>5. /\ w \notin Holders /\ Authorizing' = Authorizing \union {w}
        /\ Pacing' = Pacing /\ Sleeping' = Sleeping /\ Sent' = Sent
    BY <2>1 DEF TypeOK
  <2>6. Unslotted' = Unslotted \union {w} /\ Unsent' = Unsent \union {w}
        /\ Holders' = Holders \union {w} /\ Holders \subseteq Workers
        /\ Unslotted \subseteq Holders /\ Unsent \subseteq Holders
        /\ Authorizing \subseteq Holders /\ Pacing \subseteq Holders /\ Sleeping \subseteq Holders
    BY <2>5
  <2> HIDE DEF Holders, Unsent, Unslotted, Authorizing, Pacing, Sleeping, Sent
  <2>7. \A v \in Holders : call'[v] = call[v]
    BY <2>1, <2>5, <2>6
  <2>8. PermitInv'
    <3>1. \A v \in Holders' : call'[v].permit \in 1..request_count'
      <4>1. \A v \in Holders : call[v].permit \in 1..request_count
        BY DEF IInv, PermitInv
      <4>2. request_count' = request_count + 1 /\ request_count \in Nat /\ n \in 1..request_count'
        BY <2>1, <2>4
      <4>3. QED
        BY <2>2, <2>6, <2>7, <4>1, <4>2
    <3>2. \A u, v \in Holders' : call'[v].permit = call'[u].permit => v = u
      <4>1. \A u, v \in Holders : call[v].permit = call[u].permit => v = u
        BY DEF IInv, PermitInv
      <4>2. QED
        BY <2>2, <2>3, <2>6, <2>7, <4>1
    <3>3. \A k \in Permits : k > request_count' => slot'[k] = Unset /\ sentAt'[k] = Unset
      BY <2>1, <2>4 DEF PermitInv, IInv, Permits
    <3>4. /\ \A v \in Unslotted' : slot'[call'[v].permit] = Unset
          /\ \A v \in Unsent' : sentAt'[call'[v].permit] = Unset
          /\ \A v \in Sleeping' : slot'[call'[v].permit] # Unset
      <4>1. /\ \A v \in Unslotted : slot[call[v].permit] = Unset
            /\ \A v \in Unsent : sentAt[call[v].permit] = Unset
            /\ \A v \in Sleeping : slot[call[v].permit] # Unset
        BY DEF IInv, PermitInv
      <4>2. slot' = slot /\ sentAt' = sentAt
        BY <2>1
      <4>3. QED
        BY <2>2, <2>4, <2>5, <2>6, <2>7, <4>1, <4>2
    <3>5. QED
      BY <3>1, <3>2, <3>3, <3>4 DEF PermitInv
  <2>9. DecisionInv'
    <3>1. audit' = audit /\ sentAt' = sentAt
      BY <2>1
    <3>2. \A v \in Authorizing' : asked'[call'[v].permit] = call'[v].request
      BY <2>2, <2>3, <2>4, <2>5, <2>6, <2>7 DEF DecisionInv, IInv
    <3>3. \A v \in Pacing' \union Sleeping' :
            audit'[call'[v].permit] = "allowed" /\ Boundary(asked'[call'[v].permit])
      BY <2>3, <2>4, <2>5, <2>6, <2>7, <3>1 DEF DecisionInv, IInv
    <3>4. ContactsAreCleared'
      BY <2>4, <3>1 DEF DecisionInv, IInv, ContactsAreCleared, Boundary
    <3>5. QED
      BY <3>2, <3>3, <3>4 DEF DecisionInv, Boundary
  <2>10. SlotInv'
    BY <2>1 DEF SlotInv, IInv, SlotsSpaced
  <2>11. QED
    BY <2>10, <2>8, <2>9 DEF IInv
<1>3. ASSUME NEW w \in Workers, Reject(w) PROVE IInv'
  BY <1>3, Letting DEF Reject, Return, SetCall, TypeOK, pacing, history
<1>4. ASSUME NEW w \in Workers, RefuseAutoRedirect(w) PROVE IInv'
  BY <1>4, Letting DEF RefuseAutoRedirect, Return, SetCall, TypeOK, budget, pacing, history
<1>5. ASSUME NEW w \in Workers, NEW seen \in Addresses, NEW resolved \in Addresses,
             Authorize(w, seen, resolved)
      PROVE  IInv'
  <2> DEFINE ok == /\ Boundary(call[w].request)
                   /\ ManifestOpen(now, seen)
                   /\ AddressAllowed(resolved)
             p == call[w].permit
  <2>1. /\ w \in Authorizing /\ p \in Permits
        /\ audit' = [audit EXCEPT ![p] = IF ok THEN "allowed" ELSE "blocked"]
        /\ pc' = [pc EXCEPT ![w] = IF ok THEN "clock" ELSE "idle"]
        /\ \A v \in Workers \ {w} : call'[v] = call[v]
        /\ ok => call'[w] = call[w]
        /\ UNCHANGED <<request_count, last_request_time, asked, slot, sentAt>>
    BY <1>5, PermitRange DEF Authorize, Goto, Return, SetCall, TypeOK, budget, pacing
  <2>2. audit'[p] = (IF ok THEN "allowed" ELSE "blocked")
        /\ \A n \in Permits \ {p} : audit'[n] = audit[n]
    BY <2>1 DEF TypeOK
  <2>3. asked[p] = call[w].request /\ sentAt[p] = Unset
        /\ \A v \in Holders : call[v].permit \in Permits /\ (v # w => call[v].permit # p)
    BY <2>1, PermitRange DEF IInv, PermitInv, DecisionInv
  <2>4. ok => Boundary(asked[p])
    BY <2>3
  <2> HIDE DEF ok, p
  <2>5. PermitInv'
    BY <2>1 DEF PermitInv, IInv, TypeOK, p
  <2>6. DecisionInv'
    BY <2>1, <2>2, <2>3, <2>4 DEF DecisionInv, IInv, ContactsAreCleared, Boundary, TypeOK, p
  <2>7. SlotInv'
    BY <2>1 DEF SlotInv, IInv, SlotsSpaced
  <2>8. QED
    BY <2>5, <2>6, <2>7 DEF IInv
<1>6. ASSUME NEW w \in Workers, ReadClock(w) PROVE IInv'
  <2>1. /\ pc[w] = "clock" /\ pc' = [pc EXCEPT ![w] = "reserve"]
        /\ call'[w].permit = call[w].permit
        /\ \A v \in Workers \ {w} : call'[v] = call[v]
        /\ UNCHANGED <<request_count, last_request_time, audit, asked, slot, sentAt>>
    BY <1>6, FieldUpdates DEF ReadClock, Goto, SetCall, TypeOK, budget, pacing, history
  <2>2. PermitInv'
    BY <2>1 DEF PermitInv, IInv, TypeOK
  <2>3. DecisionInv'
    BY <2>1 DEF DecisionInv, IInv, ContactsAreCleared, Boundary, TypeOK
  <2>4. SlotInv'
    BY <2>1 DEF SlotInv, IInv, SlotsSpaced
  <2>5. QED
    BY <2>2, <2>3, <2>4 DEF IInv
<1>7. ASSUME NEW w \in Workers, Reserve(w) PROVE IInv'
  <2> DEFINE s == Larger(Larger(call[w].clock, backoff_until), last_request_time + Interval)
             p == call[w].permit
  <2>1. /\ pc[w] = "reserve" /\ w \in Holders /\ p \in Permits
        /\ pc' = [pc EXCEPT ![w] = "sleep"]
        /\ last_request_time' = s /\ slot' = [slot EXCEPT ![p] = s]
        /\ UNCHANGED <<request_count, call, audit, asked, sentAt>>
    BY <1>7, PermitRange DEF Reserve, Goto, TypeOK, budget
  <2>2. s \in Nat /\ s >= last_request_time + Interval /\ last_request_time \in Nat /\ Interval \in Nat
    BY ConstantTypes DEF Larger, TypeOK, CallRecords
  <2>3. slot[p] = Unset /\ sentAt[p] = Unset /\ s # Unset
        /\ \A v \in Holders : call[v].permit \in Permits /\ (v # w => call[v].permit # p)
    BY <2>1, <2>2, PermitRange DEF IInv, PermitInv, Unset
  <2>4. slot'[p] = s /\ \A n \in Permits \ {p} : slot'[n] = slot[n]
    BY <2>1 DEF TypeOK
  <2> HIDE DEF s, p
  <2>5. PermitInv'
    BY <2>1, <2>3, <2>4 DEF PermitInv, IInv, TypeOK, p
  <2>6. DecisionInv'
    BY <2>1 DEF DecisionInv, IInv, ContactsAreCleared, Boundary, TypeOK
  <2>7. SlotInv'
    BY <2>1, <2>2, <2>3, <2>4 DEF SlotInv, IInv, SlotsSpaced, TypeOK, Times, Unset
  <2>8. QED
    BY <2>5, <2>6, <2>7 DEF IInv
<1>8. ASSUME NEW w \in Workers, Send(w) PROVE IInv'
  <2> DEFINE p == call[w].permit
  <2>1. /\ pc[w] = "sleep" /\ w \in Holders /\ p \in Permits
        /\ pc' = [pc EXCEPT ![w] = "sent"]
        /\ now >= slot[p] /\ sentAt' = [sentAt EXCEPT ![p] = now]
        /\ UNCHANGED <<request_count, last_request_time, call, audit, asked, slot>>
    BY <1>8, PermitRange DEF Send, Goto, TypeOK, budget, pacing
  <2>2. /\ slot[p] # Unset /\ audit[p] = "allowed" /\ Boundary(asked[p])
        /\ p <= request_count
        /\ \A v \in Holders : call[v].permit \in Permits /\ (v # w => call[v].permit # p)
    BY <2>1, PermitRange DEF IInv, PermitInv, DecisionInv
  <2>3. sentAt'[p] = now /\ now \in Nat /\ \A n \in Permits \ {p} : sentAt'[n] = sentAt[n]
    BY <2>1 DEF TypeOK
  <2> HIDE DEF p
  <2>4. PermitInv'
    BY <2>1, <2>2, <2>3, ConstantTypes DEF PermitInv, IInv, TypeOK, p, Permits
  <2>5. DecisionInv'
    BY <2>1, <2>2, <2>3 DEF DecisionInv, IInv, ContactsAreCleared, Boundary, TypeOK, p
  <2>6. SlotInv'
    BY <2>1, <2>2, <2>3 DEF SlotInv, IInv, SlotsSpaced, TypeOK
  <2>7. QED
    BY <2>4, <2>5, <2>6 DEF IInv
<1>9. ASSUME NEW w \in Workers, NEW s, Finish(w, s),
             UNCHANGED <<request_count, last_request_time, audit, asked, slot, sentAt>>
      PROVE  IInv'
  BY <1>9, Letting DEF Finish, Return, SetCall, TypeOK
<1>10. ASSUME NEW w \in Workers, NEW ra \in RetryAfters \union {Unset}, RespondBusy(w, ra)
       PROVE  IInv'
  BY <1>10, <1>9 DEF RespondBusy, budget, history
<1>11. ASSUME NEW w \in Workers, NEW s \in Statuses \ {"busy"}, Respond(w, s) PROVE IInv'
  BY <1>11, <1>9 DEF Respond, budget, history
<1>12. ASSUME NEW w \in Workers, NetworkError(w) PROVE IInv'
  BY <1>12, Letting DEF NetworkError, Return, SetCall, TypeOK, budget, pacing, history
<1>13. ASSUME NEW w \in Workers, NEW url \in Urls, NEW seen \in Addresses, FollowHop(w, url, seen)
       PROVE  IInv'
  BY <1>13, Letting DEF FollowHop, Return, SetCall, TypeOK, budget, pacing, history
<1>14. ASSUME UNCHANGED <<budget, pacing, pc, call, history>> PROVE IInv'
  <2>1. UNCHANGED <<request_count, last_request_time, pc, call, audit, asked, slot, sentAt>>
    BY <1>14 DEF budget, pacing, history
  <2>2. PermitInv'
    BY <2>1 DEF PermitInv, IInv
  <2>3. DecisionInv'
    BY <2>1 DEF DecisionInv, IInv, ContactsAreCleared, Boundary
  <2>4. SlotInv'
    BY <2>1 DEF SlotInv, IInv, SlotsSpaced
  <2>5. QED
    BY <2>2, <2>3, <2>4 DEF IInv
<1>15. CASE Tick
  BY <1>15, <1>14 DEF Tick
<1>16. CASE UNCHANGED vars
  BY <1>16, <1>14 DEF vars
<1>17. QED
  BY <1>1, <1>2, <1>3, <1>4, <1>5, <1>6, <1>7, <1>8, <1>10, <1>11, <1>12, <1>13, <1>15, <1>16
  DEF Next, Step

LEMMA Invariance == Spec => []IInv
  BY IInvInit, IInvStep, PTL DEF Spec

\* _throttle's critical section spaces the slots of all threads by at least
\* rate_limit_seconds, and nobody sends before its slot.
THEOREM SlotSpacing == Spec => []SlotsSpaced
<1>1. IInv => SlotsSpaced
  BY DEF IInv, SlotInv
<1>2. QED
  BY <1>1, Invariance, PTL

\* Every contact, redirect hops included, was authorised and audited first.
THEOREM ClearedContacts == Spec => []ContactsAreCleared
<1>1. IInv => ContactsAreCleared
  BY DEF IInv, DecisionInv
<1>2. QED
  BY <1>1, Invariance, PTL

\* The exhausted flag: set with the first refusal, and no refusal before the
\* budget is gone.
THEOREM Exhaustion == Spec => []ExhaustionIsReal
<1>1. Init => ExhaustionIsReal
  BY DEF Init, ExhaustionIsReal
<1>2. TypeInv /\ ExhaustionIsReal /\ [Next]_vars => ExhaustionIsReal'
  <2> SUFFICES ASSUME TypeInv, ExhaustionIsReal, [Next]_vars PROVE ExhaustionIsReal'
    OBVIOUS
  <2>1. request_count \in 0..MaxRequests /\ skipped \in Nat /\ MaxRequests \in Nat
    BY ConstantTypes DEF TypeInv, TypeOK
  <2>2. ASSUME NEW w \in Workers, Acquire(w) PROVE ExhaustionIsReal'
    BY <2>1, <2>2 DEF Acquire, ExhaustionIsReal
  <2>3. ASSUME NEW w \in Workers, Reject(w) PROVE ExhaustionIsReal'
    BY <2>1, <2>3 DEF Reject, ExhaustionIsReal
  <2>4. ASSUME UNCHANGED budget PROVE ExhaustionIsReal'
    BY <2>4 DEF budget, ExhaustionIsReal
  <2>5. QED
    BY <2>2, <2>3, <2>4
    DEF Next, Step, vars, Call, RefuseAutoRedirect, Authorize, ReadClock, Reserve, Send,
        RespondBusy, Respond, NetworkError, FollowHop, Tick
<1>3. Spec => []TypeInv
  BY TypeInit, TypeStep, PTL DEF Spec
<1>4. QED
  BY <1>1, <1>2, <1>3, PTL DEF Spec

\* The client with its locks, clocks and answers implements RequestBudget:
\* a permit is granted once, spent on at most one contact, and a call is
\* refused only when every permit was granted.
THEOREM Refinement == Spec => ImplementsBudget
<1>1. Init => Budget!BudgetInit
  BY DEF Init, Budget!BudgetInit, Permits, Unset
<1>2. IInv /\ [Next]_vars => [Budget!BudgetNext]_(Budget!budgetVars)
  <2> SUFFICES ASSUME IInv, [Next]_vars
               PROVE  Budget!BudgetNext \/ UNCHANGED Budget!budgetVars
    BY DEF Budget!budgetVars
  <2> DEFINE contacts == {n \in Permits : sentAt[n] # Unset}
  <2>1. /\ request_count \in 0..MaxRequests /\ MaxRequests \in Nat
        /\ sentAt \in [Permits -> Times] /\ now \in Nat
    BY ConstantTypes DEF IInv, TypeInv, TypeOK
  <2>2. ASSUME NEW w \in Workers, Acquire(w) PROVE Budget!BudgetNext
    BY <2>1, <2>2 DEF Acquire, Budget!BudgetNext, Budget!Grant
  <2>3. ASSUME NEW w \in Workers, Reject(w) PROVE Budget!BudgetNext
    BY <2>1, <2>3 DEF Reject, history, Budget!BudgetNext, Budget!Refuse
  <2>4. ASSUME NEW w \in Workers, Send(w) PROVE Budget!BudgetNext
    <3> DEFINE p == call[w].permit
    <3>1. w \in Holders /\ w \in Unsent
      BY <2>4 DEF Send, Holders, Unsent, Unslotted, Authorizing, Pacing, Sleeping, Sent
    <3>2. p \in Permits /\ p \in 1..request_count /\ sentAt[p] = Unset
      BY <3>1, PermitRange DEF IInv, PermitInv
    <3>3. sentAt' = [sentAt EXCEPT ![p] = now] /\ UNCHANGED <<request_count, skipped>>
      BY <2>4 DEF Send, budget
    <3>4. contacts' = contacts \union {p} /\ p \notin contacts
      BY <2>1, <3>2, <3>3 DEF Unset
    <3>5. QED
      BY <3>2, <3>3, <3>4
      DEF Budget!BudgetNext, Budget!Contact, Budget!Permits, Permits
  <2>5. ASSUME UNCHANGED <<request_count, skipped, sentAt>> PROVE UNCHANGED Budget!budgetVars
    BY <2>5 DEF Budget!budgetVars
  <2>6. QED
    BY <2>2, <2>3, <2>4, <2>5
    DEF Next, Step, vars, budget, history, Call, RefuseAutoRedirect, Authorize, ReadClock,
        Reserve, RespondBusy, Respond, NetworkError, FollowHop, Tick
<1>3. QED
  BY <1>1, <1>2, Invariance, PTL DEF Spec, ImplementsBudget, Budget!BudgetSpec

-----------------------------------------------------------------------------
\* A thread that still holds a slot inside the backoff has sent nothing into it.
StrayInv ==
  /\ \A w \in Sleeping : slot[call[w].permit] < backoff_until => strays[w] = 0
  /\ BackoffHolds

\* A step that sends nobody to sleep, moves no slot and sends nothing.
LEMMA NoNewSleeper ==
  ASSUME TypeInv, StrayInv, UNCHANGED <<slot, strays, backoff_until>>,
         \A v \in Workers : pc'[v] = "sleep" => pc[v] = "sleep" /\ call'[v] = call[v]
  PROVE  StrayInv'
  BY DEF StrayInv, BackoffHolds, Sleeping

LEMMA StrayStep == IInv /\ StrayInv /\ [Next]_vars => StrayInv'
<1> SUFFICES ASSUME IInv, StrayInv, [Next]_vars PROVE StrayInv'
  OBVIOUS
<1>0. TypeInv /\ TypeOK /\ TypeInv'
  BY TypeStep DEF IInv, TypeInv
<1>1. ASSUME NEW w \in Workers, NEW p \in {"idle", "acquire", "authorize", "clock", "reserve", "hop"},
             Goto(w, p), \A v \in Workers \ {w} : call'[v] = call[v],
             UNCHANGED <<slot, strays, backoff_until>>
      PROVE  StrayInv'
  BY <1>0, <1>1, NoNewSleeper DEF Goto, TypeOK
<1>2. ASSUME NEW w \in Workers, Reserve(w) PROVE StrayInv'
  <2> DEFINE s == Larger(Larger(call[w].clock, backoff_until), last_request_time + Interval)
             p == call[w].permit
  <2>1. s \in Nat /\ s >= backoff_until /\ backoff_until \in Nat
    BY <1>0, ConstantTypes DEF Larger, TypeOK, CallRecords
  <2>2. /\ w \in Holders /\ p \in Permits
        /\ \A v \in Sleeping : v # w => call[v].permit # p
    BY <1>2, PermitRange
    DEF Reserve, IInv, PermitInv, Holders, Unsent, Unslotted, Pacing, Sleeping
  <2>3. /\ slot' = [slot EXCEPT ![p] = s] /\ pc' = [pc EXCEPT ![w] = "sleep"]
        /\ UNCHANGED <<call, strays, backoff_until>>
    BY <1>2 DEF Reserve, Goto
  <2>4. slot'[p] = s /\ \A n \in Permits : n # p => slot'[n] = slot[n]
    BY <1>0, <2>2, <2>3 DEF TypeOK
  <2>5. \A v \in Sleeping' : v = w \/ v \in Sleeping
    BY <1>0, <2>3 DEF Sleeping, TypeOK
  <2>6. \A v \in Sleeping : call[v].permit \in Permits
    BY PermitRange DEF Holders, Unsent
  <2> HIDE DEF s
  <2>7. ASSUME NEW v \in Sleeping', slot'[call'[v].permit] < backoff_until'
        PROVE  strays'[v] = 0
    <3>1. CASE v = w
      BY <2>1, <2>3, <2>4, <2>7, <3>1
    <3>2. CASE v # w
      <4>1. v \in Sleeping /\ slot'[call[v].permit] = slot[call[v].permit]
        BY <2>2, <2>4, <2>5, <2>6, <3>2
      <4>2. QED
        BY <2>3, <2>7, <4>1 DEF StrayInv
    <3>3. QED
      BY <3>1, <3>2
  <2>8. BackoffHolds'
    BY <2>3 DEF StrayInv, BackoffHolds
  <2>9. QED
    BY <2>7, <2>8 DEF StrayInv
<1>3. ASSUME NEW w \in Workers, Send(w) PROVE StrayInv'
  <2> DEFINE p == call[w].permit
  <2>1. /\ w \in Sleeping /\ w \in Holders /\ p \in Permits
        /\ now \in Nat /\ backoff_until \in Nat /\ slot[p] \in Times
    BY <1>0, <1>3, PermitRange DEF Send, Holders, Unsent, Sleeping, TypeOK
  <2>2. /\ pc' = [pc EXCEPT ![w] = "sent"] /\ now >= slot[p]
        /\ UNCHANGED <<call, slot, backoff_until>>
        /\ strays' = IF now < backoff_until THEN [strays EXCEPT ![w] = @ + 1] ELSE strays
    BY <1>3 DEF Send, Goto, pacing
  <2>3. now < backoff_until => strays[w] = 0
    BY <2>1, <2>2 DEF StrayInv, Times, Unset
  <2>4. /\ strays'[w] <= 1
        /\ \A v \in Workers : v # w => strays'[v] = strays[v]
    BY <1>0, <2>2, <2>3 DEF StrayInv, BackoffHolds, TypeOK
  <2>5. \A v \in Sleeping' : v \in Sleeping /\ v # w
    BY <1>0, <2>2 DEF Sleeping, TypeOK
  <2>6. \A v \in Sleeping' : slot'[call'[v].permit] < backoff_until' => strays'[v] = 0
    BY <2>2, <2>4, <2>5 DEF StrayInv, Sleeping
  <2>7. BackoffHolds'
    BY <2>4 DEF StrayInv, BackoffHolds
  <2>8. QED
    BY <2>6, <2>7 DEF StrayInv
<1>4. ASSUME NEW w \in Workers, NEW ra \in RetryAfters \union {Unset}, RespondBusy(w, ra)
      PROVE  StrayInv'
  <2>1. strays' = [u \in Workers |-> IF u = w THEN 1 ELSE 0]
    BY <1>4 DEF RespondBusy
  <2>2. pc'[w] # "sleep"
    BY <1>0, <1>4 DEF RespondBusy, Finish, Return, Goto, TypeOK
  <2>3. QED
    BY <2>1, <2>2 DEF StrayInv, BackoffHolds, Sleeping
<1>5. ASSUME NEW w \in Workers, NEW s \in Statuses \ {"busy"}, Respond(w, s) PROVE StrayInv'
  BY <1>0, <1>1, <1>5 DEF Respond, Finish, Return, SetCall, TypeOK, history
<1>6. ASSUME NEW w \in Workers, NEW m \in Modes, NEW r \in Requests, Call(w, m, r)
      PROVE  StrayInv'
  BY <1>0, <1>1, <1>6 DEF Call, SetCall, TypeOK, pacing, history
<1>7. ASSUME NEW w \in Workers, NEW url \in Urls, NEW seen \in Addresses, FollowHop(w, url, seen)
      PROVE  StrayInv'
  BY <1>0, <1>1, <1>7 DEF FollowHop, Return, SetCall, TypeOK, pacing, history
<1>8. ASSUME NEW w \in Workers,
             \/ Acquire(w) \/ Reject(w) \/ RefuseAutoRedirect(w) \/ ReadClock(w) \/ NetworkError(w)
      PROVE  StrayInv'
  BY <1>0, <1>1, <1>8
  DEF Acquire, Reject, RefuseAutoRedirect, ReadClock, NetworkError, Return, SetCall, TypeOK,
      pacing, history
<1>9. ASSUME NEW w \in Workers, NEW seen \in Addresses, NEW resolved \in Addresses,
             Authorize(w, seen, resolved)
      PROVE  StrayInv'
  BY <1>0, <1>1, <1>9 DEF Authorize, Return, SetCall, TypeOK, pacing
<1>10. CASE Tick \/ UNCHANGED vars
  BY <1>0, <1>10, NoNewSleeper DEF Tick, vars, pacing, history
<1>11. QED
  BY <1>2, <1>3, <1>4, <1>5, <1>6, <1>7, <1>8, <1>9, <1>10 DEF Next, Step

\* A busy answer stops every thread: into the backoff it set, a thread sends at
\* most the request whose slot it held before, and the one told sends none.
THEOREM BackoffStopsThreads == Spec => []BackoffHolds
<1>1. Init => StrayInv
  BY DEF Init, StrayInv, BackoffHolds, Sleeping
<1>2. StrayInv => BackoffHolds
  BY DEF StrayInv
<1>3. QED
  BY <1>1, <1>2, StrayStep, Invariance, PTL DEF Spec
=============================================================================
