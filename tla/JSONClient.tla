----------------------------- MODULE JSONClient -----------------------------
(***************************************************************************)
(* jsonclient: POST requests that are retried, by goroutines that share a  *)
(* client and so its backoff.  Time counts seconds; the jitter of at most  *)
(* a quarter of one is part of the delay any step may have.                *)
(***************************************************************************)
EXTENDS Integers, FiniteSets

CONSTANTS
  Requests,       \* the goroutines, each with one request to make
  Clients,
  Deadline,       \* [Requests -> Nat], when the request's context ends
  MaxTime,        \* bound: the clock stops here, after every deadline
  MaxMultiplier,  \* maxMultiplier
  Answers,        \* what the server may answer, see Answer below
  None

ASSUME DeadlineAssumption == Deadline \in [Requests -> 0 .. MaxTime]

\* maxMultiplier is 8; a Retry-After is a number of seconds.
ASSUME BackoffAssumption ==
  /\ MaxMultiplier \in Nat \ {0}
  /\ \A r \in Requests : \A a \in Answers[r] :
       a.kind = "unavailable" => a.retryAfter \in Int \cup {None}

VARIABLES
  now,
  backoff,        \* of each client: [multiplier, notBefore]
  client,         \* the client of each request, once it has one
  pc,             \* of a request: "idle", "post", "sent", "until", "wait", "done"
  timer,          \* when the request's timer fires; 0 if it has none
  resp,           \* what the answers so far have left in the response
  result,         \* how PostAndParseWithRetry ended
  asked           \* history: the time before which the log asked this
                  \* request not to come back

jsonVars == <<now, backoff, client, pc, timer, resp, result, asked>>

NoResponse == [timestamp |-> 0, sig |-> None]

JSONInit ==
  /\ now = 1
  /\ backoff = [c \in Clients |-> [multiplier |-> 0, notBefore |-> 0]]
  /\ client = [r \in Requests |-> None]
  /\ pc = [r \in Requests |-> "idle"]
  /\ timer = [r \in Requests |-> 0]
  /\ resp = [r \in Requests |-> NoResponse]
  /\ result = [r \in Requests |-> "none"]
  /\ asked = [r \in Requests |-> 0]

Expired(r) == now >= Deadline[r]
Larger(a, b) == IF a > b THEN a ELSE b

-----------------------------------------------------------------------------
(* backoff *)

SetLastWins(b, override) ==
  IF override # None THEN [b EXCEPT !.notBefore = now + override]
  ELSE IF b.notBefore > now THEN b
  ELSE LET m == IF b.multiplier < MaxMultiplier THEN b.multiplier + 1 ELSE b.multiplier
       IN  [multiplier |-> m, notBefore |-> now + 2 ^ (m - 1)]

\* backoff.set, with an interval to override the exponential one, or None.
Set(b, override) ==
  IF b.notBefore > now
  THEN IF override = None THEN b ELSE [b EXCEPT !.notBefore = Larger(@, now + override)]
  ELSE IF override # None THEN [b EXCEPT !.notBefore = now + override]
  ELSE LET m == IF b.multiplier < MaxMultiplier THEN b.multiplier + 1 ELSE b.multiplier
       IN  [multiplier |-> m, notBefore |-> now + 2 ^ (m - 1)]

-----------------------------------------------------------------------------
(* An answer has a kind: "error", no answer or no body; "ok", status 200;  *)
(* "timeout", 408; "unavailable", 503; "refused", any other status.  A 503 *)
(* has retryAfter, the seconds from now of a Retry-After in seconds or as  *)
(* a date (which may be past), or None when it has none or it is neither.  *)
(* A 200 has fields, the members of the response that the JSON has, and    *)
(* clean, false if a member has the wrong type: then json.Unmarshal sets   *)
(* the others, and returns an error.                                       *)

\* json.Unmarshal leaves what the JSON does not mention as it was.
Unmarshal(old, fields) ==
  [timestamp |-> IF fields.timestamp = None THEN old.timestamp ELSE fields.timestamp,
   sig       |-> IF fields.sig = None THEN old.sig ELSE fields.sig]

\* The call of a request, for a client.
Begin(r, c) ==
  /\ pc[r] = "idle"
  /\ client' = [client EXCEPT ![r] = c]
  /\ pc' = [pc EXCEPT ![r] = "post"]
  /\ UNCHANGED <<now, backoff, timer, resp, result, asked>>

Return(r, how) ==
  /\ pc' = [pc EXCEPT ![r] = "done"]
  /\ result' = [result EXCEPT ![r] = how]

\* ctxhttp.Do: the request leaves, unless the context has ended.
Post(r) ==
  /\ pc[r] = "post"
  /\ ~Expired(r)
  /\ pc' = [pc EXCEPT ![r] = "sent"]
  /\ UNCHANGED <<now, backoff, client, timer, resp, result, asked>>

\* ctxhttp.Do returns the context's error, which is not retried.
PostExpires(r) ==
  /\ pc[r] \in {"post", "sent"}
  /\ Expired(r)
  /\ Return(r, "context")
  /\ UNCHANGED <<now, backoff, client, timer, resp, asked>>

BackOff(r, override) ==
  /\ backoff' = [backoff EXCEPT ![client[r]] = Set(@, override)]
  /\ pc' = [pc EXCEPT ![r] = "until"]
  /\ UNCHANGED result

\* PostAndParse returns to PostAndParseWithRetry, which returns or backs off.
Receive(r, a) ==
  /\ pc[r] = "sent"
  /\ \/ /\ a.kind = "error"
        /\ BackOff(r, None)
        /\ UNCHANGED <<resp, asked>>
     \/ /\ a.kind = "ok"
        /\ resp' = [resp EXCEPT ![r] = Unmarshal(@, a.fields)]
        /\ IF a.clean THEN Return(r, "ok") /\ UNCHANGED backoff ELSE BackOff(r, None)
        /\ UNCHANGED asked
     \/ /\ a.kind = "timeout"
        /\ pc' = [pc EXCEPT ![r] = "until"]
        /\ UNCHANGED <<backoff, resp, result, asked>>
     \/ /\ a.kind = "unavailable"
        /\ BackOff(r, a.retryAfter)
        /\ asked' = [asked EXCEPT ![r] = IF a.retryAfter = None THEN @ ELSE Larger(@, now + a.retryAfter)]
        /\ UNCHANGED resp
     \/ /\ a.kind = "refused"
        /\ Return(r, "refused")
        /\ UNCHANGED <<backoff, resp, asked>>
  /\ UNCHANGED <<now, client, timer>>

\* waitForBackoff reads the backoff, which another request may since have set.
Until(r) ==
  /\ pc[r] = "until"
  /\ timer' = [timer EXCEPT ![r] = backoff[client[r]].notBefore]
  /\ pc' = [pc EXCEPT ![r] = "wait"]
  /\ UNCHANGED <<now, backoff, client, resp, result, asked>>

TimerFires(r) ==
  /\ pc[r] = "wait"
  /\ now >= timer[r]
  /\ pc' = [pc EXCEPT ![r] = "post"]
  /\ timer' = [timer EXCEPT ![r] = 0]
  /\ UNCHANGED <<now, backoff, client, resp, result, asked>>

WaitExpires(r) ==
  /\ pc[r] = "wait"
  /\ Expired(r)
  /\ Return(r, "context")
  /\ UNCHANGED <<now, backoff, client, timer, resp, asked>>

Tick ==
  /\ now < MaxTime
  /\ now' = now + 1
  /\ UNCHANGED <<backoff, client, pc, timer, resp, result, asked>>

\* The steps of a request that do not wait for the server.
JSONStep(r) == Post(r) \/ PostExpires(r) \/ Until(r) \/ TimerFires(r) \/ WaitExpires(r)

-----------------------------------------------------------------------------
\* A request that the log has told when to come back (Retry-After) is never
\* sent again before, whatever the other requests of the client make of the
\* backoff between its answer and its wait.
HonoursRetryAfter == \A r \in Requests : pc[r] = "sent" => now >= asked[r]
=============================================================================
