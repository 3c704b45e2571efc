----------------------------- MODULE FetchStream -----------------------------
(***************************************************************************)
(* What a Fetcher promises to its callers (scanner.ScanLog, migrillian's   *)
(* fetchTail, the integration copier), whatever it does inside: a stream   *)
(* of batches in which no entry comes twice and none lies beyond the limit *)
(* in force; when the stream is closed without having been aborted, what   *)
(* was delivered is one contiguous piece of the log.                       *)
(***************************************************************************)
EXTENDS Integers

CONSTANT MaxTree      \* bound: the largest tree size the log ever publishes

VARIABLES state,      \* "idle", "open" (Run is fetching), "closed"
          aborted,    \* the caller gave up: its context is cancelled
          limit,      \* entries below it may be delivered
          delivered   \* how often each entry was delivered

streamVars == <<state, aborted, limit, delivered>>

Entry == 0 .. MaxTree - 1

Init ==
  /\ state = "idle"
  /\ aborted = FALSE
  /\ limit = 0
  /\ delivered = [i \in Entry |-> 0]

Open ==
  /\ state = "idle"
  /\ state' = "open"
  /\ limit' \in 0 .. MaxTree
  /\ UNCHANGED <<aborted, delivered>>

OpenFails ==
  /\ state = "idle"
  /\ state' = "closed"
  /\ UNCHANGED <<aborted, limit, delivered>>

\* An aborted Run may return while its generator still has a request for an
\* STH under way: the limit may then move once more after the stream's end.
Grow ==
  /\ state = "open" \/ (state = "closed" /\ aborted)
  /\ limit' \in limit + 1 .. MaxTree
  /\ UNCHANGED <<state, aborted, delivered>>

\* One call of fn, with the entries a .. b-1, all of them new.
Deliver ==
  /\ state = "open"
  /\ \E a, b \in 0 .. limit :
       /\ \A i \in a .. b - 1 : delivered[i] = 0
       /\ delivered' = [i \in Entry |->
            IF a <= i /\ i < b THEN 1 ELSE delivered[i]]
  /\ UNCHANGED <<state, aborted, limit>>

Abort ==
  /\ ~aborted
  /\ aborted' = TRUE
  /\ UNCHANGED <<state, limit, delivered>>

\* The delivered entries are exactly some lo .. hi-1, each once.
Contiguous ==
  \E lo, hi \in 0 .. MaxTree :
    delivered = [i \in Entry |-> IF lo <= i /\ i < hi THEN 1 ELSE 0]

Close ==
  /\ state = "open"
  /\ aborted \/ Contiguous
  /\ state' = "closed"
  /\ UNCHANGED <<aborted, limit, delivered>>

Next == Open \/ OpenFails \/ Grow \/ Deliver \/ Abort \/ Close

Spec == Init /\ [][Next]_streamVars
=============================================================================
