---------------------------- MODULE SubmissionRace ----------------------------
(***************************************************************************)
(* submission/races.go: GetSCTs obtains SCTs for one chain from enough     *)
(* logs of every policy group.  Each group runs a race (groupRace) of one  *)
(* goroutine per log; the races share safeSubmissionState, which makes     *)
(* sure no log is asked twice and cancels requests nobody needs any more.  *)
(*                                                                         *)
(* A goroutine is named by its group and log.  Time is counted in          *)
(* PostBatchIntervals.  The logs are external: SubmitToLog returns an SCT  *)
(* or an error, whether or not its context was cancelled meanwhile.        *)
(***************************************************************************)
EXTENDS Integers, FiniteSets

CONSTANTS
  Logs,       \* URLs of the compatible logs
  Groups,     \* names of the policy's groups
  GroupLogs,  \* LogGroupInfo.LogURLs of each group
  MinInclusions,  \* LogGroupInfo.MinInclusions of each group
  Delay,      \* Delay[g][i]: intervals before the i-th request of group g
  MaxClock    \* bound: intervals that are told apart

ASSUME RaceAssumption ==
  /\ IsFiniteSet(Logs)
  /\ GroupLogs \in [Groups -> SUBSET Logs]
  /\ MinInclusions \in [Groups -> Nat]
  /\ \A g \in Groups : MinInclusions[g] <= Cardinality(GroupLogs[g])
  /\ MaxClock \in Nat

VARIABLES
  session,    \* position of each log in the group's random session
  clock,      \* intervals since GetSCTs was called
  ctxDone,    \* the caller's context is done
  needs,      \* groupNeeds: SCTs each group still waits for
  results,    \* results: "none" (nil), "empty", "sct" or "err" per log
  cancels,    \* cancels: "nil", "set", or "called" and so nil again
  received,   \* history: logs whose SCT reached setResult
  proc,       \* control state of each goroutine
  counted,    \* how many countCall tokens each race has taken
  race,       \* control state of each groupRace
  success,    \* the Success each race reported
  complete,   \* GetSCTs' groupComplete map
  seen,       \* groups whose event GetSCTs has received
  main,       \* "collect" or "returned"
  ret         \* what GetSCTs returned: [scts, err]

state == <<needs, results, cancels, received>>
races == <<counted, race, success>>
getSCTs == <<complete, seen, main, ret>>
vars == <<session, clock, ctxDone, state, proc, races, getSCTs>>

\* The orders GetSubmissionSession may produce for a set of logs.
Sessions(S) ==
  {f \in [S -> 0 .. Cardinality(S) - 1] : \A a, b \in S : f[a] = f[b] => a = b}

Calls == {c \in Groups \X Logs : c[2] \in GroupLogs[c[1]]}

GroupsOf(l) == {g \in Groups : l \in GroupLogs[g]}

\* A slip in isAwaited: all groups of the log must need an SCT.
AwaitedByAll(l) == \A g \in GroupsOf(l) : needs[g] > 0

\* Some group waits for the log's SCT (isAwaited).
Awaited(l) == \E g \in GroupsOf(l) : needs[g] > 0

\* A slip in groupComplete: complete one SCT too early.
GroupCompleteEarly(g) == needs[g] <= 1

GroupComplete(g) == needs[g] <= 0

\* A slip in groupRace: goroutines that found nothing to do are not counted.
FinishedBySubmitting(g) ==
  {l \in GroupLogs[g] : proc[<<g, l>>] = "done" /\ results[l] \in {"sct", "err"}}

\* The goroutines of the group that have sent their token (countCall).
Finished(g) == {l \in GroupLogs[g] : proc[<<g, l>>] = "done"}

Stored == {l \in Logs : results[l] = "sct"}

\* The SCTs of a set of logs meet the policy.
Satisfies(scts) ==
  \A g \in Groups : Cardinality(scts \cap GroupLogs[g]) >= MinInclusions[g]

TypeOK ==
  /\ \A g \in Groups : session[g] \in [GroupLogs[g] -> Nat]
  /\ clock \in 0 .. MaxClock
  /\ ctxDone \in BOOLEAN
  /\ needs \in [Groups -> Int]
  /\ results \in [Logs -> {"none", "empty", "sct", "err"}]
  /\ cancels \in [Logs -> {"nil", "set", "called"}]
  /\ received \subseteq Logs
  /\ proc \in [Calls -> {"timer", "request", "submit", "done"}]
  /\ counted \in [Groups -> Nat]
  /\ race \in [Groups -> {"wait", "done"}]
  /\ success \in [Groups -> BOOLEAN]
  /\ complete \in [Groups -> BOOLEAN]
  /\ seen \subseteq Groups
  /\ main \in {"collect", "returned"}
  /\ ret \in [scts : SUBSET Logs, err : BOOLEAN]

Init ==
  /\ session \in [Groups -> UNION {Sessions(GroupLogs[g]) : g \in Groups}]
  /\ \A g \in Groups : session[g] \in Sessions(GroupLogs[g])
  /\ clock = 0
  /\ ctxDone = FALSE
  /\ needs = MinInclusions
  /\ results = [l \in Logs |-> "none"]
  /\ cancels = [l \in Logs |-> "nil"]
  /\ received = {}
  /\ proc = [c \in Calls |-> "timer"]
  /\ counted = [g \in Groups |-> 0]
  /\ race = [g \in Groups |-> "wait"]
  /\ success = [g \in Groups |-> FALSE]
  /\ complete = [g \in Groups |-> FALSE]
  /\ seen = {}
  /\ main = "collect"
  /\ ret = [scts |-> {}, err |-> FALSE]

Goto(g, l, pc) == proc' = [proc EXCEPT ![<<g, l>>] = pc]

-----------------------------------------------------------------------------
(* The same code with a slip in it: what the properties must notice.       *)

\* request does not look whether anybody still awaits the log.
RequestUnawaited(g, l) ==
  /\ proc[<<g, l>>] = "request"
  /\ \/ /\ results[l] # "none"
        /\ Goto(g, l, "done")
        /\ UNCHANGED <<results, cancels>>
     \/ /\ results[l] = "none"
        /\ results' = [results EXCEPT ![l] = "empty"]
        /\ cancels' = [cancels EXCEPT ![l] = "set"]
        /\ Goto(g, l, "submit")
  /\ UNCHANGED <<session, clock, ctxDone, needs, received, races, getSCTs>>

-----------------------------------------------------------------------------
(* The goroutine of group g for log l.                                     *)

\* Its context is done before its timer fires.
TimerCancelled(g, l) ==
  /\ proc[<<g, l>>] = "timer"
  /\ ctxDone
  /\ Goto(g, l, "done")
  /\ UNCHANGED <<session, clock, ctxDone, state, races, getSCTs>>

\* Its timer has fired, after the delay of its position in the session, and
\* it asks whether its group still needs SCTs.
CheckGroup(g, l) ==
  /\ proc[<<g, l>>] = "timer"
  /\ clock >= Delay[g][session[g][l]]
  /\ Goto(g, l, IF GroupComplete(g) THEN "done" ELSE "request")
  /\ UNCHANGED <<session, clock, ctxDone, state, races, getSCTs>>

\* request: nothing to do when the log was requested before, by whichever
\* group; the log is marked as requested even when nobody awaits it.
Request(g, l) ==
  /\ proc[<<g, l>>] = "request"
  /\ \/ /\ results[l] # "none"
        /\ Goto(g, l, "done")
        /\ UNCHANGED <<results, cancels>>
     \/ /\ results[l] = "none"
        /\ results' = [results EXCEPT ![l] = "empty"]
        /\ cancels' = [cancels EXCEPT ![l] = IF Awaited(l) THEN "set" ELSE @]
        /\ Goto(g, l, IF Awaited(l) THEN "submit" ELSE "done")
  /\ UNCHANGED <<session, clock, ctxDone, needs, received, races, getSCTs>>

\* setResult with an SCT: kept if some group needs it, counted for all of the
\* log's groups; requests that no group awaits any more are cancelled.
SubmitSCT(g, l) ==
  /\ proc[<<g, l>>] = "submit"
  /\ received' = received \cup {l}
  /\ results' = [results EXCEPT ![l] = IF Awaited(l) THEN "sct" ELSE @]
  /\ needs' = [h \in Groups |-> IF h \in GroupsOf(l) THEN needs[h] - 1 ELSE needs[h]]
  /\ cancels' = [k \in Logs |->
       IF cancels[k] = "set" /\ ~Awaited(k)' THEN "called"
                                                               ELSE cancels[k]]
  /\ Goto(g, l, "done")
  /\ UNCHANGED <<session, clock, ctxDone, races, getSCTs>>

\* setResult with an error.
SubmitError(g, l) ==
  /\ proc[<<g, l>>] = "submit"
  /\ results' = [results EXCEPT ![l] = "err"]
  /\ Goto(g, l, "done")
  /\ UNCHANGED <<session, clock, ctxDone, needs, cancels, received, races, getSCTs>>

-----------------------------------------------------------------------------
(* The race of group g waits for its goroutines.                           *)

Report(g, ok) ==
  /\ race' = [race EXCEPT ![g] = "done"]
  /\ success' = [success EXCEPT ![g] = ok]

\* One more goroutine is over; the race ends if the group is complete then.
RaceCount(g) ==
  /\ race[g] = "wait"
  /\ counted[g] < Cardinality(Finished(g))
  /\ counted' = [counted EXCEPT ![g] = @ + 1]
  /\ \/ GroupComplete(g) /\ Report(g, TRUE)
     \/ ~GroupComplete(g) /\ UNCHANGED <<race, success>>
  /\ UNCHANGED <<session, clock, ctxDone, state, proc, getSCTs>>

\* All goroutines are over: the last look at the group.
RaceFinal(g) ==
  /\ race[g] = "wait"
  /\ counted[g] = Cardinality(GroupLogs[g])
  /\ Report(g, GroupComplete(g))
  /\ UNCHANGED <<session, clock, ctxDone, state, proc, counted, getSCTs>>

RaceCancelled(g) ==
  /\ race[g] = "wait"
  /\ ctxDone
  /\ counted[g] < Cardinality(GroupLogs[g])
  /\ Report(g, GroupComplete(g))
  /\ UNCHANGED <<session, clock, ctxDone, state, proc, counted, getSCTs>>

-----------------------------------------------------------------------------
(* GetSCTs.                                                                *)

\* It receives the event of a race.
CollectEvent(g) ==
  /\ main = "collect"
  /\ race[g] = "done"
  /\ g \notin seen
  /\ seen' = seen \cup {g}
  /\ complete' = [complete EXCEPT ![g] = success[g]]
  /\ UNCHANGED <<session, clock, ctxDone, state, proc, races, main, ret>>

\* It returns the SCTs collected so far, with an error if a group lacks some:
\* after the last event, or as soon as its context is done.
Return ==
  /\ main = "collect"
  /\ seen = Groups \/ ctxDone
  /\ main' = "returned"
  /\ ret' = [scts |-> Stored, err |-> \E g \in Groups : ~complete[g]]
  /\ UNCHANGED <<session, clock, ctxDone, state, proc, races, complete, seen>>

CancelContext ==
  /\ ~ctxDone
  /\ ctxDone' = TRUE
  /\ UNCHANGED <<session, clock, state, proc, races, getSCTs>>

Tick ==
  /\ clock < MaxClock
  /\ clock' = clock + 1
  /\ UNCHANGED <<session, ctxDone, state, proc, races, getSCTs>>

AllDone ==
  /\ main = "returned"
  /\ \A g \in Groups : race[g] = "done" /\ Finished(g) = GroupLogs[g]
  /\ UNCHANGED vars

CallStep(g, l) ==
  \/ TimerCancelled(g, l) \/ CheckGroup(g, l)
  \/ Request(g, l) \/ SubmitSCT(g, l) \/ SubmitError(g, l)

RaceStep(g) == RaceCount(g) \/ RaceFinal(g) \/ RaceCancelled(g) \/ CollectEvent(g)

Next ==
  \/ \E g \in Groups : RaceStep(g) \/ \E l \in GroupLogs[g] : CallStep(g, l)
  \/ Return \/ CancelContext \/ Tick \/ AllDone

Spec == Init /\ [][Next]_vars

\* Goroutines run, time passes, and every log answers or fails in the end
\* (the client's HTTP timeout sees to that).
FairSpec ==
  /\ Spec
  /\ WF_vars(Tick) /\ WF_vars(Return)
  /\ \A g \in Groups : WF_vars(RaceStep(g))
  /\ \A g \in Groups : \A l \in GroupLogs[g] : WF_vars(CallStep(g, l))

-----------------------------------------------------------------------------
(* Safety.                                                                 *)

\* groupNeeds counts down exactly once per SCT received from the group, in
\* whatever order the logs of several groups answer.
NeedsExact ==
  \A g \in Groups :
    needs[g] = MinInclusions[g] - Cardinality(received \cap GroupLogs[g])

\* An SCT is dumped only when all groups of its log were complete already: a
\* group either has enough stored SCTs or has lost none.
NoNeededSCTDumped ==
  \A g \in Groups : \/ Cardinality(Stored \cap GroupLogs[g]) >= MinInclusions[g]
                    \/ received \cap GroupLogs[g] \subseteq Stored

\* However many groups a log belongs to, at most one goroutine submits to it.
NoDoubleSubmission ==
  \A l \in Logs : \A g, h \in GroupsOf(l) :
    proc[<<g, l>>] = "submit" /\ proc[<<h, l>>] = "submit" => g = h

\* submissionState, shared by the races of groups that overlap: whatever order
\* their goroutines and the logs' answers come in, no log is asked twice, each
\* SCT counts once for every group of its log, and none is dumped that one of
\* them still needed.
SCTsCounted == NeedsExact /\ NoNeededSCTDumped /\ NoDoubleSubmission

\* GetSCTs reports no error only with SCTs that satisfy every group.
NoErrorMeansPolicyMet == main = "returned" /\ ~ret.err => Satisfies(ret.scts)

\* A request in flight that no group awaits has been cancelled.
UnneededCancelled ==
  \A g \in Groups : \A l \in GroupLogs[g] :
    proc[<<g, l>>] = "submit" /\ ~Awaited(l) => cancels[l] = "called"

\* A request is not cancelled while a group awaits its log.
NeededNotCancelled == \A l \in Logs : cancels[l] = "called" => ~Awaited(l)

\* submissionState: a request in flight is cancelled exactly when no group
\* awaits its log any more.
CancelledExactly == UnneededCancelled /\ NeededNotCancelled

-----------------------------------------------------------------------------
(* The strengthening that makes the safety properties inductive.           *)

\* A log being submitted to has been requested, has not answered, and can be
\* cancelled; a log that answered has been requested.
RequestInv ==
  /\ \A c \in Calls : proc[c] = "submit" =>
       results[c[2]] = "empty" /\ c[2] \notin received /\ cancels[c[2]] # "nil"
  /\ \A l \in received : results[l] # "none"

\* A race reports success, and GetSCTs notes it, only for a complete group.
SuccessInv ==
  /\ \A g \in Groups : success[g] => needs[g] <= 0 /\ race[g] = "done"
  /\ \A g \in Groups : complete[g] => success[g]

IInv == /\ TypeOK /\ RequestInv /\ SuccessInv /\ NeedsExact /\ NoNeededSCTDumped
        /\ NoDoubleSubmission /\ UnneededCancelled /\ NeededNotCancelled
        /\ NoErrorMeansPolicyMet

-----------------------------------------------------------------------------
(* Liveness.                                                               *)

\* GetSCTs returns, and all of its goroutines end, even when it returned
\* early and nobody listens to them any more.
AllGoroutinesEnd ==
  <>(/\ main = "returned"
     /\ \A g \in Groups : race[g] = "done" /\ Finished(g) = GroupLogs[g])

-----------------------------------------------------------------------------
(* What a comment of the source says and the code does not do.             *)

\* Distributor.AddChain: "May emit both SCTs array and error when SCTs
\* collected do not satisfy the policy": an error with SCTs that do satisfy it
\* is not announced.  (Without a context timeout.)
ErrorMeansPolicyNotMet ==
  main = "returned" /\ ret.err /\ ~ctxDone => ~Satisfies(ret.scts)
=============================================================================
