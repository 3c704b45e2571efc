------------------------ MODULE SubmissionRaceProofs ------------------------
(***************************************************************************)
(* Proofs about SubmissionRace: for all finite sets of logs, any groups    *)
(* over them, overlapping as they may, and any minimal numbers.  And about *)
(* the groups themselves (LogGroup, CTPolicy), for every certificate       *)
(* lifetime and every finite list of logs.                                 *)
(***************************************************************************)
EXTENDS SubmissionRace, LogGroup, FiniteSetTheorems, TLAPS

\* The logs of a group are countable, whatever subset is looked at.
LEMMA GroupFinite ==
  ASSUME NEW S, NEW g \in Groups
  PROVE  IsFiniteSet(S \cap GroupLogs[g]) /\ Cardinality(S \cap GroupLogs[g]) \in Nat
<1>1. IsFiniteSet(GroupLogs[g])
  BY RaceAssumption, FS_Subset
<1>2. IsFiniteSet(S \cap GroupLogs[g])
  BY <1>1, FS_Subset
<1> QED
  BY <1>2, FS_CardinalityType

\* A goroutine belongs to a group and one of its logs.
LEMMA CallFacts ==
  ASSUME NEW g \in Groups, NEW l \in GroupLogs[g]
  PROVE  l \in Logs /\ <<g, l>> \in Calls /\ g \in GroupsOf(l)
  BY RaceAssumption DEF Calls, GroupsOf

LEMMA InitEstablishes == Init => IInv
<1> SUFFICES ASSUME Init PROVE IInv
  OBVIOUS
<1>1. TypeOK
  <2>1. \A g \in Groups : session[g] \in [GroupLogs[g] -> Nat]
    <3> TAKE g \in Groups
    <3>1. IsFiniteSet(GroupLogs[g])
      BY RaceAssumption, FS_Subset
    <3>2. Cardinality(GroupLogs[g]) \in Nat
      BY <3>1, FS_CardinalityType
    <3>3. session[g] \in [GroupLogs[g] -> 0 .. Cardinality(GroupLogs[g]) - 1]
      BY DEF Init, Sessions
    <3> QED
      BY <3>2, <3>3
  <2>2. needs \in [Groups -> Int]
    BY RaceAssumption DEF Init
  <2>3. clock \in 0 .. MaxClock
    BY RaceAssumption DEF Init
  <2> QED
    BY <2>1, <2>2, <2>3 DEF Init, TypeOK
<1>2. \A g \in Groups : received \cap GroupLogs[g] = {}
  BY DEF Init
<1>3. NeedsExact
  <2> SUFFICES ASSUME NEW g \in Groups
               PROVE  needs[g] = MinInclusions[g] - Cardinality(received \cap GroupLogs[g])
    BY DEF NeedsExact
  <2> QED
    BY <1>2, RaceAssumption, FS_EmptySet DEF Init
<1>4. NoNeededSCTDumped
  BY <1>2 DEF NoNeededSCTDumped
<1>5. RequestInv /\ SuccessInv
  BY DEF Init, RequestInv, SuccessInv
<1>6. NoDoubleSubmission /\ UnneededCancelled
  <2>1. \A g \in Groups : \A l \in GroupLogs[g] : proc[<<g, l>>] # "submit"
    BY CallFacts DEF Init
  <2> QED
    BY <2>1 DEF NoDoubleSubmission, UnneededCancelled, GroupsOf
<1>7. NeededNotCancelled /\ NoErrorMeansPolicyMet
  BY DEF Init, NeededNotCancelled, NoErrorMeansPolicyMet
<1> QED
  BY <1>1, <1>3, <1>4, <1>5, <1>6, <1>7 DEF IInv

-----------------------------------------------------------------------------
LEMMA TypeStep == TypeOK /\ [Next]_vars => TypeOK'
<1> SUFFICES ASSUME TypeOK, [Next]_vars PROVE TypeOK'
  OBVIOUS
<1> USE DEF TypeOK, state, races, getSCTs
<1>1. ASSUME NEW g \in Groups, NEW l \in GroupLogs[g], CallStep(g, l) PROVE TypeOK'
  <2>1. l \in Logs /\ <<g, l>> \in Calls
    BY CallFacts
  <2>2. CASE TimerCancelled(g, l) \/ CheckGroup(g, l)
    BY <2>1, <2>2 DEF TimerCancelled, CheckGroup, Goto
  <2>3. CASE Request(g, l)
    BY <2>1, <2>3 DEF Request, Goto
  <2>4. CASE SubmitSCT(g, l)
    BY <2>1, <2>4 DEF SubmitSCT, Goto
  <2>5. CASE SubmitError(g, l)
    BY <2>1, <2>5 DEF SubmitError, Goto
  <2> QED
    BY <1>1, <2>2, <2>3, <2>4, <2>5 DEF CallStep
<1>2. ASSUME NEW g \in Groups, RaceStep(g) PROVE TypeOK'
  <2>1. GroupComplete(g) \in BOOLEAN
    BY DEF GroupComplete
  <2>2. CASE RaceCount(g)
    <3>1. counted' \in [Groups -> Nat]
      BY <2>2 DEF RaceCount
    <3>2. race' \in [Groups -> {"wait", "done"}] /\ success' \in [Groups -> BOOLEAN]
      <4>1. CASE Report(g, TRUE)
        BY <4>1 DEF Report
      <4> QED
        BY <2>2, <4>1 DEF RaceCount
    <3> QED
      BY <2>2, <3>1, <3>2 DEF RaceCount
  <2>3. CASE RaceFinal(g) \/ RaceCancelled(g)
    BY <2>1, <2>3 DEF RaceFinal, RaceCancelled, Report
  <2>4. CASE CollectEvent(g)
    BY <2>4 DEF CollectEvent
  <2> QED
    BY <1>2, <2>2, <2>3, <2>4 DEF RaceStep
<1>3. CASE Return
  BY <1>3 DEF Return, Stored
<1>4. CASE CancelContext \/ AllDone \/ UNCHANGED vars
  BY <1>4 DEF CancelContext, AllDone, vars
<1>5. CASE Tick
  BY <1>5, RaceAssumption DEF Tick
<1> QED
  BY <1>1, <1>2, <1>3, <1>4, <1>5 DEF Next

\* A step that is not a goroutine's leaves the shared state and the goroutines
\* alone.
LEMMA OtherSteps ==
  ASSUME [Next]_vars,
         ~ \E g \in Groups : \E l \in GroupLogs[g] : CallStep(g, l)
  PROVE  UNCHANGED <<needs, results, cancels, received, proc>>
  BY DEF Next, RaceStep, RaceCount, RaceFinal, RaceCancelled, CollectEvent, Return,
         CancelContext, Tick, AllDone, vars, state

\* Needs never grow.
LEMMA NeedsMonotone ==
  ASSUME TypeOK, [Next]_vars
  PROVE  \A g \in Groups : needs'[g] <= needs[g]
<1>1. ASSUME NEW g \in Groups, NEW l \in GroupLogs[g], CallStep(g, l)
      PROVE  \A h \in Groups : needs'[h] <= needs[h]
  BY <1>1 DEF TypeOK, CallStep, TimerCancelled, CheckGroup, Request, SubmitSCT,
              SubmitError, state
<1>2. CASE ~ \E g \in Groups : \E l \in GroupLogs[g] : CallStep(g, l)
  BY <1>2, OtherSteps DEF TypeOK
<1> QED
  BY <1>1, <1>2

-----------------------------------------------------------------------------
(* The invariant's parts, one lemma each.                                  *)

\* A log is submitted to at most once, and knows about it.
LEMMA RequestStep == IInv /\ [Next]_vars => RequestInv' /\ NoDoubleSubmission'
<1> SUFFICES ASSUME IInv, [Next]_vars PROVE RequestInv' /\ NoDoubleSubmission'
  OBVIOUS
<1> USE DEF IInv, TypeOK
<1>a. /\ \A h \in Groups : \A k \in GroupLogs[h] : proc[<<h, k>>] = "submit" =>
           results[k] = "empty" /\ k \notin received /\ cancels[k] # "nil"
      /\ \A k \in received : results[k] # "none"
  BY CallFacts DEF RequestInv
<1>b. \A h1, h2 \in Groups : \A k \in GroupLogs[h1] \cap GroupLogs[h2] :
        proc[<<h1, k>>] = "submit" /\ proc[<<h2, k>>] = "submit" => h1 = h2
  BY CallFacts DEF NoDoubleSubmission
<1> DEFINE Goal ==
        /\ \A h \in Groups : \A k \in GroupLogs[h] : proc'[<<h, k>>] = "submit" =>
             results'[k] = "empty" /\ k \notin received' /\ cancels'[k] # "nil"
        /\ \A k \in received' : results'[k] # "none"
        /\ \A h1, h2 \in Groups : \A k \in GroupLogs[h1] \cap GroupLogs[h2] :
             proc'[<<h1, k>>] = "submit" /\ proc'[<<h2, k>>] = "submit" => h1 = h2
<1>c. SUFFICES Goal
  BY DEF RequestInv, NoDoubleSubmission, Calls, GroupsOf
<1>1. ASSUME NEW g \in Groups, NEW l \in GroupLogs[g], CallStep(g, l)
      PROVE  Goal
  <2>1. l \in Logs /\ <<g, l>> \in Calls
    BY CallFacts
  <2>2. \A h \in Groups : \A k \in GroupLogs[h] : k \in Logs /\ <<h, k>> \in Calls
    BY CallFacts
  <2>3. CASE TimerCancelled(g, l) \/ CheckGroup(g, l)
    <3>1. /\ UNCHANGED <<results, received, cancels>>
          /\ \E pc \in {"done", "request"} : proc' = [proc EXCEPT ![<<g, l>>] = pc]
      BY <2>3 DEF TimerCancelled, CheckGroup, Goto, state
    <3> QED
      BY <1>a, <1>b, <2>1, <2>2, <3>1
  <2>4. CASE Request(g, l)
    <3>1. CASE results[l] # "none"
      <4>1. /\ proc' = [proc EXCEPT ![<<g, l>>] = "done"]
            /\ UNCHANGED <<results, received, cancels>>
        BY <2>4, <3>1 DEF Request, Goto
      <4> QED
        BY <1>a, <1>b, <2>1, <2>2, <4>1
    <3>2. CASE results[l] = "none"
      <4>1. /\ results' = [results EXCEPT ![l] = "empty"]
            /\ cancels' = [cancels EXCEPT ![l] = IF Awaited(l) THEN "set" ELSE @]
            /\ proc' = [proc EXCEPT ![<<g, l>>] = IF Awaited(l) THEN "submit" ELSE "done"]
            /\ received' = received
        BY <2>4, <3>2 DEF Request, Goto
      <4>2. \A h \in Groups : l \in GroupLogs[h] => proc[<<h, l>>] # "submit"
        BY <1>a, <3>2
      <4>3. l \notin received
        BY <1>a, <3>2
      <4>4. ASSUME NEW h \in Groups, NEW k \in GroupLogs[h], proc'[<<h, k>>] = "submit"
            PROVE  \/ h = g /\ k = l /\ Awaited(l)
                   \/ k # l /\ proc[<<h, k>>] = "submit"
        BY <2>1, <2>2, <4>1, <4>2, <4>4
      <4> QED
        BY <1>a, <1>b, <2>1, <2>2, <4>1, <4>3, <4>4
    <3> QED
      BY <3>1, <3>2
  <2>5. CASE SubmitSCT(g, l) \/ SubmitError(g, l)
    <3>1. /\ proc[<<g, l>>] = "submit"
          /\ proc' = [proc EXCEPT ![<<g, l>>] = "done"]
          /\ received' \subseteq received \cup {l}
          /\ \E r \in {"sct", "err", results[l]} : results' = [results EXCEPT ![l] = r]
          /\ \A k \in Logs : cancels[k] # "nil" => cancels'[k] # "nil"
      BY <2>1, <2>5 DEF SubmitSCT, SubmitError, Goto
    <3>2. results[l] = "empty"
      BY <1>a, <3>1
    <3>3. ASSUME NEW h \in Groups, NEW k \in GroupLogs[h], proc'[<<h, k>>] = "submit"
          PROVE  k # l /\ proc[<<h, k>>] = "submit"
      BY <1>b, <2>1, <2>2, <3>1, <3>3
    <3> QED
      BY <1>a, <1>b, <2>1, <2>2, <3>1, <3>2, <3>3
  <2> QED
    BY <1>1, <2>3, <2>4, <2>5 DEF CallStep
<1>2. CASE ~ \E g \in Groups : \E l \in GroupLogs[g] : CallStep(g, l)
  BY <1>2, <1>a, <1>b, OtherSteps
<1> QED
  BY <1>1, <1>2

\* Adding one log to a set of SCTs, seen from one group.
LEMMA OneMore ==
  ASSUME NEW S, NEW l, NEW g \in Groups, l \notin S
  PROVE  /\ l \in GroupLogs[g] => Cardinality((S \cup {l}) \cap GroupLogs[g]) =
                                   Cardinality(S \cap GroupLogs[g]) + 1
         /\ l \notin GroupLogs[g] => Cardinality((S \cup {l}) \cap GroupLogs[g]) =
                                      Cardinality(S \cap GroupLogs[g])
<1>1. CASE l \in GroupLogs[g]
  <2>1. (S \cup {l}) \cap GroupLogs[g] = (S \cap GroupLogs[g]) \cup {l}
    BY <1>1
  <2>2. l \notin S \cap GroupLogs[g]
    OBVIOUS
  <2>3. Cardinality((S \cap GroupLogs[g]) \cup {l}) = Cardinality(S \cap GroupLogs[g]) + 1
    BY <2>2, GroupFinite, FS_AddElement
  <2> QED
    BY <1>1, <2>1, <2>3
<1>2. CASE l \notin GroupLogs[g]
  <2>1. (S \cup {l}) \cap GroupLogs[g] = S \cap GroupLogs[g]
    BY <1>2
  <2> QED
    BY <1>2, <2>1
<1> QED
  BY <1>1, <1>2

\* More SCTs are not fewer in any group.
LEMMA NotFewer ==
  ASSUME NEW S, NEW T, S \subseteq T, NEW g \in Groups
  PROVE  Cardinality(S \cap GroupLogs[g]) <= Cardinality(T \cap GroupLogs[g])
<1>1. S \cap GroupLogs[g] \subseteq T \cap GroupLogs[g]
  OBVIOUS
<1> QED
  BY <1>1, GroupFinite, FS_Subset

\* The counts stay exact and no group loses an SCT it needs.
LEMMA NeedsStep == IInv /\ [Next]_vars => NeedsExact' /\ NoNeededSCTDumped'
<1> SUFFICES ASSUME IInv, [Next]_vars PROVE NeedsExact' /\ NoNeededSCTDumped'
  OBVIOUS
<1> USE DEF IInv, TypeOK
<1>1. ASSUME UNCHANGED <<needs, received>>,
             \A l \in Logs : results[l] = "sct" <=> results'[l] = "sct"
      PROVE  NeedsExact' /\ NoNeededSCTDumped'
  <2>1. Stored' = Stored
    BY <1>1 DEF Stored
  <2> QED
    BY <1>1, <2>1 DEF NeedsExact, NoNeededSCTDumped
<1>2. ASSUME NEW g \in Groups, NEW l \in GroupLogs[g], CallStep(g, l)
      PROVE  NeedsExact' /\ NoNeededSCTDumped'
  <2>1. l \in Logs /\ <<g, l>> \in Calls /\ g \in GroupsOf(l)
    BY CallFacts
  <2>2. CASE TimerCancelled(g, l) \/ CheckGroup(g, l)
    BY <1>1, <2>2 DEF TimerCancelled, CheckGroup, state
  <2>3. CASE Request(g, l)
    <3>1. UNCHANGED <<needs, received>>
      BY <2>3 DEF Request
    <3>2. \A k \in Logs : results[k] = "sct" <=> results'[k] = "sct"
      BY <2>1, <2>3 DEF Request
    <3> QED
      BY <1>1, <3>1, <3>2
  <2>4. CASE SubmitError(g, l)
    <3>1. results[l] = "empty"
      BY <2>1, <2>4 DEF SubmitError, RequestInv
    <3>2. \A k \in Logs : results[k] = "sct" <=> results'[k] = "sct"
      BY <2>1, <2>4, <3>1 DEF SubmitError
    <3> QED
      BY <1>1, <2>4, <3>2 DEF SubmitError
  <2>5. CASE SubmitSCT(g, l)
    <3>1. /\ received' = received \cup {l}
          /\ results' = [results EXCEPT ![l] = IF Awaited(l) THEN "sct" ELSE @]
          /\ needs' = [h \in Groups |-> IF h \in GroupsOf(l) THEN needs[h] - 1 ELSE needs[h]]
          /\ proc[<<g, l>>] = "submit"
      BY <2>5 DEF SubmitSCT
    <3>2. results[l] = "empty" /\ l \notin received
      BY <2>1, <3>1 DEF RequestInv
    <3>3. Stored' = IF Awaited(l) THEN Stored \cup {l} ELSE Stored
      BY <2>1, <3>1, <3>2 DEF Stored
    <3>4. NeedsExact'
      <4> SUFFICES ASSUME NEW h \in Groups
                   PROVE  needs'[h] = MinInclusions[h] - Cardinality(received' \cap GroupLogs[h])
        BY DEF NeedsExact
      <4>1. needs[h] = MinInclusions[h] - Cardinality(received \cap GroupLogs[h])
        BY DEF NeedsExact
      <4>2. /\ l \in GroupLogs[h] => Cardinality(received' \cap GroupLogs[h]) =
                                        Cardinality(received \cap GroupLogs[h]) + 1
            /\ l \notin GroupLogs[h] => Cardinality(received' \cap GroupLogs[h]) =
                                           Cardinality(received \cap GroupLogs[h])
        <5>0. l \notin received
          BY <3>2
        <5>1. /\ l \in GroupLogs[h] => Cardinality((received \cup {l}) \cap GroupLogs[h]) =
                                          Cardinality(received \cap GroupLogs[h]) + 1
              /\ l \notin GroupLogs[h] => Cardinality((received \cup {l}) \cap GroupLogs[h]) =
                                             Cardinality(received \cap GroupLogs[h])
          BY ONLY <5>0, OneMore, h \in Groups, Zenon
        <5>2. received' = received \cup {l}
          BY <3>1
        <5> QED
          BY ONLY <5>1, <5>2
      <4>3. needs'[h] = IF l \in GroupLogs[h] THEN needs[h] - 1 ELSE needs[h]
        BY <3>1 DEF GroupsOf
      <4>4. /\ Cardinality(received \cap GroupLogs[h]) \in Nat
            /\ MinInclusions[h] \in Nat
        BY GroupFinite, RaceAssumption
      <4>5. CASE l \in GroupLogs[h]
        <5>1. needs'[h] = needs[h] - 1
          BY <4>3, <4>5
        <5>2. Cardinality(received' \cap GroupLogs[h]) = Cardinality(received \cap GroupLogs[h]) + 1
          BY <4>2, <4>5
        <5> QED
          BY ONLY <4>1, <4>4, <5>1, <5>2
      <4>6. CASE l \notin GroupLogs[h]
        <5>1. needs'[h] = needs[h]
          BY <4>3, <4>6
        <5>2. Cardinality(received' \cap GroupLogs[h]) = Cardinality(received \cap GroupLogs[h])
          BY <4>2, <4>6
        <5> QED
          BY ONLY <4>1, <5>1, <5>2
      <4> QED
        BY <4>5, <4>6
    <3>5. NoNeededSCTDumped'
      <4> SUFFICES ASSUME NEW h \in Groups
                   PROVE  \/ Cardinality(Stored' \cap GroupLogs[h]) >= MinInclusions[h]
                          \/ received' \cap GroupLogs[h] \subseteq Stored'
        BY DEF NoNeededSCTDumped
      <4>0. /\ Cardinality(Stored \cap GroupLogs[h]) \in Nat
            /\ Cardinality(Stored' \cap GroupLogs[h]) \in Nat
            /\ Cardinality(received \cap GroupLogs[h]) \in Nat
            /\ MinInclusions[h] \in Nat
        BY GroupFinite, RaceAssumption
      <4>1. CASE Cardinality(Stored \cap GroupLogs[h]) >= MinInclusions[h]
        <5>1. Cardinality(Stored \cap GroupLogs[h]) <= Cardinality(Stored' \cap GroupLogs[h])
          BY <3>3, NotFewer
        <5> QED
          BY <4>0, <4>1, <5>1
      <4>2. CASE received \cap GroupLogs[h] \subseteq Stored /\ (Awaited(l) \/ l \notin GroupLogs[h])
        BY <3>1, <3>3, <4>2
      <4>3. CASE received \cap GroupLogs[h] \subseteq Stored /\ ~Awaited(l) /\ l \in GroupLogs[h]
        <5>1. needs[h] <= 0
          BY <4>3 DEF Awaited, GroupsOf
        <5>a. needs[h] = MinInclusions[h] - Cardinality(received \cap GroupLogs[h])
          BY DEF NeedsExact
        <5>2. Cardinality(received \cap GroupLogs[h]) >= MinInclusions[h]
          BY <4>0, <5>1, <5>a
        <5>3. received \cap GroupLogs[h] = (received \cap GroupLogs[h]) \cap GroupLogs[h]
          OBVIOUS
        <5>4. Cardinality(received \cap GroupLogs[h]) <= Cardinality(Stored \cap GroupLogs[h])
          BY <4>3, <5>3, NotFewer
        <5> QED
          BY <3>3, <4>0, <4>3, <5>2, <5>4
      <4> QED
        BY <4>1, <4>2, <4>3 DEF NoNeededSCTDumped
    <3> QED
      BY <3>4, <3>5
  <2> QED
    BY <1>2, <2>2, <2>3, <2>4, <2>5 DEF CallStep
<1>3. CASE ~ \E g \in Groups : \E l \in GroupLogs[g] : CallStep(g, l)
  BY <1>1, <1>3, OtherSteps
<1> QED
  BY <1>2, <1>3

\* Requests are cancelled when, and only when, no group awaits them.
LEMMA CancelStep == IInv /\ [Next]_vars => UnneededCancelled' /\ NeededNotCancelled'
<1> SUFFICES ASSUME IInv, [Next]_vars PROVE UnneededCancelled' /\ NeededNotCancelled'
  OBVIOUS
<1> USE DEF IInv, TypeOK
<1>a. \A k \in Logs : Awaited(k)' => Awaited(k)
  <2>1. \A h \in Groups : needs'[h] <= needs[h] /\ needs[h] \in Int /\ needs'[h] \in Int
    BY NeedsMonotone, TypeStep
  <2> QED
    BY <2>1 DEF Awaited, GroupsOf
<1>b. \A h \in Groups : \A k \in GroupLogs[h] :
        proc[<<h, k>>] = "submit" /\ ~Awaited(k) => cancels[k] = "called"
  BY DEF UnneededCancelled
<1>c. \A k \in Logs : cancels[k] = "called" => ~Awaited(k)
  BY DEF NeededNotCancelled
<1> DEFINE Goal ==
      /\ \A h \in Groups : \A k \in GroupLogs[h] :
           proc'[<<h, k>>] = "submit" /\ ~Awaited(k)' => cancels'[k] = "called"
      /\ \A k \in Logs : cancels'[k] = "called" => ~Awaited(k)'
<1>d. SUFFICES Goal
  BY DEF UnneededCancelled, NeededNotCancelled
<1>e. \A h \in Groups : \A k \in GroupLogs[h] : k \in Logs /\ <<h, k>> \in Calls
  BY CallFacts
<1>1. ASSUME NEW g \in Groups, NEW l \in GroupLogs[g], CallStep(g, l)
      PROVE  Goal
  <2>1. l \in Logs /\ <<g, l>> \in Calls
    BY <1>e
  <2>2. CASE TimerCancelled(g, l) \/ CheckGroup(g, l) \/ SubmitError(g, l)
    <3>1. /\ UNCHANGED <<needs, cancels>>
          /\ \E pc \in {"done", "request"} : proc' = [proc EXCEPT ![<<g, l>>] = pc]
      BY <2>2 DEF TimerCancelled, CheckGroup, SubmitError, Goto, state
    <3>2. \A k \in Logs : Awaited(k)' <=> Awaited(k)
      BY <3>1 DEF Awaited
    <3> QED
      BY <1>b, <1>c, <1>e, <2>1, <3>1, <3>2
  <2>3. CASE Request(g, l)
    <3>1. \A k \in Logs : Awaited(k)' <=> Awaited(k)
      BY <2>3 DEF Request, Awaited
    <3>2. CASE results[l] # "none"
      <4>1. cancels' = cancels /\ proc' = [proc EXCEPT ![<<g, l>>] = "done"]
        BY <2>3, <3>2 DEF Request, Goto
      <4> QED
        BY <1>b, <1>c, <1>e, <2>1, <3>1, <4>1
    <3>3. CASE results[l] = "none"
      <4>1. /\ cancels' = [cancels EXCEPT ![l] = IF Awaited(l) THEN "set" ELSE @]
            /\ proc' = [proc EXCEPT ![<<g, l>>] = IF Awaited(l) THEN "submit" ELSE "done"]
        BY <2>3, <3>3 DEF Request, Goto
      <4>2. CASE Awaited(l)
        BY <1>b, <1>c, <1>e, <2>1, <3>1, <4>1, <4>2
      <4>3. CASE ~Awaited(l)
        BY <1>b, <1>c, <1>e, <2>1, <3>1, <4>1, <4>3
      <4> QED
        BY <4>2, <4>3
    <3> QED
      BY <3>2, <3>3
  <2>4. CASE SubmitSCT(g, l)
    <3>1. /\ cancels' = [k \in Logs |->
               IF cancels[k] = "set" /\ ~Awaited(k)' THEN "called" ELSE cancels[k]]
          /\ proc' = [proc EXCEPT ![<<g, l>>] = "done"]
      BY <2>4 DEF SubmitSCT, Goto
    <3>2. \A h \in Groups : \A k \in GroupLogs[h] :
            proc'[<<h, k>>] = "submit" => proc[<<h, k>>] = "submit"
      BY <1>e, <2>1, <3>1
    <3>3. \A h \in Groups : \A k \in GroupLogs[h] :
            proc[<<h, k>>] = "submit" => cancels[k] \in {"set", "called"}
      BY <1>e DEF RequestInv
    <3>4. \A k \in Logs : cancels'[k] = "called" => ~Awaited(k)'
      BY <1>a, <1>c, <3>1
    <3>5. ASSUME NEW h \in Groups, NEW k \in GroupLogs[h],
                 proc'[<<h, k>>] = "submit", ~Awaited(k)'
          PROVE  cancels'[k] = "called"
      BY <1>e, <3>1, <3>2, <3>3, <3>5
    <3> QED
      BY <3>4, <3>5
  <2> QED
    BY <1>1, <2>2, <2>3, <2>4 DEF CallStep
<1>2. CASE ~ \E g \in Groups : \E l \in GroupLogs[g] : CallStep(g, l)
  <2>1. UNCHANGED <<needs, cancels, proc>>
    BY <1>2, OtherSteps
  <2>2. \A k \in Logs : Awaited(k)' <=> Awaited(k)
    BY <2>1 DEF Awaited
  <2> QED
    BY <1>b, <1>c, <1>e, <2>1, <2>2
<1> QED
  BY <1>1, <1>2

\* A group that has all it needs has it in the stored SCTs.
LEMMA CompleteIsStored ==
  ASSUME IInv, NEW g \in Groups, needs[g] <= 0
  PROVE  Cardinality(Stored \cap GroupLogs[g]) >= MinInclusions[g]
<1>1. needs[g] = MinInclusions[g] - Cardinality(received \cap GroupLogs[g])
  BY DEF IInv, NeedsExact
<1>2. /\ Cardinality(received \cap GroupLogs[g]) \in Nat
      /\ Cardinality(Stored \cap GroupLogs[g]) \in Nat
      /\ MinInclusions[g] \in Nat
  BY GroupFinite, RaceAssumption
<1>3. Cardinality(received \cap GroupLogs[g]) >= MinInclusions[g]
  BY <1>1, <1>2
<1>4. ASSUME received \cap GroupLogs[g] \subseteq Stored
      PROVE  Cardinality(received \cap GroupLogs[g]) <= Cardinality(Stored \cap GroupLogs[g])
  <2>1. received \cap GroupLogs[g] = (received \cap GroupLogs[g]) \cap GroupLogs[g]
    OBVIOUS
  <2> QED
    BY <1>4, <2>1, NotFewer
<1> QED
  BY <1>2, <1>3, <1>4 DEF IInv, NoNeededSCTDumped

\* Success is reported for complete groups only, and a return without error
\* comes with SCTs that satisfy the policy.
LEMMA SuccessStep == IInv /\ [Next]_vars => SuccessInv' /\ NoErrorMeansPolicyMet'
<1> SUFFICES ASSUME IInv, [Next]_vars PROVE SuccessInv' /\ NoErrorMeansPolicyMet'
  OBVIOUS
<1>a. \A h \in Groups : needs'[h] <= needs[h] /\ needs[h] \in Int /\ needs'[h] \in Int
  BY NeedsMonotone, TypeStep DEF IInv, TypeOK
<1>b. /\ \A h \in Groups : success[h] => needs[h] <= 0 /\ race[h] = "done"
      /\ \A h \in Groups : complete[h] => success[h]
  BY DEF IInv, SuccessInv
<1>c. /\ success \in [Groups -> BOOLEAN] /\ complete \in [Groups -> BOOLEAN]
      /\ race \in [Groups -> {"wait", "done"}]
  BY DEF IInv, TypeOK
<1>1. ASSUME UNCHANGED <<main, ret>> PROVE NoErrorMeansPolicyMet'
  BY <1>1 DEF IInv, NoErrorMeansPolicyMet, Satisfies
<1>2. CASE UNCHANGED <<success, race, complete, main, ret>>
  <2>1. SuccessInv'
    BY <1>2, <1>a, <1>b DEF SuccessInv
  <2> QED
    BY <1>1, <1>2, <2>1
<1>3. ASSUME NEW g \in Groups, RaceCount(g) \/ RaceFinal(g) \/ RaceCancelled(g)
      PROVE  SuccessInv' /\ NoErrorMeansPolicyMet'
  <2>1. UNCHANGED <<needs, complete, main, ret>> /\ race[g] = "wait"
    BY <1>3 DEF RaceCount, RaceFinal, RaceCancelled, state, getSCTs
  <2>2. \/ UNCHANGED <<success, race>>
        \/ /\ race' = [race EXCEPT ![g] = "done"]
           /\ success' = [success EXCEPT ![g] = GroupComplete(g)]
    <3>1. CASE RaceCount(g)
      <4>1. CASE GroupComplete(g)
        <5>1. GroupComplete(g) = TRUE
          BY <4>1 DEF GroupComplete
        <5> QED
          BY <3>1, <4>1, <5>1 DEF RaceCount, Report
      <4>2. CASE ~GroupComplete(g)
        BY <3>1, <4>2 DEF RaceCount
      <4> QED
        BY <4>1, <4>2
    <3>2. CASE RaceFinal(g) \/ RaceCancelled(g)
      BY <3>2 DEF RaceFinal, RaceCancelled, Report
    <3> QED
      BY <1>3, <3>1, <3>2
  <2>3. CASE UNCHANGED <<success, race>>
    BY <1>2, <2>1, <2>3
  <2>4. CASE /\ race' = [race EXCEPT ![g] = "done"]
             /\ success' = [success EXCEPT ![g] = GroupComplete(g)]
    <3>1. ~success[g] /\ ~complete[g]
      BY <1>b, <2>1
    <3>2. race'[g] = "done" /\ (success'[g] => needs'[g] <= 0)
      BY <1>c, <2>1, <2>4 DEF GroupComplete
    <3>3. \A h \in Groups : h # g => success'[h] = success[h] /\ race'[h] = race[h]
      BY <1>c, <2>4
    <3>4. SuccessInv'
      BY <1>b, <2>1, <3>1, <3>2, <3>3 DEF SuccessInv
    <3> QED
      BY <1>1, <2>1, <3>4
  <2> QED
    BY <2>2, <2>3, <2>4
<1>4. ASSUME NEW g \in Groups, CollectEvent(g)
      PROVE  SuccessInv' /\ NoErrorMeansPolicyMet'
  <2>1. /\ UNCHANGED <<needs, success, race, main, ret>>
        /\ complete' = [complete EXCEPT ![g] = success[g]]
    BY <1>4 DEF CollectEvent, state, races
  <2>2. SuccessInv'
    BY <1>b, <1>c, <2>1 DEF SuccessInv
  <2> QED
    BY <1>1, <2>1, <2>2
<1>5. CASE Return
  <2>1. /\ UNCHANGED <<needs, success, race, complete>>
        /\ ret' = [scts |-> Stored, err |-> \E g \in Groups : ~complete[g]]
    BY <1>5 DEF Return, state, races
  <2>2. ASSUME ~ret'.err PROVE Satisfies(ret'.scts)
    <3>1. ret'.scts = Stored /\ \A g \in Groups : complete[g]
      BY <2>1, <2>2
    <3>2. \A g \in Groups : needs[g] <= 0
      BY <1>b, <3>1
    <3>3. \A g \in Groups : Cardinality(Stored \cap GroupLogs[g]) >= MinInclusions[g]
      BY <3>2, CompleteIsStored
    <3> QED
      BY <3>1, <3>3 DEF Satisfies
  <2>3. SuccessInv'
    BY <1>b, <2>1 DEF SuccessInv
  <2>4. Satisfies(ret.scts)' = Satisfies(ret'.scts)
    BY DEF Satisfies
  <2> QED
    BY <2>2, <2>3, <2>4 DEF NoErrorMeansPolicyMet
<1>6. ASSUME NEW g \in Groups, NEW l \in GroupLogs[g], CallStep(g, l)
      PROVE  UNCHANGED <<success, race, complete, main, ret>>
  BY <1>6 DEF CallStep, TimerCancelled, CheckGroup, Request, SubmitSCT, SubmitError,
              races, getSCTs
<1>7. CASE CancelContext \/ Tick \/ AllDone \/ UNCHANGED vars
  BY <1>2, <1>7 DEF CancelContext, Tick, AllDone, vars, races, getSCTs
<1> QED
  BY <1>2, <1>3, <1>4, <1>5, <1>6, <1>7 DEF Next, RaceStep

-----------------------------------------------------------------------------
(* The theorems.                                                           *)

\* The strengthened invariant holds in every reachable state.
THEOREM Inductive == Spec => []IInv
<1>1. IInv /\ [Next]_vars => IInv'
  BY TypeStep, RequestStep, NeedsStep, CancelStep, SuccessStep DEF IInv
<1> QED
  BY InitEstablishes, <1>1, PTL DEF Spec

\* GetSCTs returns without error only with SCTs that satisfy every group.
THEOREM PolicyMet == Spec => []NoErrorMeansPolicyMet
<1>1. IInv => NoErrorMeansPolicyMet
  BY DEF IInv
<1> QED
  BY Inductive, <1>1, PTL

\* The groups' needs are exact, no SCT a group needs is dumped, and no log is
\* submitted to by two goroutines.
THEOREM SharedStateCorrect == Spec => []SCTsCounted
<1>1. IInv => SCTsCounted
  BY DEF IInv, SCTsCounted
<1> QED
  BY Inductive, <1>1, PTL

\* A request in flight is cancelled when, and only when, no group awaits it.
THEOREM CancelledIffUnneeded == Spec => []CancelledExactly
<1>1. IInv => CancelledExactly
  BY DEF IInv, CancelledExactly
<1> QED
  BY Inductive, <1>1, PTL

-----------------------------------------------------------------------------
(* The policy that a race is run for, and the groups it is run over.        *)

\* The weights are those of the group's logs, and enough of them are positive.
GroupInv == SessionReachesMinimum /\ logWeights \in [logURLs -> Int]

\* Whatever sequence of SetLogWeights and SetLogWeight calls is accepted, the
\* logs that a session of the group may contain are enough for its minimal
\* number of inclusions: each call checks the weights it is about to store,
\* including those it leaves as they were.
THEOREM SessionsSuffice ==
  IsFiniteSet(AllLogs) /\ GroupInit /\ [][GroupNext]_groupVars => []SessionReachesMinimum
<1>1. IsFiniteSet(AllLogs) /\ GroupInit => GroupInv
  <2> SUFFICES ASSUME IsFiniteSet(AllLogs), GroupInit PROVE GroupInv
    OBVIOUS
  <2>1. Session = logURLs
    BY DEF GroupInit, Session
  <2>2. Cardinality(logURLs) \in Nat
    BY FS_Subset, FS_CardinalityType DEF GroupInit
  <2> QED
    BY <2>1, <2>2 DEF GroupInit, GroupInv, SessionReachesMinimum
<1>2. GroupInv /\ [GroupNext]_groupVars => GroupInv'
  <2> SUFFICES ASSUME GroupInv, [GroupNext]_groupVars PROVE GroupInv'
    OBVIOUS
  <2>1. ASSUME NEW S \in SUBSET AllLogs, NEW weights \in [S -> -1 .. MaxWeight], SetLogWeights(weights)
        PROVE  GroupInv'
    <3>1. PICK positive : positive = {l \in DOMAIN weights \cap logURLs : weights[l] > 0}
      OBVIOUS
    <3>2. Cardinality(positive) >= minInclusions
      BY <2>1, <3>1 DEF SetLogWeights, SatisfyMinimalInclusion
    <3>3. logWeights' \in [logURLs' -> Int]
      BY <2>1 DEF SetLogWeights
    <3>4. {l \in logURLs' : logWeights'[l] > 0} = positive
      BY <2>1, <3>1 DEF SetLogWeights
    <3> QED
      BY <2>1, <3>2, <3>3, <3>4 DEF GroupInv, SessionReachesMinimum, SetLogWeights, Session
  <2>2. ASSUME NEW k \in AllLogs, NEW w \in -1 .. MaxWeight, SetLogWeight(k, w)
        PROVE  GroupInv'
    <3>1. PICK weights : weights = [logWeights EXCEPT ![k] = w]
      OBVIOUS
    <3>2. PICK positive : positive = {l \in DOMAIN weights \cap logURLs : weights[l] > 0}
      OBVIOUS
    <3>3. SatisfyMinimalInclusion(weights) /\ logWeights' = weights
      BY <2>2, <3>1 DEF SetLogWeight
    <3>4. Cardinality(positive) >= minInclusions
      BY <3>2, <3>3 DEF SatisfyMinimalInclusion
    <3>5. logWeights' \in [logURLs' -> Int]
      BY <2>2 DEF SetLogWeight, GroupInv
    <3>6. {l \in logURLs' : logWeights'[l] > 0} = positive
      BY <2>2, <3>2, <3>3, <3>5 DEF SetLogWeight
    <3> QED
      BY <2>2, <3>4, <3>5, <3>6 DEF GroupInv, SessionReachesMinimum, SetLogWeight, Session
  <2>3. CASE UNCHANGED groupVars
    BY <2>3 DEF GroupInv, SessionReachesMinimum, Session, groupVars
  <2> QED
    BY <2>1, <2>2, <2>3 DEF GroupNext
<1>3. GroupInv => SessionReachesMinimum
  BY DEF GroupInv
<1> QED
  BY <1>1, <1>2, <1>3, PTL

\* The groups of a policy, and a minimal number for each.
Policies(groups, ll) == [groups -> [logs : SUBSET DOMAIN ll, min : Nat]]

\* At least one element.
LEMMA AtLeastOne ==
  ASSUME NEW S, IsFiniteSet(S)
  PROVE  Cardinality(S) >= 1 <=> \E x \in S : TRUE
<1>1. Cardinality(S) \in Nat
  BY FS_CardinalityType
<1>2. Cardinality(S) = 0 <=> S = {}
  BY FS_EmptySet
<1> QED
  BY <1>1, <1>2

\* ChromeLogsByGroup before setMinInclusions has its say.
LEMMA ChromeGroups ==
  ASSUME NEW months \in Int, NEW ll, NEW p,
         p = [g \in {GoogleGroup, NonGoogleGroup, Base} |->
               CASE g = GoogleGroup    -> Group(ll, {Google}, 1)
                 [] g = NonGoogleGroup -> Group(ll, Operators(ll) \ {Google}, 1)
                 [] g = Base           -> Group(ll, Operators(ll), IncCount(months))]
  PROVE  /\ DOMAIN p = {GoogleGroup, NonGoogleGroup, Base}
         /\ p[GoogleGroup] = [logs |-> {l \in DOMAIN ll : ll[l] = Google}, min |-> 1]
         /\ p[NonGoogleGroup] = [logs |-> {l \in DOMAIN ll : ll[l] # Google}, min |-> 1]
         /\ p[Base] = [logs |-> DOMAIN ll, min |-> IncCount(months)]
         /\ IncCount(months) \in 2 .. 5
         /\ p \in Policies({GoogleGroup, NonGoogleGroup, Base}, ll)
<1>1. IncCount(months) \in 2 .. 5
  BY DEF IncCount
<1>2. Group(ll, {Google}, 1) = [logs |-> {l \in DOMAIN ll : ll[l] = Google}, min |-> 1]
  BY DEF Group
<1>3. Group(ll, Operators(ll) \ {Google}, 1) = [logs |-> {l \in DOMAIN ll : ll[l] # Google}, min |-> 1]
  BY DEF Group, Operators
<1>4. Group(ll, Operators(ll), IncCount(months)) = [logs |-> DOMAIN ll, min |-> IncCount(months)]
  BY DEF Group, Operators
<1>5. /\ p[GoogleGroup] = Group(ll, {Google}, 1)
      /\ p[NonGoogleGroup] = Group(ll, Operators(ll) \ {Google}, 1)
      /\ p[Base] = Group(ll, Operators(ll), IncCount(months))
      /\ DOMAIN p = {GoogleGroup, NonGoogleGroup, Base}
  BY DEF GoogleGroup, NonGoogleGroup, Base
<1>6. \A g \in DOMAIN p : p[g] \in [logs : SUBSET DOMAIN ll, min : Nat]
  <2>1. p[GoogleGroup] \in [logs : SUBSET DOMAIN ll, min : Nat]
    BY <1>2, <1>5
  <2>2. p[NonGoogleGroup] \in [logs : SUBSET DOMAIN ll, min : Nat]
    BY <1>3, <1>5
  <2>3. p[Base] \in [logs : SUBSET DOMAIN ll, min : Nat]
    BY <1>1, <1>4, <1>5
  <2> QED
    BY <1>5, <2>1, <2>2, <2>3
<1> QED
  BY <1>1, <1>2, <1>3, <1>4, <1>5, <1>6 DEF Policies

\* LogsByGroup of Chrome's policy, for any lifetime and any list of logs.  It
\* returns an error exactly when no set of the listed logs would meet the
\* policy; the minimal numbers of all its groups are reached exactly by the
\* sets of logs that meet it; and what it returns satisfies the assumption on
\* groups that the theorems about the race start from.
THEOREM ChromePolicyDecides ==
  ASSUME NEW months \in Int, NEW ll, IsFiniteSet(DOMAIN ll),
         NoPolicy \notin Policies({GoogleGroup, NonGoogleGroup, Base}, ll),
         NEW p, p = ChromeLogsByGroup(months, ll)
  PROVE  /\ p = NoPolicy <=> ~\E S \in SUBSET DOMAIN ll : MeetsChrome(months, ll, S)
         /\ p # NoPolicy =>
              /\ \A g \in DOMAIN p : p[g].min \in Nat /\ p[g].min <= Cardinality(p[g].logs)
              /\ \A S \in SUBSET DOMAIN ll :
                   (\A g \in DOMAIN p : Cardinality(S \cap p[g].logs) >= p[g].min)
                     <=> MeetsChrome(months, ll, S)
<1>1. PICK q : q = [g \in {GoogleGroup, NonGoogleGroup, Base} |->
                     CASE g = GoogleGroup    -> Group(ll, {Google}, 1)
                       [] g = NonGoogleGroup -> Group(ll, Operators(ll) \ {Google}, 1)
                       [] g = Base           -> Group(ll, Operators(ll), IncCount(months))]
  OBVIOUS
<1>2. p = OrError(q)
  BY <1>1 DEF ChromeLogsByGroup
<1>3. /\ DOMAIN q = {GoogleGroup, NonGoogleGroup, Base}
      /\ q[GoogleGroup] = [logs |-> {l \in DOMAIN ll : ll[l] = Google}, min |-> 1]
      /\ q[NonGoogleGroup] = [logs |-> {l \in DOMAIN ll : ll[l] # Google}, min |-> 1]
      /\ q[Base] = [logs |-> DOMAIN ll, min |-> IncCount(months)]
      /\ IncCount(months) \in 2 .. 5
      /\ q # NoPolicy
  BY <1>1, ChromeGroups
<1>4. p # NoPolicy => p = q
  BY <1>2 DEF OrError
<1>5. \A g \in DOMAIN q : /\ q[g].logs \subseteq DOMAIN ll /\ q[g].min \in Nat
                         /\ Cardinality(q[g].logs) \in Nat
  <2>1. \A g \in DOMAIN q : q[g].logs \subseteq DOMAIN ll /\ q[g].min \in Nat
    BY <1>3
  <2>2. \A T \in SUBSET DOMAIN ll : Cardinality(T) \in Nat
    BY FS_Subset, FS_CardinalityType
  <2> QED
    BY <2>1, <2>2
<1>6. \A S \in SUBSET DOMAIN ll :
        (\A g \in DOMAIN q : Cardinality(S \cap q[g].logs) >= q[g].min) <=> MeetsChrome(months, ll, S)
  <2> TAKE S \in SUBSET DOMAIN ll
  <2>1. Cardinality(S \cap q[GoogleGroup].logs) >= 1 <=> \E a \in S : ll[a] = Google
    <3>1. IsFiniteSet(S \cap q[GoogleGroup].logs)
      BY FS_Subset
    <3>2. (\E a \in S \cap q[GoogleGroup].logs : TRUE) <=> \E a \in S : ll[a] = Google
      BY <1>3
    <3> QED
      BY <3>1, <3>2, AtLeastOne
  <2>2. Cardinality(S \cap q[NonGoogleGroup].logs) >= 1 <=> \E b \in S : ll[b] # Google
    <3>1. IsFiniteSet(S \cap q[NonGoogleGroup].logs)
      BY FS_Subset
    <3>2. (\E b \in S \cap q[NonGoogleGroup].logs : TRUE) <=> \E b \in S : ll[b] # Google
      BY <1>3
    <3> QED
      BY <3>1, <3>2, AtLeastOne
  <2>3. S \cap q[Base].logs = S
    BY <1>3
  <2>4. (\A g \in DOMAIN q : Cardinality(S \cap q[g].logs) >= q[g].min) <=>
          /\ Cardinality(S \cap q[GoogleGroup].logs) >= 1
          /\ Cardinality(S \cap q[NonGoogleGroup].logs) >= 1
          /\ Cardinality(S \cap q[Base].logs) >= IncCount(months)
    BY <1>3
  <2> QED
    BY <2>1, <2>2, <2>3, <2>4 DEF MeetsChrome
<1>7. p = NoPolicy <=> \E g \in DOMAIN q : q[g].min > Cardinality(q[g].logs)
  BY <1>2, <1>3 DEF OrError
<1>8. p = NoPolicy <=> ~\A g \in DOMAIN q : Cardinality(DOMAIN ll \cap q[g].logs) >= q[g].min
  <2>1. \A g \in DOMAIN q : DOMAIN ll \cap q[g].logs = q[g].logs
    BY <1>5
  <2>2. \A g \in DOMAIN q : q[g].min > Cardinality(q[g].logs) <=> ~(Cardinality(q[g].logs) >= q[g].min)
    BY <1>5
  <2> QED
    BY <1>7, <2>1, <2>2
<1>9. \A S \in SUBSET DOMAIN ll : MeetsChrome(months, ll, S) => MeetsChrome(months, ll, DOMAIN ll)
  <2> TAKE S \in SUBSET DOMAIN ll
  <2> HAVE MeetsChrome(months, ll, S)
  <2>1. /\ Cardinality(S) \in Nat /\ Cardinality(DOMAIN ll) \in Nat
        /\ Cardinality(S) <= Cardinality(DOMAIN ll)
    BY FS_Subset, FS_CardinalityType
  <2> QED
    BY <1>3, <2>1 DEF MeetsChrome
<1>10. p = NoPolicy <=> ~\E S \in SUBSET DOMAIN ll : MeetsChrome(months, ll, S)
  BY <1>6, <1>8, <1>9
<1>11. p # NoPolicy => \A g \in DOMAIN p : p[g].min \in Nat /\ p[g].min <= Cardinality(p[g].logs)
  BY <1>4, <1>5, <1>7
<1> QED
  BY <1>4, <1>6, <1>10, <1>11

\* Policy and race together: when the race runs over the groups that Chrome's
\* policy gives for the usable logs, and GetSCTs returns no error, the logs of
\* the SCTs it returns meet Chrome's policy for the certificate's lifetime.
THEOREM RaceMeetsChrome ==
  ASSUME NEW CONSTANT months \in Int, NEW CONSTANT ll,
         NoPolicy \notin Policies({GoogleGroup, NonGoogleGroup, Base}, ll),
         NEW CONSTANT p, p = ChromeLogsByGroup(months, ll), p # NoPolicy,
         Logs = DOMAIN ll, Groups = DOMAIN p,
         \A g \in Groups : GroupLogs[g] = p[g].logs /\ MinInclusions[g] = p[g].min
  PROVE  Spec => [](main = "returned" /\ ~ret.err => MeetsChrome(months, ll, ret.scts))
<1>1. IInv => (main = "returned" /\ ~ret.err => MeetsChrome(months, ll, ret.scts))
  <2> SUFFICES ASSUME IInv, main = "returned", ~ret.err PROVE MeetsChrome(months, ll, ret.scts)
    OBVIOUS
  <2>1. ret.scts \in SUBSET DOMAIN ll
    BY DEF IInv, TypeOK
  <2>2. \A g \in DOMAIN p : Cardinality(ret.scts \cap p[g].logs) >= p[g].min
    BY DEF IInv, NoErrorMeansPolicyMet, Satisfies
  <2>3. IsFiniteSet(DOMAIN ll)
    BY RaceAssumption
  <2> QED
    BY <2>1, <2>2, <2>3, ChromePolicyDecides
<1> QED
  BY Inductive, <1>1, PTL

-----------------------------------------------------------------------------
(* ctpolicy and parallelNums.                                               *)

\* One step of the recursion in SumFunction.
SumStep(g, f, s) ==
  IF s = {} THEN 0 ELSE LET x == CHOOSE y \in s : TRUE IN f[x] + g[s \ {x}]
IsSum(g, f, S) == g = [s \in SUBSET S |-> SumStep(g, f, s)]

\* SumFunction is a value of the function the recursion defines.
LEMMA SumUnfold ==
  ASSUME NEW f
  PROVE  SumFunction(f) =
           (CHOOSE g : g = [s \in SUBSET (DOMAIN f) |-> SumStep(g, f, s)])[DOMAIN f]
  BY DEF SumFunction, SumFunctionOnSet, FoldFunctionOnSet, MapThenFoldSet, SumStep

\* There is such a function over three elements, or two when they repeat.
LEMMA SumExists ==
  ASSUME NEW a, NEW b, NEW c, a # b, NEW f \in [{a, b, c} -> Int], c = a \/ (c # a /\ c # b)
  PROVE  \E g : IsSum(g, f, {a, b, c})
<1> DEFINE V(x, s) == IF x \in s THEN f[x] ELSE 0
           C(s) == IF c = a THEN 0 ELSE V(c, s)
           G == [s \in SUBSET {a, b, c} |-> V(a, s) + V(b, s) + C(s)]
<1>1. ASSUME NEW s \in SUBSET {a, b, c} PROVE G[s] = SumStep(G, f, s)
  <2>1. CASE s = {}
    BY <2>1 DEF SumStep
  <2>2. CASE s # {}
    <3>1. PICK x : x = CHOOSE y \in s : TRUE
      OBVIOUS
    <3>2. x \in s
      BY <2>2, <3>1
    <3>3. SumStep(G, f, s) = f[x] + G[s \ {x}]
      BY <2>2, <3>1 DEF SumStep
    <3>4. f[a] \in Int /\ f[b] \in Int /\ f[c] \in Int
      OBVIOUS
    <3>5. s \ {x} \in SUBSET {a, b, c}
      OBVIOUS
    <3>6. G[s] = V(a, s) + V(b, s) + C(s) /\ G[s \ {x}] = V(a, s \ {x}) + V(b, s \ {x}) + C(s \ {x})
      BY <3>5
    <3>7. V(a, s \ {x}) = (IF x = a THEN 0 ELSE V(a, s)) /\ V(b, s \ {x}) = (IF x = b THEN 0 ELSE V(b, s))
      OBVIOUS
    <3>8. C(s \ {x}) = IF x = c THEN 0 ELSE C(s)
      OBVIOUS
    <3>9. G[s] = f[x] + G[s \ {x}]
      <4>1. V(a, s) \in Int /\ V(b, s) \in Int /\ C(s) \in Int
        BY <3>4
      <4>2. CASE x = a
        <5>1. V(a, s) = f[a] /\ C(s \ {x}) = C(s)
          BY <3>2, <3>8, <4>2
        <5> HIDE DEF V, C, G
        <5> QED
          BY <3>4, <3>6, <3>7, <4>1, <4>2, <5>1
      <4>3. CASE x = b
        <5>1. V(b, s) = f[b] /\ C(s \ {x}) = C(s)
          BY <3>2, <3>8, <4>3
        <5> HIDE DEF V, C, G
        <5> QED
          BY <3>4, <3>6, <3>7, <4>1, <4>3, <5>1
      <4>4. CASE x = c /\ x # a
        <5>1. C(s) = f[c] /\ C(s \ {x}) = 0
          BY <3>2, <3>8, <4>4
        <5> HIDE DEF V, C, G
        <5> QED
          BY <3>4, <3>6, <3>7, <4>1, <4>4, <5>1
      <4> QED
        BY <3>2, <4>2, <4>3, <4>4
    <3> QED
      BY <3>3, <3>9
  <2> QED
    BY <2>1, <2>2
<1>2. G = [s \in SUBSET {a, b, c} |-> G[s]]
  OBVIOUS
<1> HIDE DEF G
<1>3. IsSum(G, f, {a, b, c})
  BY <1>1, <1>2 DEF IsSum
<1> QED
  BY <1>3

\* What such a function is on up to three elements.
LEMMA SumValues ==
  ASSUME NEW S, NEW f \in [S -> Int], NEW g, IsSum(g, f, S)
  PROVE  /\ g[{}] = 0
         /\ \A x \in S : g[{x}] = f[x]
         /\ \A x, y \in S : x # y => g[{x, y}] = f[x] + f[y]
         /\ \A x, y, z \in S : x # y /\ x # z /\ y # z => g[{x, y, z}] = f[x] + f[y] + f[z]
<1>1. \A s \in SUBSET S : g[s] = SumStep(g, f, s)
  BY DEF IsSum
<1>2. \A s \in SUBSET S : s # {} => \E x \in s : g[s] = f[x] + g[s \ {x}]
  <2> TAKE s \in SUBSET S
  <2> HAVE s # {}
  <2>1. PICK x : x = CHOOSE y \in s : TRUE
    OBVIOUS
  <2>2. x \in s
    BY <2>1
  <2>3. g[s] = f[x] + g[s \ {x}]
    BY <1>1, <2>1 DEF SumStep
  <2> QED
    BY <2>2, <2>3
<1>3. g[{}] = 0
  BY <1>1 DEF SumStep
<1>4. ASSUME NEW x \in S PROVE g[{x}] = f[x]
  <2>1. {x} \ {x} = {} /\ {x} \in SUBSET S /\ {x} # {}
    OBVIOUS
  <2>2. g[{x}] = f[x] + g[{x} \ {x}]
    BY <1>2, <2>1
  <2> QED
    BY <1>3, <2>1, <2>2
<1>5. ASSUME NEW x \in S, NEW y \in S, x # y PROVE g[{x, y}] = f[x] + f[y]
  <2>1. {x, y} \ {x} = {y} /\ {x, y} \ {y} = {x} /\ {x, y} \in SUBSET S /\ {x, y} # {}
    BY <1>5
  <2>2. PICK u \in {x, y} : g[{x, y}] = f[u] + g[{x, y} \ {u}]
    BY <1>2, <2>1
  <2>3. g[{x}] = f[x] /\ g[{y}] = f[y] /\ f[x] \in Int /\ f[y] \in Int
    BY <1>4
  <2>4. g[{x, y}] = f[x] + g[{y}] \/ g[{x, y}] = f[y] + g[{x}]
    BY <2>1, <2>2
  <2>5. PICK i \in Int, j \in Int : i = f[x] /\ j = f[y]
    BY <2>3
  <2>6. g[{x, y}] = i + j \/ g[{x, y}] = j + i
    BY <2>3, <2>4, <2>5
  <2>7. i + j = j + i
    OBVIOUS
  <2> QED
    BY <2>5, <2>6, <2>7
<1>6. ASSUME NEW x \in S, NEW y \in S, NEW z \in S, x # y, x # z, y # z
      PROVE  g[{x, y, z}] = f[x] + f[y] + f[z]
  <2>1. /\ {x, y, z} \ {x} = {y, z} /\ {x, y, z} \ {y} = {x, z} /\ {x, y, z} \ {z} = {x, y}
        /\ {x, y, z} \in SUBSET S /\ {x, y, z} # {}
    BY <1>6
  <2>2. PICK u \in {x, y, z} : g[{x, y, z}] = f[u] + g[{x, y, z} \ {u}]
    BY <1>2, <2>1
  <2>3. /\ g[{y, z}] = f[y] + f[z] /\ g[{x, z}] = f[x] + f[z] /\ g[{x, y}] = f[x] + f[y]
        /\ f[x] \in Int /\ f[y] \in Int /\ f[z] \in Int
    BY <1>5, <1>6
  <2>4. \/ g[{x, y, z}] = f[x] + g[{y, z}] \/ g[{x, y, z}] = f[y] + g[{x, z}]
        \/ g[{x, y, z}] = f[z] + g[{x, y}]
    BY <2>1, <2>2
  <2>5. PICK i \in Int, j \in Int, k \in Int : i = f[x] /\ j = f[y] /\ k = f[z]
    BY <2>3
  <2>6. \/ g[{x, y, z}] = i + (j + k) \/ g[{x, y, z}] = j + (i + k)
        \/ g[{x, y, z}] = k + (i + j)
    BY <2>3, <2>4, <2>5
  <2>7. i + (j + k) = i + j + k /\ j + (i + k) = i + j + k /\ k + (i + j) = i + j + k
    OBVIOUS
  <2> QED
    BY <2>5, <2>6, <2>7
<1> QED
  BY <1>3, <1>4, <1>5, <1>6

\* The sum of the values is one of the function's.
LEMMA SumIs ==
  ASSUME NEW S, NEW f \in [S -> Int], \E h : IsSum(h, f, S)
  PROVE  \E g : IsSum(g, f, S) /\ SumFunction(f) = g[S]
<1> DEFINE g == CHOOSE h : h = [s \in SUBSET S |-> SumStep(h, f, s)]
<1>1. IsSum(g, f, S)
  <2>1. \E h : h = [s \in SUBSET S |-> SumStep(h, f, s)]
    BY Zenon DEF IsSum
  <2>2. g = [s \in SUBSET S |-> SumStep(g, f, s)]
    BY <2>1
  <2> QED
    BY <2>2 DEF IsSum
<1>2. DOMAIN f = S
  OBVIOUS
<1>3. SumFunction(f) = g[S]
  BY <1>2, SumUnfold
<1> QED
  BY <1>1, <1>3, Zenon

\* The sum of two numbers.
LEMMA SumOfTwo ==
  ASSUME NEW S, NEW f \in [S -> Int], NEW a, NEW b, a # b, S = {a, b}
  PROVE  SumFunction(f) = f[a] + f[b]
<1>1. PICK c : c = a
  OBVIOUS
<1>2. S = {a, b, c}
  BY <1>1
<1>3. \E h : IsSum(h, f, {a, b, c})
  BY <1>1, <1>2, SumExists
<1>4. \E h : IsSum(h, f, S)
  BY <1>2, <1>3
<1>5. PICK g : IsSum(g, f, S) /\ SumFunction(f) = g[S]
  BY <1>4, SumIs
<1>6. a \in S /\ b \in S
  OBVIOUS
<1>7. g[{a, b}] = f[a] + f[b]
  BY <1>5, <1>6, SumValues
<1> QED
  BY <1>5, <1>7

\* The sum of three numbers.
LEMMA SumOfThree ==
  ASSUME NEW S, NEW f \in [S -> Int], NEW a, NEW b, NEW c, a # b, a # c, b # c, S = {a, b, c}
  PROVE  SumFunction(f) = f[a] + f[b] + f[c]
<1>1. c = a \/ (c # a /\ c # b)
  OBVIOUS
<1>3. \E h : IsSum(h, f, {a, b, c})
  BY <1>1, SumExists
<1>4. \E h : IsSum(h, f, S)
  BY <1>3
<1>5. PICK g : IsSum(g, f, S) /\ SumFunction(f) = g[S]
  BY <1>4, SumIs
<1>6. a \in S /\ b \in S /\ c \in S
  OBVIOUS
<1>7. g[{a, b, c}] = f[a] + f[b] + f[c]
  BY <1>5, <1>6, SumValues
<1> QED
  BY <1>5, <1>7

\* Chrome's groups over the logs of a list, n inclusions in all.
ChromeShape(p, ll, n) ==
  /\ DOMAIN p = {GoogleGroup, NonGoogleGroup, Base}
  /\ p[GoogleGroup].min = 1 /\ p[NonGoogleGroup].min = 1 /\ p[Base].min = n
  /\ \A g \in DOMAIN p : p[g].logs \subseteq DOMAIN ll

\* How many requests such groups start at once.
ChromeStarts(nums, n) ==
  /\ SumFunction(nums) = n
  /\ nums[GoogleGroup] = 1 /\ nums[NonGoogleGroup] = 1 /\ nums[Base] = n - 2

\* The requests that Chrome's groups start at once.
LEMMA ChromeParallel ==
  ASSUME NEW p, NEW ll, NEW n \in 2 .. 5, ChromeShape(p, ll, n)
  PROVE  ChromeStarts(ParallelNums(p), n)
<1> DEFINE nums == ParallelNums(p)
<1>0. /\ DOMAIN p = {GoogleGroup, NonGoogleGroup, Base}
      /\ p[GoogleGroup].min = 1 /\ p[NonGoogleGroup].min = 1 /\ p[Base].min = n
  BY DEF ChromeShape
<1>1. GoogleGroup # NonGoogleGroup /\ GoogleGroup # Base /\ NonGoogleGroup # Base
  BY DEF GoogleGroup, NonGoogleGroup, Base
<1>2. PICK f : f = [g \in DOMAIN p \ {Base} |-> p[g].min]
  OBVIOUS
<1>3. PICK S : S = DOMAIN p \ {Base}
  OBVIOUS
<1>8. S = {GoogleGroup, NonGoogleGroup} /\ f \in [S -> Int] /\ f[GoogleGroup] = 1 /\ f[NonGoogleGroup] = 1
  <2>1. S = {GoogleGroup, NonGoogleGroup}
    BY <1>0, <1>1, <1>3
  <2> QED
    BY <1>0, <1>2, <1>3, <2>1
<1>4. SumFunction(f) = 2
  <2>1. SumFunction(f) = f[GoogleGroup] + f[NonGoogleGroup]
    BY <1>1, <1>8, SumOfTwo
  <2> QED
    BY <1>8, <2>1
<1>5. nums = [g \in DOMAIN p |->
               IF g # Base THEN p[g].min
               ELSE IF p[g].min >= SumFunction(f) THEN p[g].min - SumFunction(f) ELSE 0]
  BY <1>2 DEF ParallelNums
<1> HIDE DEF nums
<1>6. /\ nums[GoogleGroup] = 1 /\ nums[NonGoogleGroup] = 1 /\ nums[Base] = n - 2
      /\ nums \in [{GoogleGroup, NonGoogleGroup, Base} -> Int]
  <2>1. nums = [g \in {GoogleGroup, NonGoogleGroup, Base} |->
                 IF g # Base THEN p[g].min ELSE IF p[g].min >= 2 THEN p[g].min - 2 ELSE 0]
    BY <1>0, <1>4, <1>5
  <2>2. nums[GoogleGroup] = 1 /\ nums[NonGoogleGroup] = 1 /\ nums[Base] = n - 2
    BY <1>0, <1>1, <2>1
  <2>3. \A g \in {GoogleGroup, NonGoogleGroup, Base} : nums[g] \in Int
    BY <2>2
  <2> QED
    BY <2>1, <2>2, <2>3
<1>7. SumFunction(nums) = n
  <2>1. SumFunction(nums) = nums[GoogleGroup] + nums[NonGoogleGroup]
                              + nums[Base]
    <3>1. PICK T : T = {GoogleGroup, NonGoogleGroup, Base}
      OBVIOUS
    <3>2. nums \in [T -> Int]
      BY <1>6, <3>1
    <3> QED
      BY <1>1, <3>1, <3>2, SumOfThree
  <2> QED
    BY <1>6, <2>1
<1> QED
  BY <1>6, <1>7 DEF ChromeStarts, nums

\* LifetimeInMonths is the number of calendar months that fit between the dates.
LEMMA LifetimeFits ==
  ASSUME NEW from \in [y : Int, m : Int, d : Int], NEW to \in [y : Int, m : Int, d : Int],
         NEW n, n = LifetimeInMonths(from, to)
  PROVE  n \in Int /\ NotLater(Later(from, n), to) /\ ~NotLater(Later(from, n + 1), to)
<1>1. PICK x \in Int, y \in Int : x = from.y * 12 + from.m /\ y = to.y * 12 + to.m
  OBVIOUS
<1>2. PICK b \in {0, 1} : b = IF to.d < from.d THEN 1 ELSE 0
  OBVIOUS
<1>3. n = y - x - b
  BY <1>1, <1>2 DEF LifetimeInMonths
<1>4. n \in Int
  BY <1>3
<1>5. ASSUME NEW k \in Int
      PROVE  /\ Later(from, k).d = from.d
             /\ Later(from, k).y * 12 + Later(from, k).m = x + k
  BY <1>1 DEF Later
<1>6. ASSUME NEW k \in Int
      PROVE  NotLater(Later(from, k), to) <=> x + k < y \/ (x + k = y /\ from.d <= to.d)
  BY <1>1, <1>5 DEF NotLater
<1>7. NotLater(Later(from, n), to)
  BY <1>2, <1>3, <1>4, <1>6
<1>8. ~NotLater(Later(from, n + 1), to)
  <2>1. n + 1 \in Int
    BY <1>4
  <2> QED
    BY <1>2, <1>3, <1>6, <2>1
<1> QED
  BY <1>4, <1>7, <1>8

\* The groups of Chrome's policy when it is not refused.
LEMMA ChromeAccepted ==
  ASSUME NEW months \in Int, NEW ll, NEW p, p = ChromeLogsByGroup(months, ll), p # NoPolicy
  PROVE  ChromeShape(p, ll, IncCount(months))
<1>1. PICK q : q = [g \in {GoogleGroup, NonGoogleGroup, Base} |->
                     CASE g = GoogleGroup    -> Group(ll, {Google}, 1)
                       [] g = NonGoogleGroup -> Group(ll, Operators(ll) \ {Google}, 1)
                       [] g = Base           -> Group(ll, Operators(ll), IncCount(months))]
  OBVIOUS
<1>2. p = q
  BY <1>1 DEF ChromeLogsByGroup, OrError
<1>3. q[GoogleGroup] = Group(ll, {Google}, 1)
  BY <1>1 DEF GoogleGroup, NonGoogleGroup, Base
<1>4. q[NonGoogleGroup] = Group(ll, Operators(ll) \ {Google}, 1)
  BY <1>1 DEF GoogleGroup, NonGoogleGroup, Base
<1>5. q[Base] = Group(ll, Operators(ll), IncCount(months))
  BY <1>1 DEF GoogleGroup, NonGoogleGroup, Base
<1>6. DOMAIN q = {GoogleGroup, NonGoogleGroup, Base}
  BY <1>1
<1>7. q[GoogleGroup].min = 1 /\ q[GoogleGroup].logs \subseteq DOMAIN ll
  BY <1>3 DEF Group
<1>8. q[NonGoogleGroup].min = 1 /\ q[NonGoogleGroup].logs \subseteq DOMAIN ll
  BY <1>4 DEF Group
<1>9. q[Base].min = IncCount(months) /\ q[Base].logs \subseteq DOMAIN ll
  BY <1>5 DEF Group
<1> QED
  BY <1>2, <1>6, <1>7, <1>8, <1>9 DEF ChromeShape

\* ctpolicy and parallelNums for every pair of dates and every finite list of
\* logs: lifetimeInMonths counts the whole calendar months between the dates,
\* Chrome's policy is refused exactly when no set of the logs would meet it, and
\* its groups together start as many requests at once as it needs SCTs, none
\* more than it has logs.
THEOREM PolicyExactAlways ==
  ASSUME notBefore \in [y : Int, m : Int, d : Int], notAfter \in [y : Int, m : Int, d : Int],
         IsFiniteSet(DOMAIN logList),
         NoPolicy \notin Policies({GoogleGroup, NonGoogleGroup, Base}, logList)
  PROVE  PolicyExact
<1>1. PICK n : n = LifetimeInMonths(notBefore, notAfter)
  OBVIOUS
<1>7. PICK ll : ll = logList
  OBVIOUS
<1>2. PICK p : p = ChromeLogsByGroup(n, ll)
  OBVIOUS
<1>3. PICK nums : nums = ParallelNums(p)
  OBVIOUS
<1>4. n \in Int /\ NotLater(Later(notBefore, n), notAfter) /\ ~NotLater(Later(notBefore, n + 1), notAfter)
  BY <1>1, LifetimeFits
<1>5. /\ p = NoPolicy <=> ~\E S \in SUBSET DOMAIN ll : MeetsChrome(n, ll, S)
      /\ p # NoPolicy => \A g \in DOMAIN p : p[g].min \in Nat /\ p[g].min <= Cardinality(p[g].logs)
  BY <1>2, <1>4, <1>7, ChromePolicyDecides
<1>6. ASSUME p # NoPolicy
      PROVE  SumFunction(nums) = p[Base].min /\ \A g \in DOMAIN p : nums[g] <= Cardinality(p[g].logs)
  <2>8. PICK k \in 2 .. 5 : k = IncCount(n)
    BY <1>4 DEF IncCount
  <2>3. /\ DOMAIN p = {GoogleGroup, NonGoogleGroup, Base}
        /\ p[GoogleGroup].min = 1 /\ p[NonGoogleGroup].min = 1 /\ p[Base].min = k
        /\ \A g \in DOMAIN p : p[g].logs \subseteq DOMAIN ll
    <3>1. ChromeShape(p, ll, IncCount(n))
      BY <1>2, <1>4, <1>6, ChromeAccepted
    <3> QED
      BY <2>8, <3>1 DEF ChromeShape
  <2>4. /\ SumFunction(nums) = k
        /\ nums[GoogleGroup] = 1 /\ nums[NonGoogleGroup] = 1 /\ nums[Base] = k - 2
    <3>1. ChromeShape(p, ll, k)
      BY <2>3 DEF ChromeShape
    <3>2. ChromeStarts(ParallelNums(p), k)
      BY <3>1, ChromeParallel
    <3> QED
      BY <1>3, <3>2 DEF ChromeStarts
  <2>5. \A g \in DOMAIN p : /\ p[g].min \in Nat /\ p[g].min <= Cardinality(p[g].logs)
                            /\ nums[g] \in Int /\ nums[g] <= p[g].min
    BY <1>5, <1>6, <2>3, <2>4
  <2>6. \A g \in DOMAIN p : Cardinality(p[g].logs) \in Nat
    <3>1. \A T \in SUBSET DOMAIN ll : Cardinality(T) \in Nat
      BY <1>7, FS_Subset, FS_CardinalityType
    <3> QED
      BY <2>3, <3>1
  <2>7. \A g \in DOMAIN p : nums[g] <= Cardinality(p[g].logs)
    BY <2>5, <2>6
  <2> QED
    BY <2>3, <2>4, <2>7
<1> QED
  BY <1>1, <1>2, <1>3, <1>4, <1>5, <1>6, <1>7 DEF PolicyExact
=============================================================================
