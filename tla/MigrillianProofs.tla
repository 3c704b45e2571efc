--------------------------- MODULE MigrillianProofs ---------------------------
(***************************************************************************)
(* Proofs about Migrillian: MigrationExact for every set of options, number *)
(* of fetchers and submitters, batch and channel size, tree and lag, and   *)
(* any number of failures and lost masterships.                            *)
(***************************************************************************)
EXTENDS Migrillian, TLAPS

Tailing == {"fetch", "drain"}

InHand(i) == \E b \in handing : i \in b
Queued(i) == \E b \in queue : i \in b
Adding(i) == \E s \in Submitters : i \in adding[s]

\* What fetchTail's goroutines and channel hold at each control state: nothing
\* before StartFetch and after TailDone.
PipelineInv ==
  /\ pc \notin Tailing => todo = {} /\ queue = {} /\ \A s \in Submitters : sub[s] = "off"
  /\ pc # "fetch" => handing = {}
  /\ pc \in Tailing => \A s \in Submitters : sub[s] # "off"
  /\ \A s \in Submitters : sub[s] # "add" => adding[s] = {}

\* While nothing failed and mastership lasts, the Fetcher returns only when it
\* has fetched everything, and a submitter stops only on an empty channel.
StopInv ==
  /\ pc \in Tailing /\ cancelled => failed
  /\ pc = "drain" /\ ~failed /\ ~MctxDone => todo = {}
  /\ \A s \in Submitters : sub[s] = "stopped" /\ ~failed => pc = "drain" /\ queue = {}

\* Run's position and fetchTail's range.
RangeInv ==
  /\ root <= tree
  /\ Interval(0, tree) \subseteq stored
  /\ ~opts.Continuous => begin = 0 /\ pc \notin {"loop", "pause"}
  /\ pc \in Tailing \cup {"prepare"} => from = FirstIndex(root)
  /\ pc \in Tailing => to = LastIndex(sth) /\ begin < sth

\* No two places of the pipeline hold the same entry, and none outside the
\* range of fetchTail.
DisjointInv ==
  /\ \A i \in todo : ~InHand(i) /\ ~Queued(i) /\ from <= i /\ i < to
  /\ \A b \in handing : \A i \in b : ~Queued(i) /\ from <= i /\ i < to
  /\ \A b \in queue : \A i \in b : from <= i /\ i < to
  /\ \A b, c \in handing : b # c => b \cap c = {}
  /\ \A b, c \in queue : b # c => b \cap c = {}

\* Entries on their way to the submitters were not taken in this Run before,
\* since every fetchTail begins where the last one ended.
TakenInv ==
  /\ \A i \in Index : taken[i] <= 1
  /\ \A i \in Index : i \in todo \/ InHand(i) \/ Queued(i) => taken[i] = 0
  /\ pc \in {"root", "prepare", "loop", "pause"} =>
       \A i \in Index : taken[i] = 0 \/ i < begin
  /\ pc \in Tailing => \A i \in Index : taken[i] = 0 \/ i < begin \/ (from <= i /\ i < to)

\* Every entry of the range is in the pipeline or in Trillian.
CoverInv ==
  pc \in Tailing /\ ~failed /\ ~MctxDone =>
    \A i \in Interval(from, to) : i \in todo \/ InHand(i) \/ Queued(i) \/ Adding(i) \/ i \in stored

\* NoSilentGap for the whole of Run; a one-off Controller that ended well lost
\* its mastership, or added its range.
ProgressInv ==
  /\ opts.Continuous /\ ~failed /\ ~MctxDone
       /\ pc \in {"loop", "pause", "root", "prepare", "fetch", "drain"} =>
     Interval(0, begin) \subseteq stored
  /\ ~opts.Continuous /\ pc = "await" /\ outcome = "ok" => mctxDone
  /\ OneOffComplete

IInv ==
  /\ TypeOK /\ PipelineInv /\ StopInv /\ RangeInv
  /\ DisjointInv /\ TakenInv /\ CoverInv /\ ProgressInv

-----------------------------------------------------------------------------
(* Operators.                                                               *)

\* A batch is a nonempty part of what was left to fetch.
LEMMA BatchFacts ==
  ASSUME NEW S, NEW b \in Batches(S)
  PROVE  b # {} /\ b \subseteq S
  BY DEF Batches

\* fetchTail's range has natural bounds and begins at or after Run's position.
LEMMA RangeFacts ==
  ASSUME TypeOK, NEW size \in 0 .. MaxTree
  PROVE  /\ FirstIndex(size) \in Nat /\ begin <= FirstIndex(size)
         /\ LastIndex(size) \in Nat /\ LastIndex(size) <= size
         /\ opts.Continuous => /\ LastIndex(size) = size
                               /\ FirstIndex(size) = IF begin > size THEN begin ELSE size
  BY MigrillianAssumption DEF TypeOK, FirstIndex, LastIndex, Larger

-----------------------------------------------------------------------------
(* The inductive invariant, one lemma per conjunct.                         *)

\* A Controller that was just created satisfies the invariant.
LEMMA InitEstablishes == Init => IInv
<1> SUFFICES ASSUME Init PROVE IInv
  OBVIOUS
<1> USE MigrillianAssumption DEF Init
<1>1. TypeOK
  <2>1. taken \in [Index -> Nat]
    OBVIOUS
  <2>2. stored \subseteq Index /\ tree \in 0 .. MaxTree
    BY DEF Interval
  <2>3. adding \in [Submitters -> SUBSET Index]
    OBVIOUS
  <2>4. /\ losses \in 0 .. MaxLosses /\ failures \in 0 .. MaxFailures
        /\ begin \in 0 .. MaxTree /\ root \in 0 .. MaxTree /\ sth \in 0 .. MaxTree
        /\ from \in Nat /\ to \in Nat
    OBVIOUS
  <2> QED
    BY <2>1, <2>2, <2>3, <2>4, Zenon DEF TypeOK
<1>2. PipelineInv /\ StopInv /\ RangeInv
  BY DEF PipelineInv, StopInv, RangeInv, Tailing
<1>3. DisjointInv /\ TakenInv /\ CoverInv
  BY DEF DisjointInv, TakenInv, CoverInv, InHand, Queued, Tailing
<1>4. ProgressInv
  BY DEF ProgressInv, OneOffComplete
<1> QED
  BY <1>1, <1>2, <1>3, <1>4 DEF IInv

\* Every step keeps the types.
LEMMA TypeStep == TypeOK /\ [Next]_vars => TypeOK'
<1> SUFFICES ASSUME TypeOK, [Next]_vars PROVE TypeOK'
  OBVIOUS
<1> USE MigrillianAssumption DEF TypeOK
<1>1. CASE Elected \/ NotElected \/ Loop \/ Pause \/ TailFails
  BY <1>1 DEF Elected, NotElected, Loop, Pause, TailFails, RunReturns, Restart,
              world, contexts, tail, pipeline, history
<1>2. CASE StartRun
  <2>1. taken' \in [Index -> Nat]
    BY <1>2 DEF StartRun
  <2>2. begin' \in 0 .. MaxTree
    BY <1>2 DEF StartRun
  <2> QED
    BY <1>2, <2>1, <2>2, Zenon DEF StartRun, world, contexts, pipeline
<1>3. CASE GetRoot
  BY <1>3, RangeFacts DEF GetRoot, world, contexts, pipeline, history
<1>4. CASE NothingNew \/ StartFetch
  <2>1. sth' \in 0 .. MaxTree
    BY <1>4 DEF NothingNew, StartFetch, GotSTH, Larger
  <2>2. to' \in Nat
    BY <1>4, <2>1, RangeFacts DEF NothingNew, StartFetch, GotSTH
  <2>3. CASE NothingNew
    BY <2>1, <2>2, <2>3 DEF NothingNew, GotSTH, TailReturns, RunReturns, Restart,
                            world, contexts, pipeline
  <2>4. CASE StartFetch
    BY <2>1, <2>2, <2>4 DEF StartFetch, GotSTH, Interval, Index, world, history
  <2> QED
    BY <1>4, <2>3, <2>4
<1>5. CASE FetcherReturns \/ Send \/ Drop
  BY <1>5 DEF FetcherReturns, Send, Drop, world, contexts, tail, pipeline, history
<1>6. CASE Fetch
  BY <1>6, BatchFacts DEF Fetch, world, contexts, tail, history
<1>7. CASE TailDone
  BY <1>7 DEF TailDone, TailReturns, RunReturns, Restart, world
<1>8. ASSUME NEW s \in Submitters, SubmitterStep(s) PROVE TypeOK'
  <2>1. CASE Take(s)
    <3>1. taken' \in [Index -> Nat]
      BY <2>1 DEF Take
    <3> QED
      BY <2>1, <3>1 DEF Take, world, contexts, tail
  <2>2. CASE AddOK(s) \/ AddSkipped(s)
    BY <2>2 DEF AddOK, AddSkipped, Finish, contexts, tail
  <2>4. CASE AddFails(s)
    <3>1. /\ failures' \in 0 .. MaxFailures
          /\ stored' \subseteq Index
          /\ adding' \in [Submitters -> SUBSET Index]
          /\ sub' \in [Submitters -> {"off", "recv", "add", "stopped"}]
      BY <2>4 DEF AddFails, Finish
    <3> QED
      BY <2>4, <3>1, Zenon DEF AddFails, Finish, tail
  <2>3. CASE SubmitterEnds(s)
    BY <2>3 DEF SubmitterEnds, world, contexts, tail, history
  <2> QED
    BY <1>8, <2>1, <2>2, <2>3, <2>4 DEF SubmitterStep
<1>9. CASE Environment
  <2>1. CASE Expire \/ CancelContext
    BY <2>1, Zenon DEF Expire, CancelContext, world, contexts, tail, pipeline, history
  <2>4. CASE Grow
    BY <2>4 DEF Grow, contexts, tail, pipeline, history
  <2>5. CASE LoseMastership
    <3>1. losses' \in 0 .. MaxLosses
      BY <2>5 DEF LoseMastership
    <3> QED
      BY <2>5, <3>1, Zenon DEF LoseMastership, world, tail, pipeline, history
  <2>2. CASE Integrate
    BY <2>2 DEF Integrate, Index, contexts, tail, pipeline, history
  <2>3. CASE OtherAdds
    BY <2>3 DEF OtherAdds, Interval, contexts, tail, pipeline, history
  <2> QED
    BY <1>9, <2>1, <2>2, <2>3, <2>4, <2>5 DEF Environment
<1>10. CASE Ended \/ UNCHANGED vars
  BY <1>10 DEF Ended, vars, world, contexts, tail, pipeline, history
<1> QED
  BY <1>1, <1>2, <1>3, <1>4, <1>5, <1>6, <1>7, <1>8, <1>9, <1>10
     DEF Next, ControllerStep, FetcherStep

\* The pipeline is filled by StartFetch and emptied before TailDone.
LEMMA PipelineStep == IInv /\ [Next]_vars => PipelineInv'
<1> SUFFICES ASSUME IInv, [Next]_vars PROVE PipelineInv'
  OBVIOUS
<1> USE DEF IInv, PipelineInv, Tailing
<1>1. CASE Elected \/ NotElected \/ StartRun \/ Loop \/ Pause \/ GetRoot \/ TailFails
  BY <1>1 DEF Elected, NotElected, StartRun, Loop, Pause, GetRoot, TailFails, RunReturns,
              Restart, pipeline
<1>2. CASE NothingNew
  BY <1>2 DEF NothingNew, GotSTH, TailReturns, RunReturns, Restart, pipeline
<1>3. CASE StartFetch
  BY <1>3 DEF StartFetch, GotSTH
<1>4. CASE FetcherReturns \/ Fetch \/ Send \/ Drop
  BY <1>4 DEF FetcherReturns, Fetch, Send, Drop, pipeline
<1>5. CASE TailDone
  BY <1>5 DEF TailDone, TailReturns, RunReturns, Restart
<1>6. ASSUME NEW s \in Submitters, SubmitterStep(s) PROVE PipelineInv'
  BY <1>6 DEF SubmitterStep, Take, AddOK, AddSkipped, AddFails, SubmitterEnds, Finish, TypeOK
<1>7. CASE Environment \/ Ended \/ UNCHANGED vars
  BY <1>7 DEF Environment, Expire, Grow, Integrate, OtherAdds, LoseMastership, CancelContext,
              Ended, vars, pipeline
<1> QED
  BY <1>1, <1>2, <1>3, <1>4, <1>5, <1>6, <1>7 DEF Next, ControllerStep, FetcherStep

\* Nothing stops early unless a submitter failed or mastership ended.
LEMMA StopStep == IInv /\ [Next]_vars => StopInv'
<1> SUFFICES ASSUME IInv, [Next]_vars PROVE StopInv'
  OBVIOUS
<1> USE DEF IInv, StopInv, Tailing, MctxDone, contexts, history
<1>1. CASE Elected \/ NotElected \/ StartRun \/ Loop \/ Pause \/ GetRoot \/ TailFails
  BY <1>1 DEF Elected, NotElected, StartRun, Loop, Pause, GetRoot, TailFails, RunReturns,
              Restart, pipeline, PipelineInv
<1>2. CASE NothingNew
  BY <1>2 DEF NothingNew, GotSTH, TailReturns, RunReturns, Restart, pipeline, PipelineInv
<1>3. CASE StartFetch
  BY <1>3 DEF StartFetch, GotSTH
<1>4. CASE FetcherReturns \/ Fetch \/ Send \/ Drop
  BY <1>4 DEF FetcherReturns, Fetch, Send, Drop, pipeline, PipelineInv, CctxDone
<1>5. CASE TailDone
  BY <1>5 DEF TailDone, TailReturns, RunReturns, Restart
<1>6. ASSUME NEW s \in Submitters, SubmitterStep(s) PROVE StopInv'
  BY <1>6 DEF SubmitterStep, Take, AddOK, AddSkipped, AddFails, SubmitterEnds, Finish, TypeOK
<1>7. CASE Environment \/ Ended \/ UNCHANGED vars
  BY <1>7 DEF Environment, Expire, Grow, Integrate, OtherAdds, LoseMastership, CancelContext,
              Ended, vars, pipeline
<1> QED
  BY <1>1, <1>2, <1>3, <1>4, <1>5, <1>6, <1>7 DEF Next, ControllerStep, FetcherStep

\* GetRoot and GotSTH fix the range; the root and the position only grow.
LEMMA RangeStep == IInv /\ [Next]_vars => RangeInv'
<1> SUFFICES ASSUME IInv, [Next]_vars PROVE RangeInv'
  OBVIOUS
<1> USE MigrillianAssumption
        DEF IInv, RangeInv, TypeOK, Tailing, FirstIndex, LastIndex, world, tail
<1>1. CASE Elected \/ NotElected \/ Loop \/ Pause \/ TailFails
  BY <1>1 DEF Elected, NotElected, Loop, Pause, TailFails, RunReturns, Restart
<1>2. CASE StartRun
  BY <1>2 DEF StartRun
<1>3. CASE GetRoot
  BY <1>3 DEF GetRoot
<1>4. CASE NothingNew
  BY <1>4 DEF NothingNew, GotSTH, TailReturns, RunReturns, Restart
<1>5. CASE StartFetch
  BY <1>5 DEF StartFetch, GotSTH
<1>6. CASE FetcherReturns \/ Fetch \/ Send \/ Drop
  BY <1>6 DEF FetcherReturns, Fetch, Send, Drop
<1>7. CASE TailDone
  BY <1>7 DEF TailDone, TailReturns, RunReturns, Restart
<1>8. ASSUME NEW s \in Submitters, SubmitterStep(s) PROVE RangeInv'
  BY <1>8 DEF SubmitterStep, Take, AddOK, AddSkipped, AddFails, SubmitterEnds, Finish
<1>9. CASE Integrate
  BY <1>9 DEF Integrate, Interval, Index
<1>10. CASE Expire \/ Grow \/ OtherAdds \/ LoseMastership \/ CancelContext
  BY <1>10 DEF Expire, Grow, OtherAdds, LoseMastership, CancelContext
<1>11. CASE Ended \/ UNCHANGED vars
  BY <1>11 DEF Ended, vars
<1> QED
  BY <1>1, <1>2, <1>3, <1>4, <1>5, <1>6, <1>7, <1>8, <1>9, <1>10, <1>11
     DEF Next, ControllerStep, FetcherStep, Environment

\* Only StartFetch, Fetch and the channel move what is on its way to submitters.
LEMMA DisjointStep == IInv /\ [Next]_vars => DisjointInv'
<1> SUFFICES ASSUME IInv, [Next]_vars PROVE DisjointInv'
  OBVIOUS
<1> USE DEF IInv, DisjointInv, InHand, Queued
<1>1. CASE \/ Elected \/ NotElected \/ StartRun \/ Loop \/ Pause
           \/ GetRoot \/ TailFails \/ NothingNew
  <2>1. todo' = {} /\ handing' = {} /\ queue' = {}
    BY <1>1 DEF Elected, NotElected, StartRun, Loop, Pause, GetRoot, TailFails, NothingNew,
                GotSTH, pipeline, PipelineInv, Tailing
  <2> QED
    BY <2>1
<1>2. CASE StartFetch
  <2>1. todo' = Interval(from', to') /\ handing' = {} /\ queue' = {}
    BY <1>2 DEF StartFetch, GotSTH, PipelineInv, Tailing
  <2> QED
    BY <2>1 DEF Interval
<1>3. CASE FetcherReturns \/ Environment \/ Ended \/ UNCHANGED vars
  BY <1>3 DEF FetcherReturns, Environment, Expire, Grow, Integrate, OtherAdds, LoseMastership,
              CancelContext, Ended, vars, tail, pipeline
<1>4. CASE Fetch
  <2>1. PICK b \in Batches(todo) : todo' = todo \ b /\ handing' = handing \cup {b}
    BY <1>4 DEF Fetch
  <2>2. b \subseteq todo
    BY BatchFacts
  <2>3. UNCHANGED <<from, to, queue>>
    BY <1>4 DEF Fetch, tail
  <2> QED
    BY <2>1, <2>2, <2>3
<1>5. CASE Send
  <2>1. PICK b \in handing : handing' = handing \ {b} /\ queue' = queue \cup {b}
    BY <1>5 DEF Send
  <2>2. UNCHANGED <<from, to, todo>>
    BY <1>5 DEF Send, tail
  <2> QED
    BY <2>1, <2>2
<1>6. CASE Drop
  BY <1>6 DEF Drop, tail
<1>7. CASE TailDone
  <2>1. todo' = {} /\ handing' = {} /\ queue' = {}
    BY <1>7 DEF TailDone, PipelineInv
  <2> QED
    BY <2>1
<1>8. ASSUME NEW s \in Submitters, SubmitterStep(s) PROVE DisjointInv'
  <2>1. queue' \subseteq queue /\ UNCHANGED <<from, to, todo, handing>>
    BY <1>8 DEF SubmitterStep, Take, AddOK, AddSkipped, AddFails, SubmitterEnds, Finish, tail
  <2> QED
    BY <2>1
<1> QED
  BY <1>1, <1>2, <1>3, <1>4, <1>5, <1>6, <1>7, <1>8 DEF Next, ControllerStep, FetcherStep

\* Take is the only step that counts, and it takes what nobody took.
LEMMA TakenStep == IInv /\ [Next]_vars => TakenInv'
<1> SUFFICES ASSUME IInv, [Next]_vars PROVE TakenInv'
  OBVIOUS
<1> USE DEF IInv, TakenInv, InHand, Queued, Tailing
<1>1. CASE Elected \/ NotElected \/ Loop \/ Pause \/ GetRoot \/ TailFails
  <2>1. UNCHANGED <<begin, taken, todo, handing, queue>> /\ pc' \notin Tailing
    BY <1>1 DEF Elected, NotElected, Loop, Pause, GetRoot, TailFails, RunReturns, Restart,
                tail, pipeline, history
  <2>2. pc' \in {"root", "prepare", "loop", "pause"} =>
          pc \in {"root", "prepare", "loop", "pause"}
    BY <1>1 DEF Elected, NotElected, Loop, Pause, GetRoot, TailFails, RunReturns, Restart
  <2> QED
    BY <2>1, <2>2
<1>2. CASE StartRun
  BY <1>2 DEF StartRun
<1>3. CASE NothingNew
  BY <1>3 DEF NothingNew, GotSTH, TailReturns, RunReturns, Restart, pipeline
<1>4. CASE StartFetch
  <2>1. begin <= from
    BY <1>4, RangeFacts DEF StartFetch, GotSTH, RangeInv, TypeOK
  <2>2. /\ todo' = Interval(from', to') /\ handing' = {} /\ queue' = {}
        /\ pc = "prepare" /\ pc' = "fetch" /\ UNCHANGED <<begin, from, taken>>
    BY <1>4 DEF StartFetch, GotSTH, PipelineInv, history
  <2> QED
    BY <2>1, <2>2 DEF Interval, TypeOK, Index
<1>5. CASE FetcherReturns \/ Environment \/ Ended \/ UNCHANGED vars
  BY <1>5 DEF FetcherReturns, Environment, Expire, Grow, Integrate, OtherAdds, LoseMastership,
              CancelContext, Ended, vars, tail, pipeline, history
<1>6. CASE Fetch
  <2>1. PICK b \in Batches(todo) : todo' = todo \ b /\ handing' = handing \cup {b}
    BY <1>6 DEF Fetch
  <2>2. b \subseteq todo
    BY BatchFacts
  <2>3. UNCHANGED <<pc, begin, from, to, queue, taken>>
    BY <1>6 DEF Fetch, tail, history
  <2> QED
    BY <2>1, <2>2, <2>3
<1>7. CASE Send \/ Drop
  BY <1>7 DEF Send, Drop, tail, history
<1>8. CASE TailDone
  <2>1. /\ todo' = {} /\ handing' = {} /\ queue' = {} /\ UNCHANGED taken
        /\ pc = "drain" /\ pc' \notin Tailing \cup {"prepare", "root"}
        /\ pc' \in {"loop", "pause"} => opts.Continuous /\ begin' = sth
    BY <1>8 DEF TailDone, TailReturns, RunReturns, Restart, PipelineInv
  <2>2. opts.Continuous => to = sth /\ begin < sth
    BY <2>1 DEF RangeInv, LastIndex
  <2> QED
    BY <2>1, <2>2 DEF TypeOK, Index
<1>9. ASSUME NEW s \in Submitters, SubmitterStep(s) PROVE TakenInv'
  <2>1. CASE Take(s)
    <3>1. PICK b \in queue : /\ queue' = queue \ {b}
                             /\ taken' = [i \in Index |-> taken[i] + (IF i \in b THEN 1 ELSE 0)]
      BY <2>1 DEF Take
    <3>2. UNCHANGED <<pc, begin, from, to, todo, handing>> /\ pc \in Tailing
      BY <2>1 DEF Take, tail, PipelineInv
    <3>3. \A i \in Index : i \in b => taken[i] = 0 /\ taken'[i] = 1
      BY <3>1 DEF TypeOK
    <3>4. \A i \in Index : i \notin b => taken'[i] = taken[i]
      BY <3>1 DEF TypeOK
    <3>5. \A i \in b : i \notin todo /\ ~InHand(i) /\ ~Queued(i)' /\ from <= i /\ i < to
      BY <3>1 DEF DisjointInv
    <3>6. \A i \in Index : Queued(i)' => Queued(i)
      BY <3>1
    <3>7. \A i \in Index : taken'[i] <= 1
      BY <3>3, <3>4
    <3>8. \A i \in Index : i \in todo' \/ InHand(i)' \/ Queued(i)' => taken'[i] = 0
      BY <3>2, <3>4, <3>5, <3>6
    <3>9. \A i \in Index : taken'[i] = 0 \/ i < begin' \/ (from' <= i /\ i < to')
      BY <3>2, <3>4, <3>5
    <3> QED
      BY <3>2, <3>7, <3>8, <3>9
  <2>2. CASE AddOK(s) \/ AddSkipped(s) \/ AddFails(s) \/ SubmitterEnds(s)
    BY <2>2 DEF AddOK, AddSkipped, AddFails, SubmitterEnds, Finish, tail, history
  <2> QED
    BY <1>9, <2>1, <2>2 DEF SubmitterStep
<1> QED
  BY <1>1, <1>2, <1>3, <1>4, <1>5, <1>6, <1>7, <1>8, <1>9 DEF Next, ControllerStep, FetcherStep

\* A batch leaves the pipeline undone only when its submitter fails or a
\* context is done.
LEMMA CoverStep == IInv /\ [Next]_vars => CoverInv'
<1> SUFFICES ASSUME IInv, [Next]_vars PROVE CoverInv'
  OBVIOUS
<1> USE DEF IInv, CoverInv, InHand, Queued, Adding, Tailing, MctxDone
<1>1. CASE \/ Elected \/ NotElected \/ StartRun \/ Loop \/ Pause
           \/ GetRoot \/ TailFails \/ NothingNew \/ TailDone
  <2>1. pc' \notin Tailing
    BY <1>1 DEF Elected, NotElected, StartRun, Loop, Pause, GetRoot, TailFails, NothingNew,
                TailDone, TailReturns, RunReturns, Restart, GotSTH
  <2> QED
    BY <2>1
<1>2. CASE StartFetch
  <2>1. todo' = Interval(from', to')
    BY <1>2 DEF StartFetch, GotSTH
  <2> QED
    BY <2>1 DEF Interval
<1>3. CASE \/ FetcherReturns \/ Expire \/ Grow \/ LoseMastership \/ CancelContext
           \/ Ended \/ UNCHANGED vars
  BY <1>3 DEF FetcherReturns, Expire, Grow, LoseMastership, CancelContext, Ended, vars,
              world, contexts, tail, pipeline, history, Interval, Index
<1>4. CASE Integrate \/ OtherAdds
  <2>1. /\ UNCHANGED <<pc, failed, ctxDone, mctxDone, from, to, todo, handing, queue, adding>>
        /\ stored \subseteq stored'
    BY <1>4 DEF Integrate, OtherAdds, contexts, tail, pipeline, history
  <2> QED
    BY <2>1 DEF Interval, Index
<1>5. CASE Fetch
  <2>1. PICK b \in Batches(todo) : todo' = todo \ b /\ handing' = handing \cup {b}
    BY <1>5 DEF Fetch
  <2>2. UNCHANGED <<pc, failed, ctxDone, mctxDone, from, to, queue, adding, stored>>
    BY <1>5 DEF Fetch, world, contexts, tail, history
  <2> QED
    BY <2>1, <2>2 DEF Interval, Index
<1>6. CASE Send
  <2>1. PICK b \in handing : handing' = handing \ {b} /\ queue' = queue \cup {b}
    BY <1>6 DEF Send
  <2>2. UNCHANGED <<pc, failed, ctxDone, mctxDone, from, to, todo, adding, stored>>
    BY <1>6 DEF Send, world, contexts, tail, history
  <2> QED
    BY <2>1, <2>2 DEF Interval, Index
<1>7. CASE Drop
  <2>1. pc \in Tailing => failed \/ MctxDone
    BY <1>7 DEF Drop, CctxDone, StopInv
  <2> QED
    BY <1>7, <2>1 DEF Drop, contexts, history
<1>8. ASSUME NEW s \in Submitters, SubmitterStep(s) PROVE CoverInv'
  <2>1. CASE Take(s)
    <3>1. PICK b \in queue : queue' = queue \ {b} /\ adding' = [adding EXCEPT ![s] = b]
      BY <2>1 DEF Take
    <3>2. UNCHANGED <<pc, failed, ctxDone, mctxDone, from, to, todo, handing, stored>>
      BY <2>1 DEF Take, world, contexts, tail
    <3>3. \A i \in b : Adding(i)'
      BY <3>1 DEF TypeOK
    <3>4. \A i : Adding(i) => Adding(i)'
      <4>1. adding[s] = {}
        BY <2>1 DEF Take, PipelineInv
      <4> QED
        BY <3>1, <4>1 DEF TypeOK
    <3>5. \A i : Queued(i) => Queued(i)' \/ i \in b
      BY <3>1
    <3> QED
      BY <3>2, <3>3, <3>4, <3>5 DEF Interval, Index
  <2>2. CASE AddOK(s)
    <3>1. /\ UNCHANGED <<pc, failed, ctxDone, mctxDone, from, to, todo, handing, queue>>
          /\ adding' = [adding EXCEPT ![s] = {}] /\ stored' = stored \cup adding[s]
      BY <2>2 DEF AddOK, Finish, contexts, tail
    <3>2. \A i : Adding(i) => Adding(i)' \/ i \in stored'
      BY <3>1 DEF TypeOK
    <3> QED
      BY <3>1, <3>2 DEF Interval, Index
  <2>3. CASE AddSkipped(s)
    <3>1. pc \in Tailing => failed \/ MctxDone
      BY <2>3 DEF AddSkipped, CctxDone, StopInv
    <3> QED
      BY <2>3, <3>1 DEF AddSkipped, Finish, contexts
  <2>4. CASE AddFails(s)
    BY <2>4 DEF AddFails
  <2>5. CASE SubmitterEnds(s)
    BY <2>5 DEF SubmitterEnds, world, contexts, tail, history, Interval, Index
  <2> QED
    BY <1>8, <2>1, <2>2, <2>3, <2>4, <2>5 DEF SubmitterStep
<1> QED
  BY <1>1, <1>2, <1>3, <1>4, <1>5, <1>6, <1>7, <1>8
     DEF Next, ControllerStep, FetcherStep, Environment

\* When fetchTail returns and nothing failed, its range is in Trillian.
LEMMA TailComplete ==
  ASSUME IInv, TailDone, ~failed, ~MctxDone
  PROVE  Interval(from, to) \subseteq stored
<1>1. pc = "drain" /\ \A s \in Submitters : sub[s] = "stopped"
  BY DEF TailDone
<1>2. todo = {} /\ handing = {} /\ queue = {}
  BY <1>1, MigrillianAssumption DEF IInv, StopInv, PipelineInv
<1>3. \A s \in Submitters : adding[s] = {}
  BY <1>1 DEF IInv, PipelineInv
<1> QED
  BY <1>1, <1>2, <1>3 DEF IInv, CoverInv, Tailing, InHand, Queued, Adding

\* TailDone moves the position, over entries that are all in Trillian.
LEMMA ProgressStep == IInv /\ [Next]_vars => ProgressInv'
<1> SUFFICES ASSUME IInv, [Next]_vars PROVE ProgressInv'
  OBVIOUS
<1> USE DEF IInv, ProgressInv, OneOffComplete, MctxDone
<1>1. CASE Elected \/ NotElected
  BY <1>1 DEF Elected, NotElected, Restart, contexts, tail, history
<1>2. CASE StartRun
  BY <1>2 DEF StartRun, Interval, Index
<1>3. CASE Loop \/ Pause
  <2>1. opts.Continuous
    BY <1>3 DEF Loop, Pause, RangeInv
  <2> QED
    BY <1>3, <2>1 DEF Loop, Pause, RunReturns, Restart, world, contexts, tail, Interval, Index
<1>4. CASE GetRoot \/ TailFails
  BY <1>4 DEF GetRoot, TailFails, RunReturns, Restart, world, contexts, tail, history,
              Interval, Index
<1>5. CASE NothingNew
  <2>1. ~opts.Continuous => Interval(from', to') = {}
    <3> SUFFICES ASSUME ~opts.Continuous PROVE to' \in Nat /\ to' <= 0
      BY DEF Interval, Index
    <3>1. sth' \in 0 .. MaxTree /\ sth' <= 0
      BY <1>5, MigrillianAssumption DEF NothingNew, GotSTH, Larger, TypeOK, RangeInv
    <3>2. to' = LastIndex(sth')
      BY <1>5 DEF NothingNew, GotSTH
    <3> QED
      BY <1>5, <3>1, <3>2, RangeFacts DEF NothingNew, TypeOK
  <2>2. opts.Continuous => begin' = begin /\ pc = "prepare"
    BY <1>5 DEF NothingNew, GotSTH, TailReturns
  <2>3. /\ UNCHANGED <<opts, stored, failed, ctxDone, mctxDone>>
        /\ pc' \in {"loop", "pause", "await", "ended"}
        /\ ~opts.Continuous /\ pc' = "await" => mctxDone
    BY <1>5 DEF NothingNew, TailReturns, RunReturns, Restart, world, contexts
  <2> QED
    BY <2>1, <2>2, <2>3 DEF Interval, Index
<1>6. CASE StartFetch \/ FetcherReturns \/ Fetch \/ Send \/ Drop
  BY <1>6 DEF StartFetch, GotSTH, FetcherReturns, Fetch, Send, Drop, world, contexts, tail,
              history, Interval, Index
<1>7. CASE TailDone
  <2>1. /\ UNCHANGED <<opts, stored, failed, ctxDone, mctxDone, from, to>>
        /\ pc = "drain" /\ pc' \in {"loop", "pause", "await", "ended"}
        /\ ~opts.Continuous /\ pc' = "await" => mctxDone
        /\ opts.Continuous => begin' = sth
    BY <1>7 DEF TailDone, TailReturns, RunReturns, Restart, world
  <2>2. ~failed /\ ~MctxDone => Interval(from, to) \subseteq stored
    BY <1>7, TailComplete
  <2>3. ~failed /\ ~MctxDone /\ opts.Continuous => Interval(0, begin') \subseteq stored
    <3> SUFFICES ASSUME ~failed, ~MctxDone, opts.Continuous, NEW i \in Index, i < sth
                 PROVE  i \in stored
      BY <2>1 DEF Interval, Index
    <3>1. to = sth /\ from = IF begin > root THEN begin ELSE root
      BY <2>1, RangeFacts DEF RangeInv, Tailing, TypeOK
    <3>2. CASE i < begin
      BY <2>1, <3>2 DEF Interval, Index
    <3>3. CASE i < root
      BY <3>3 DEF RangeInv, TypeOK, Interval, Index
    <3>4. CASE from <= i
      BY <2>2, <3>1, <3>4 DEF Interval
    <3> QED
      BY <3>1, <3>2, <3>3, <3>4 DEF TypeOK, Index
  <2> QED
    BY <2>1, <2>2, <2>3 DEF Interval, Index
<1>8. ASSUME NEW s \in Submitters, SubmitterStep(s) PROVE ProgressInv'
  <2>1. /\ UNCHANGED <<opts, pc, begin, from, to, ctxDone, mctxDone, outcome>>
        /\ stored \subseteq stored' /\ (failed => failed')
    BY <1>8 DEF SubmitterStep, Take, AddOK, AddSkipped, AddFails, SubmitterEnds, Finish,
                world, contexts, tail, history
  <2> QED
    BY <2>1 DEF Interval, Index
<1>9. CASE Environment \/ Ended \/ UNCHANGED vars
  <2>1. /\ UNCHANGED <<opts, pc, begin, from, to, failed, outcome>>
        /\ stored \subseteq stored' /\ (ctxDone => ctxDone') /\ (mctxDone => mctxDone')
    BY <1>9 DEF Environment, Expire, Grow, Integrate, OtherAdds, LoseMastership, CancelContext,
                Ended, vars, world, contexts, tail, history
  <2> QED
    BY <2>1 DEF Interval, Index
<1> QED
  BY <1>1, <1>2, <1>3, <1>4, <1>5, <1>6, <1>7, <1>8, <1>9 DEF Next, ControllerStep, FetcherStep

-----------------------------------------------------------------------------
\* The inductive invariant holds in every reachable state of the Controller.
THEOREM InvariantHolds == Spec => []IInv
<1>1. IInv /\ [Next]_vars => IInv'
  BY TypeStep, PipelineStep, StopStep, RangeStep, DisjointStep, TakenStep, CoverStep,
     ProgressStep DEF IInv
<1> QED
  BY InitEstablishes, <1>1, PTL DEF Spec

\* Every variable of the Controller keeps its type.
THEOREM TypeCorrect == Spec => []TypeOK
<1>1. IInv => TypeOK
  BY DEF IInv
<1> QED
  BY InvariantHolds, <1>1, PTL

\* Run and fetchTail skip no entry while nothing fails, a one-off Run that
\* ended well has added its range, and no Run adds an entry twice.
THEOREM MigrationCorrect == Spec => []MigrationExact
<1>1. IInv => MigrationExact
  BY DEF IInv, MigrationExact, NoSilentGap, ProgressInv, AddedOncePerRun, TakenInv
<1> QED
  BY InvariantHolds, <1>1, PTL
=============================================================================
