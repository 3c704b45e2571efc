------------------------------ MODULE Migrillian ------------------------------
(***************************************************************************)
(* trillian/migrillian/core: a Controller mirrors a CT log into a Trillian *)
(* pre-ordered log.  RunWhenMasterWithRestarts runs it whenever it is      *)
(* elected; Run calls fetchTail once, or again and again in Continuous     *)
(* mode; fetchTail lets a Fetcher deliver batches, over a bounded channel, *)
(* to submitters that add them to Trillian.                                *)
(*                                                                         *)
(* The Fetcher is what FetchStream promises: every entry of the range at   *)
(* most once, all of them unless cancelled.  A batch is the set of its     *)
(* indices; it carries its position, so the order of the channel does not  *)
(* matter.  External: the CT log, the election, and Trillian, which        *)
(* integrates the longest contiguous prefix of the leaves it was given and *)
(* which other instances of the Controller write to as well.               *)
(***************************************************************************)
EXTENDS Integers, FiniteSets

CONSTANTS
  Options,       \* the Options a Controller may be created with
  Submitters,    \* the submitter goroutines of fetchTail
  ParallelFetch, \* FetcherOptions.ParallelFetch
  BatchSize,     \* FetcherOptions.BatchSize
  ChannelSize,   \* capacity of the batches channel
  MaxTree,       \* bound: the largest tree the CT log publishes
  MaxLag,        \* bound: how far an STH may lie behind the log
  MaxFailures,   \* bound: serious errors of Trillian while adding leaves
  MaxLosses      \* bound: how often mastership is lost

\* OptionsFromConfig turns 0 submitters into 1.
ASSUME MigrillianAssumption ==
  /\ Options \subseteq [StartIndex : Int, EndIndex : Nat, Continuous : BOOLEAN,
                        NoConsistencyCheck : BOOLEAN, StopAfter : BOOLEAN]
  /\ IsFiniteSet(Submitters) /\ Submitters # {}
  /\ ParallelFetch \in Nat /\ BatchSize \in Nat /\ ChannelSize \in Nat
  /\ MaxTree \in Nat /\ MaxLag \in Nat /\ MaxFailures \in Nat /\ MaxLosses \in Nat

VARIABLES
  opts,      \* Controller.opts
  log,       \* size of the CT log
  stored,    \* leaves Trillian was given
  tree,      \* size of Trillian's signed root
  ctxDone,   \* the context of RunWhenMasterWithRestarts is done
  mctxDone,  \* the mastership context is done
  cancelled, \* fetchTail has cancelled its own context
  losses,    \* how often mastership was lost
  pc,        \* where the Controller is
  first,     \* this is the first fetchTail of Run
  expired,   \* StopAfter has passed since Run began
  begin,     \* Run's pos, the begin of fetchTail
  root,      \* TreeSize of the verified root
  sth,       \* TreeSize of the Fetcher's STH
  from, to,  \* the range [StartIndex, EndIndex) of fetchTail
  todo,      \* entries of the range no fetch was started for
  handing,   \* batches being fetched or offered to the channel by the handler
  queue,     \* batches in the channel
  sub,       \* control state of each submitter
  adding,    \* the batch each submitter works on
  failures,  \* how often addSequencedLeaves failed
  failed,    \* history: it failed in this Run
  taken,     \* history: how often each entry was taken by a submitter in this Run
  outcome    \* history: what the last Run returned

world    == <<log, stored, tree>>
contexts == <<ctxDone, mctxDone, cancelled, losses>>
tail     == <<begin, root, sth, from, to>>
pipeline == <<todo, handing, queue, sub, adding>>
history  == <<failures, failed, taken, outcome>>
vars == <<opts, world, contexts, pc, first, expired, tail, pipeline, history>>

Index == 0 .. MaxTree - 1

\* fetchTail's context is a child of the mastership context, itself a child
\* of the caller's.
MctxDone == ctxDone \/ mctxDone
CctxDone == MctxDone \/ cancelled

Larger(a, b) == IF a > b THEN a ELSE b

Interval(a, b) == {i \in Index : a <= i /\ i < b}

\* The batches a fetch for some entries of S may yield.
Batches(S) ==
  {b \in {Interval(a, a + n) : a \in S, n \in 1 .. BatchSize} : b # {} /\ b \subseteq S}

TypeOK ==
  /\ opts \in Options
  /\ log \in 0 .. MaxTree
  /\ stored \subseteq Index
  /\ tree \in 0 .. MaxTree
  /\ <<ctxDone, mctxDone, cancelled>> \in BOOLEAN \X BOOLEAN \X BOOLEAN
  /\ losses \in 0 .. MaxLosses
  /\ pc \in {"await", "run", "root", "prepare", "fetch", "drain",
             "loop", "pause", "ended"}
  /\ first \in BOOLEAN
  /\ expired \in BOOLEAN
  /\ begin \in 0 .. MaxTree
  /\ root \in 0 .. MaxTree
  /\ sth \in 0 .. MaxTree
  /\ from \in Nat
  /\ to \in Nat
  /\ todo \subseteq Index
  /\ handing \subseteq SUBSET Index
  /\ queue \subseteq SUBSET Index
  /\ sub \in [Submitters -> {"off", "recv", "add", "stopped"}]
  /\ adding \in [Submitters -> SUBSET Index]
  /\ failures \in 0 .. MaxFailures
  /\ failed \in BOOLEAN
  /\ taken \in [Index -> Nat]
  /\ outcome \in {"none", "ok", "err"}

Init ==
  /\ opts \in Options
  /\ log \in 0 .. MaxTree
  /\ tree \in 0 .. log
  /\ stored = Interval(0, tree)
  /\ ctxDone = FALSE
  /\ mctxDone = FALSE
  /\ cancelled = FALSE
  /\ losses = 0
  /\ pc = "await"
  /\ first = TRUE
  /\ expired = FALSE
  /\ begin = 0
  /\ root = 0
  /\ sth = 0
  /\ from = 0
  /\ to = 0
  /\ todo = {}
  /\ handing = {}
  /\ queue = {}
  /\ sub = [s \in Submitters |-> "off"]
  /\ adding = [s \in Submitters |-> {}]
  /\ failures = 0
  /\ failed = FALSE
  /\ taken = [i \in Index |-> 0]
  /\ outcome = "none"

-----------------------------------------------------------------------------
(* Mastership: RunWhenMasterWithRestarts, RunWhenMaster, runWithRestarts.   *)

\* A slip: no restart once a Run ended well.
RestartNever == "ended"

\* RunWhenMaster returned, having released the mastership.
Restart == IF opts.Continuous /\ ~ctxDone THEN "await" ELSE "ended"

\* Run returned: runWithRestarts calls it again after an error in Continuous
\* mode; RunWhenMaster awaits mastership again only if it was lost.
RunReturns(result) ==
  /\ outcome' = result
  /\ pc' = IF opts.Continuous /\ result = "err" /\ ~MctxDone THEN "run"
           ELSE IF mctxDone /\ ~ctxDone THEN "await" ELSE Restart

Elected ==
  /\ pc = "await"
  /\ ~ctxDone
  /\ mctxDone' = FALSE
  /\ pc' = "run"
  /\ UNCHANGED <<opts, world, ctxDone, cancelled, losses, first, expired, tail,
                 pipeline, history>>

\* NewElection or Await fails, or WithMastership comes too late.
NotElected ==
  /\ pc = "await"
  /\ pc' = Restart
  /\ UNCHANGED <<opts, world, contexts, first, expired, tail, pipeline, history>>

-----------------------------------------------------------------------------
(* Run.                                                                     *)

StartRun ==
  /\ pc = "run"
  /\ pc' = "root"
  /\ first' = TRUE
  /\ expired' = FALSE
  /\ begin' = 0
  /\ failed' = FALSE
  /\ taken' = [i \in Index |-> 0]
  /\ UNCHANGED <<opts, world, contexts, root, sth, from, to, pipeline, failures, outcome>>

\* fetchTail returned a position without an error.
TailReturns(next) ==
  \/ /\ ~opts.Continuous
     /\ RunReturns("ok")
     /\ UNCHANGED <<first, begin>>
  \/ /\ opts.Continuous
     /\ pc' = IF ~first /\ next = begin THEN "pause" ELSE "loop"
     /\ first' = FALSE
     /\ begin' = next
     /\ UNCHANGED outcome

Loop ==
  /\ pc = "loop"
  /\ \/ ~expired /\ pc' = "root" /\ UNCHANGED outcome
     \/ expired /\ RunReturns("ok")
  /\ UNCHANGED <<opts, world, contexts, first, expired, tail, pipeline,
                 failures, failed, taken>>

Pause ==
  /\ pc = "pause"
  /\ \/ pc' = "loop" /\ UNCHANGED outcome
     \/ MctxDone /\ RunReturns("err")
  /\ UNCHANGED <<opts, world, contexts, first, expired, tail, pipeline,
                 failures, failed, taken>>

Expire ==
  /\ opts.StopAfter
  /\ ~expired
  /\ expired' = TRUE
  /\ UNCHANGED <<opts, world, contexts, pc, first, tail, pipeline, history>>

-----------------------------------------------------------------------------
(* fetchTail up to the start of the Fetcher.                                *)

\* The first entry to fetch: Continuous mode ignores the options' range.
FirstIndex(size) ==
  Larger(begin, IF opts.Continuous \/ opts.StartIndex < 0 THEN size ELSE opts.StartIndex)

\* Prepare fits EndIndex to the tree; 0 stands for all of it.
LastIndex(size) ==
  IF opts.Continuous \/ opts.EndIndex = 0 \/ opts.EndIndex > size THEN size
                                                               ELSE opts.EndIndex

GetRoot ==
  /\ pc = "root"
  /\ ~MctxDone
  /\ root' = tree
  /\ from' = FirstIndex(tree)
  /\ pc' = "prepare"
  /\ UNCHANGED <<opts, world, contexts, first, expired, begin, sth, to, pipeline, history>>

\* A request to Trillian or to the log failed, or the consistency proof did.
TailFails ==
  /\ pc \in {"root", "prepare"}
  /\ RunReturns("err")
  /\ UNCHANGED <<opts, world, contexts, first, expired, tail, pipeline,
                 failures, failed, taken>>

\* The answer to GetSTH.
GotSTH ==
  /\ pc = "prepare"
  /\ ~MctxDone
  /\ sth' \in Larger(0, log - MaxLag) .. log
  /\ to' = LastIndex(sth')

NothingNew ==
  /\ GotSTH
  /\ sth' <= begin
  /\ TailReturns(begin)
  /\ UNCHANGED <<opts, world, contexts, expired, root, from, pipeline,
                 failures, failed, taken>>

StartFetch ==
  /\ GotSTH
  /\ sth' > begin
  /\ opts.NoConsistencyCheck \/ root <= sth'
  /\ cancelled' = FALSE
  /\ todo' = Interval(from, to')
  /\ sub' = [s \in Submitters |-> "recv"]
  /\ pc' = "fetch"
  /\ UNCHANGED <<opts, world, ctxDone, mctxDone, losses, first, expired, begin, root,
                 from, handing, queue, adding, history>>

-----------------------------------------------------------------------------
(* fetchTail: the Fetcher, its handler and the submitters.                  *)

\* A worker of the Fetcher asks the log for entries nobody asked for yet.
Fetch ==
  /\ pc = "fetch"
  /\ ~CctxDone
  /\ Cardinality(handing) < ParallelFetch
  /\ \E b \in Batches(todo) :
       /\ todo' = todo \ b
       /\ handing' = handing \cup {b}
  /\ UNCHANGED <<opts, world, contexts, pc, first, expired, tail, queue, sub, adding, history>>

\* The handler's send: a waiting submitter is room for one batch more.
Send ==
  /\ Cardinality(queue) < ChannelSize + Cardinality({s \in Submitters : sub[s] = "recv"})
  /\ \E b \in handing :
       /\ handing' = handing \ {b}
       /\ queue' = queue \cup {b}
  /\ UNCHANGED <<opts, world, contexts, pc, first, expired, tail, todo, sub, adding, history>>

\* The batch is dropped: its request failed with the context, or the handler
\* saw the context done.
Drop ==
  /\ CctxDone
  /\ \E b \in handing : handing' = handing \ {b}
  /\ UNCHANGED <<opts, world, contexts, pc, first, expired, tail, todo, queue, sub,
                 adding, history>>

\* A slip: cancellation does not end the Fetcher.
FetcherReturnsAtEnd ==
  /\ pc = "fetch"
  /\ handing = {}
  /\ todo = {}
  /\ pc' = "drain"
  /\ UNCHANGED <<opts, world, contexts, first, expired, tail, pipeline, history>>

\* fetcher.Run returns nil, whether it fetched everything or was cancelled.
FetcherReturns ==
  /\ pc = "fetch"
  /\ handing = {}
  /\ todo = {} \/ CctxDone
  /\ pc' = "drain"
  /\ UNCHANGED <<opts, world, contexts, first, expired, tail, pipeline, history>>

Take(s) ==
  /\ sub[s] = "recv"
  /\ \E b \in queue :
       /\ queue' = queue \ {b}
       /\ adding' = [adding EXCEPT ![s] = b]
       /\ taken' = [i \in Index |-> taken[i] + (IF i \in b THEN 1 ELSE 0)]
  /\ sub' = [sub EXCEPT ![s] = "add"]
  /\ UNCHANGED <<opts, world, contexts, pc, first, expired, tail, todo, handing,
                 failures, failed, outcome>>

\* The submitter is through with its batch.
Finish(s, state) ==
  /\ sub[s] = "add"
  /\ adding' = [adding EXCEPT ![s] = {}]
  /\ sub' = [sub EXCEPT ![s] = state]
  /\ UNCHANGED <<opts, log, tree, pc, first, expired, tail, todo, handing, queue,
                 taken, outcome>>

\* Trillian accepted the batch, perhaps after quota errors and retries.
AddOK(s) ==
  /\ Finish(s, "recv")
  /\ stored' = stored \cup adding[s]
  /\ UNCHANGED <<contexts, failures, failed>>

\* The context is done already: Retry makes no attempt, err stays nil, and
\* the submitter takes the batch as added.
AddSkipped(s) ==
  /\ CctxDone
  /\ Finish(s, "recv")
  /\ UNCHANGED <<stored, contexts, failures, failed>>

\* A serious error, or the context ended between two tries.  Trillian may
\* have the leaves all the same.  The submitter stops everything.
AddFails(s) ==
  /\ failures < MaxFailures
  /\ Finish(s, "stopped")
  /\ stored' \in {stored, stored \cup adding[s]}
  /\ cancelled' = TRUE
  /\ failures' = failures + 1
  /\ failed' = TRUE
  /\ UNCHANGED <<ctxDone, mctxDone, losses>>

\* The channel is closed and empty.
SubmitterEnds(s) ==
  /\ pc = "drain"
  /\ sub[s] = "recv"
  /\ queue = {}
  /\ sub' = [sub EXCEPT ![s] = "stopped"]
  /\ UNCHANGED <<opts, world, contexts, pc, first, expired, tail, todo, handing, queue,
                 adding, history>>

\* A slip: no wg.Wait().
TailDoneNoWait ==
  /\ pc = "drain"
  /\ TailReturns(sth)
  /\ sub' = [s \in Submitters |-> "off"]
  /\ todo' = {}
  /\ queue' = {}
  /\ cancelled' = TRUE
  /\ UNCHANGED <<opts, world, ctxDone, mctxDone, losses, expired, root, sth, from, to,
                 handing, adding, failures, failed, taken>>

\* All submitters are over: fetchTail returns the STH's size.
TailDone ==
  /\ pc = "drain"
  /\ \A s \in Submitters : sub[s] = "stopped"
  /\ TailReturns(sth)
  /\ sub' = [s \in Submitters |-> "off"]
  /\ todo' = {}
  /\ queue' = {}
  /\ cancelled' = TRUE
  /\ UNCHANGED <<opts, world, ctxDone, mctxDone, losses, expired, root, sth, from, to,
                 handing, adding, failures, failed, taken>>

-----------------------------------------------------------------------------
(* The environment.                                                         *)

Grow ==
  /\ log < MaxTree
  /\ log' = log + 1
  /\ UNCHANGED <<opts, stored, tree, contexts, pc, first, expired, tail, pipeline, history>>

\* Trillian's signer integrates the next leaf.
Integrate ==
  /\ tree \in stored
  /\ tree' = tree + 1
  /\ UNCHANGED <<opts, log, stored, contexts, pc, first, expired, tail, pipeline, history>>

\* Another instance, which was or is the master, adds an entry of the log.
OtherAdds ==
  /\ \E i \in Interval(0, log) \ stored : stored' = stored \cup {i}
  /\ UNCHANGED <<opts, log, tree, contexts, pc, first, expired, tail, pipeline, history>>

LoseMastership ==
  /\ pc \notin {"await", "ended"}
  /\ ~mctxDone
  /\ losses < MaxLosses
  /\ mctxDone' = TRUE
  /\ losses' = losses + 1
  /\ UNCHANGED <<opts, world, ctxDone, cancelled, pc, first, expired, tail, pipeline, history>>

CancelContext ==
  /\ ~ctxDone
  /\ ctxDone' = TRUE
  /\ UNCHANGED <<opts, world, mctxDone, cancelled, losses, pc, first, expired, tail,
                 pipeline, history>>

-----------------------------------------------------------------------------
Ended == pc = "ended" /\ UNCHANGED vars

ControllerStep ==
  \/ Elected \/ NotElected \/ StartRun \/ Loop \/ Pause
  \/ GetRoot \/ TailFails \/ NothingNew \/ StartFetch
  \/ FetcherReturns \/ TailDone

FetcherStep == Fetch \/ Send \/ Drop

SubmitterStep(s) ==
  Take(s) \/ AddOK(s) \/ AddSkipped(s) \/ AddFails(s) \/ SubmitterEnds(s)

Environment == Expire \/ Grow \/ Integrate \/ OtherAdds \/ LoseMastership \/ CancelContext

Next ==
  \/ ControllerStep \/ FetcherStep
  \/ \E s \in Submitters : SubmitterStep(s)
  \/ Environment \/ Ended

Spec == Init /\ [][Next]_vars

\* Goroutines run; requests to the log, to Trillian and to the election that
\* are repeated again and again succeed in the end; StopAfter passes.
FairSpec ==
  /\ Spec
  /\ WF_vars(ControllerStep) /\ WF_vars(FetcherStep)
  /\ \A s \in Submitters : WF_vars(SubmitterStep(s))
  /\ SF_vars(Elected) /\ SF_vars(GetRoot) /\ SF_vars(NothingNew \/ StartFetch)
  /\ WF_vars(Integrate) /\ WF_vars(Expire)

-----------------------------------------------------------------------------
(* Safety.                                                                  *)

\* While nothing failed and nobody cancelled, a position Run has reached means
\* that every entry before it is in Trillian: in whatever order the batches
\* travelled and whenever the roots and STHs were read, none is skipped.
NoSilentGap ==
  opts.Continuous /\ ~failed /\ ~MctxDone /\ pc \in {"loop", "pause", "root"} =>
    Interval(0, begin) \subseteq stored

\* A one-off Run that returned nil and met neither an error nor the end of its
\* mastership has added its whole range.
OneOffComplete ==
  ~opts.Continuous /\ pc = "ended" /\ outcome = "ok" /\ ~failed /\ ~MctxDone =>
    Interval(from, to) \subseteq stored

\* One Run never gives an entry to Trillian twice, although it reads a root
\* that lags behind what it has added.
AddedOncePerRun == \A i \in Index : taken[i] <= 1

\* Run and fetchTail together: every entry once, in whatever order fetchers and
\* submitters work and however far roots and STHs lag behind.
MigrationExact == NoSilentGap /\ OneOffComplete /\ AddedOncePerRun

-----------------------------------------------------------------------------
(* Liveness.                                                                *)

\* The handler, the channel and the submitters cannot block each other for
\* ever, whichever of them stops first.
FetchEnds == pc = "fetch" ~> pc \notin {"fetch", "drain"}

\* A Controller restarted every StopAfter brings Trillian up to every size of
\* the log its STHs reveal, in spite of failing submitters and lost mastership.
MirrorKeepsUp ==
  opts.Continuous /\ opts.StopAfter =>
    \A n \in 1 .. MaxTree : log >= n + MaxLag ~> (tree >= n \/ ctxDone)

-----------------------------------------------------------------------------
(* What the source's comments say and the code does not do.                 *)

\* Run: "the migration process runs continuously trying to keep up with the
\* target CT log."
RunKeepsUp ==
  opts.Continuous => \A n \in 1 .. MaxTree : log >= n + MaxLag ~> (tree >= n \/ ctxDone)
=============================================================================
