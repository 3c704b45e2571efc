------------------------------- MODULE Fetcher -------------------------------
(***************************************************************************)
(* scanner/fetcher.go: the Fetcher downloads the entries [StartIndex,      *)
(* EndIndex) of a CT log.  A goroutine (genRanges) cuts the range into     *)
(* batches and hands them over an unbuffered channel to ParallelFetch      *)
(* workers (runWorker), each of which asks the log for its range until it  *)
(* has all of it, calling fn for every response.  In Continuous mode the   *)
(* generator waits for a bigger STH (updateSTH) whenever it catches up.    *)
(*                                                                         *)
(* The log is external: GetSTH answers with any tree size up to MaxTree    *)
(* (several frontends, so an answer may be older than an earlier one) or   *)
(* an error; GetRawEntries answers with an error or with a prefix of the   *)
(* requested range, possibly empty.                                        *)
(***************************************************************************)
EXTENDS Integers

CONSTANTS Workers,    \* the ParallelFetch worker goroutines
          BatchSize,  \* FetcherOptions.BatchSize
          MaxTree,    \* bound: the largest tree size the log ever publishes
          Options     \* the FetcherOptions a caller may pass to NewFetcher

ASSUME FetcherAssumption ==
  /\ Workers # {}
  /\ BatchSize \in Nat \ {0}
  /\ MaxTree \in Nat
  /\ Options \subseteq [StartIndex : Nat, EndIndex : Nat, Continuous : BOOLEAN]

VARIABLES
  opts,       \* Fetcher.opts: EndIndex is rewritten by Prepare and updateSTH
  sth,        \* tree size of Fetcher.sth, NoSTH when nil
  run,        \* control state of the caller: where it is in Run
  ctxDone,    \* the context passed to Run is cancelled
  cancelled,  \* the generator's own context has been cancelled
  stopAsked,  \* history: Stop was called after Run had been invoked
  gpc,        \* control state of the range generator
  start,      \* genRanges' start
  end,        \* genRanges' end
  low,        \* history: the smallest value start has had
  wpc,        \* control state of each worker
  rng,        \* each worker's fetchRange r, both ends inclusive
  delivered   \* history: how often fn was given each entry

vars == <<opts, sth, run, ctxDone, cancelled, stopAsked,
          gpc, start, end, low, wpc, rng, delivered>>

caller    == <<run, ctxDone, cancelled, stopAsked>>
generator == <<gpc, start, end, low>>
workers   == <<wpc, rng, delivered>>

NoSTH == -1
Index == 0 .. MaxTree - 1          \* leaf indices
EmptyRange == [start |-> 0, end |-> -1]

Lesser(a, b) == IF a < b THEN a ELSE b

\* The generator's context is a child of Run's context.
CctxDone == ctxDone \/ cancelled

\* Worker w still has to fetch entry i.
Holds(w, i) == rng[w].start <= i /\ i <= rng[w].end

TypeOK ==
  /\ opts \in [StartIndex : Nat, EndIndex : Nat, Continuous : BOOLEAN]
  /\ sth \in 0 .. MaxTree \cup {NoSTH}
  /\ run \in {"new", "prepare", "running", "returned", "failed"}
  /\ ctxDone \in BOOLEAN
  /\ cancelled \in BOOLEAN
  /\ stopAsked \in BOOLEAN
  /\ gpc \in {"off", "head", "update", "send", "done"}
  /\ start \in Nat
  /\ end \in Nat
  /\ low \in Nat
  /\ wpc \in [Workers -> {"off", "idle", "check", "call", "quit"}]
  /\ rng \in [Workers -> [start : Nat, end : Int]]
  /\ delivered \in [Index -> Nat]

Init ==
  /\ opts \in Options
  /\ sth = NoSTH
  /\ run = "new"
  /\ ctxDone = FALSE
  /\ cancelled = FALSE
  /\ stopAsked = FALSE
  /\ gpc = "off"
  /\ start = 0
  /\ end = 0
  /\ low = 0
  /\ wpc = [w \in Workers |-> "off"]
  /\ rng = [w \in Workers |-> EmptyRange]
  /\ delivered = [i \in Index |-> 0]

-----------------------------------------------------------------------------
(* The same code with a slip in it: what the properties must notice.       *)

\* updateSTH finds a bigger tree and genRanges does not reload its end.
GenUpdateSTHStaleEnd ==
  /\ gpc = "update"
  /\ \E size \in 0 .. MaxTree :
       /\ size > opts.EndIndex
       /\ sth' = size
       /\ opts' = [opts EXCEPT !.EndIndex = size]
  /\ gpc' = "send"
  /\ UNCHANGED <<caller, start, end, low, workers>>

\* The generator sends without looking at its context.
GenCancelledNever ==
  /\ gpc = "send"
  /\ FALSE
  /\ UNCHANGED vars

\* The worker is given the generator's context in place of Run's.
WorkerCheckCctx(w) ==
  /\ wpc[w] = "check"
  /\ wpc' = [wpc EXCEPT ![w] = IF rng[w].start > rng[w].end THEN "idle"
                               ELSE IF CctxDone THEN "quit" ELSE "call"]
  /\ UNCHANGED <<opts, sth, caller, generator, rng, delivered>>

\* A short answer is taken for the whole range.
WorkerResponseNoRefetch(w) ==
  /\ wpc[w] = "call"
  /\ \E n \in 0 .. (rng[w].end - rng[w].start + 1) :
       delivered' = [i \in Index |->
         IF rng[w].start <= i /\ i < rng[w].start + n THEN delivered[i] + 1
                                                      ELSE delivered[i]]
  /\ rng' = [rng EXCEPT ![w] = EmptyRange]
  /\ wpc' = [wpc EXCEPT ![w] = "check"]
  /\ UNCHANGED <<opts, sth, caller, generator>>

-----------------------------------------------------------------------------
(* The caller: Prepare, Run, Stop and the cancellation of Run's context.   *)

\* EndIndex fits the tree after Prepare, 0 standing for "all of it".
FitEndIndex(e, size) == IF e = 0 \/ e > size THEN size ELSE e

\* Prepare, called before Run or by it: fetches and caches the STH.
Prepare ==
  /\ run \in {"new", "prepare"}
  /\ sth = NoSTH
  /\ \E size \in 0 .. MaxTree :
       /\ sth' = size
       /\ opts' = [opts EXCEPT !.EndIndex = FitEndIndex(@, size)]
  /\ UNCHANGED <<caller, generator, workers>>

\* Run is called; it first runs Prepare.
RunCall ==
  /\ run = "new"
  /\ run' = "prepare"
  /\ UNCHANGED <<opts, sth, ctxDone, cancelled, stopAsked, generator, workers>>

\* GetSTH fails in Run's Prepare, and Run returns the error.
RunPrepareFails ==
  /\ run = "prepare"
  /\ sth = NoSTH
  /\ run' = "failed"
  /\ UNCHANGED <<opts, sth, ctxDone, cancelled, stopAsked, generator, workers>>

\* The rest of Run: install cancel for Stop, start generator and workers.
RunStart ==
  /\ run = "prepare"
  /\ sth # NoSTH
  /\ run' = "running"
  /\ gpc' = "head"
  /\ start' = opts.StartIndex
  /\ low' = opts.StartIndex
  /\ end' = opts.EndIndex
  /\ wpc' = [w \in Workers |-> "idle"]
  /\ UNCHANGED <<opts, sth, ctxDone, cancelled, stopAsked, rng, delivered>>

\* wg.Wait is over; the deferred cancel releases the generator.
RunReturn ==
  /\ run = "running"
  /\ \A w \in Workers : wpc[w] = "quit"
  /\ run' = "returned"
  /\ cancelled' = TRUE
  /\ UNCHANGED <<opts, sth, ctxDone, stopAsked, generator, workers>>

\* Stop calls the installed cancel function: until RunStart a no-op.
Stop ==
  /\ \/ run = "prepare" /\ ~stopAsked
     \/ run = "running" /\ ~cancelled
  /\ stopAsked' = TRUE
  /\ cancelled' = (run = "running")
  /\ UNCHANGED <<opts, sth, run, ctxDone, generator, workers>>

\* The owner of Run's context cancels it.
CancelContext ==
  /\ ~ctxDone
  /\ ctxDone' = TRUE
  /\ UNCHANGED <<opts, sth, run, cancelled, stopAsked, generator, workers>>

-----------------------------------------------------------------------------
(* The range generator.                                                    *)

\* The loop test, and the choice between waiting for an STH and sending.  The
\* Retry in updateSTH makes no attempt under a context that is already done.
GenHead ==
  /\ gpc = "head"
  /\ gpc' = CASE start >= end /\ ~opts.Continuous -> "done"
              [] start = end /\ opts.Continuous ->
                   IF CctxDone THEN "done" ELSE "update"
              [] OTHER -> "send"
  /\ UNCHANGED <<opts, sth, caller, start, end, low, workers>>

\* An STH is worth returning from updateSTH: bigger than the last one and,
\* as long as the quick phase lasts, big enough for a full batch.
BigEnough(size, quick) ==
  /\ size > opts.EndIndex
  /\ quick => size >= opts.EndIndex + BatchSize

\* updateSTH meets such an STH; smaller ones make it retry, changing nothing.
GenUpdateSTH ==
  /\ gpc = "update"
  /\ \E size \in 0 .. MaxTree, quick \in BOOLEAN :
       /\ BigEnough(size, quick)
       /\ sth' = size
       /\ opts' = [opts EXCEPT !.EndIndex = size]
       /\ end' = size
  /\ gpc' = "send"
  /\ UNCHANGED <<caller, start, low, workers>>

\* updateSTH returns an error: GetSTH failed, or the context is done.
GenUpdateFails ==
  /\ gpc = "update"
  /\ gpc' = "done"
  /\ UNCHANGED <<opts, sth, caller, start, end, low, workers>>

\* The end of the next batch, exclusive.
BatchEnd == start + Lesser(end - start, BatchSize)

\* The generator hands its next range to a worker that waits for one.
GenSend(w) ==
  /\ gpc = "send"
  /\ wpc[w] = "idle"
  /\ rng' = [rng EXCEPT ![w] = [start |-> start, end |-> BatchEnd - 1]]
  /\ wpc' = [wpc EXCEPT ![w] = "check"]
  /\ start' = BatchEnd
  /\ low' = Lesser(low, BatchEnd)
  /\ gpc' = "head"
  /\ UNCHANGED <<opts, sth, caller, end, delivered>>

\* The generator's select takes the ctx.Done branch and closes the channel.
GenCancelled ==
  /\ gpc = "send"
  /\ CctxDone
  /\ gpc' = "done"
  /\ UNCHANGED <<opts, sth, caller, start, end, low, workers>>

-----------------------------------------------------------------------------
(* The workers.                                                            *)

\* The inner loop's test, then its look at the context.
WorkerCheck(w) ==
  /\ wpc[w] = "check"
  /\ wpc' = [wpc EXCEPT ![w] = IF rng[w].start > rng[w].end THEN "idle"
                               ELSE IF ctxDone THEN "quit" ELSE "call"]
  /\ UNCHANGED <<opts, sth, caller, generator, rng, delivered>>

\* The log answers with the first n entries of the range; fn gets them.
WorkerResponse(w) ==
  /\ wpc[w] = "call"
  /\ \E n \in 0 .. (rng[w].end - rng[w].start + 1) :
       /\ delivered' = [i \in Index |->
            IF rng[w].start <= i /\ i < rng[w].start + n THEN delivered[i] + 1
                                                         ELSE delivered[i]]
       /\ rng' = [rng EXCEPT ![w].start = @ + n]
  /\ wpc' = [wpc EXCEPT ![w] = "check"]
  /\ UNCHANGED <<opts, sth, caller, generator>>

\* The log answers with an error; the worker tries again.
WorkerError(w) ==
  /\ wpc[w] = "call"
  /\ wpc' = [wpc EXCEPT ![w] = "check"]
  /\ UNCHANGED <<opts, sth, caller, generator, rng, delivered>>

\* The channel is closed: the worker's range loop ends.
WorkerExit(w) ==
  /\ wpc[w] = "idle"
  /\ gpc = "done"
  /\ wpc' = [wpc EXCEPT ![w] = "quit"]
  /\ UNCHANGED <<opts, sth, caller, generator, rng, delivered>>

-----------------------------------------------------------------------------
Finished ==
  /\ run \in {"returned", "failed"}
  /\ gpc \in {"off", "done"}
  /\ UNCHANGED vars

Next ==
  \/ Prepare \/ RunCall \/ RunPrepareFails \/ RunStart \/ RunReturn
  \/ Stop \/ CancelContext
  \/ GenHead \/ GenUpdateSTH \/ GenUpdateFails \/ GenCancelled
  \/ \E w \in Workers :
       \/ GenSend(w) \/ WorkerCheck(w) \/ WorkerResponse(w)
       \/ WorkerError(w) \/ WorkerExit(w)
  \/ Finished

Spec == Init /\ [][Next]_vars

-----------------------------------------------------------------------------
(* Fairness.  Goroutines are scheduled (weak fairness of what each can do);*)
(* a log asked again and again eventually sends at least one entry (strong *)
(* fairness, since errors and empty answers disable the call in between).  *)

\* The answer to w's request holds at least one entry.
WorkerProgress(w) == WorkerResponse(w) /\ rng'[w].start > rng[w].start

Fairness ==
  /\ WF_vars(RunStart) /\ WF_vars(RunReturn)
  /\ WF_vars(Prepare /\ run = "prepare")
  /\ WF_vars(GenHead) /\ WF_vars(GenCancelled)
  /\ WF_vars(gpc = "update" /\ CctxDone /\ GenUpdateFails)
  /\ WF_vars(\E w \in Workers : GenSend(w))
  /\ \A w \in Workers :
       WF_vars(WorkerCheck(w)) /\ WF_vars(WorkerExit(w)) /\ SF_vars(WorkerProgress(w))

FairSpec == Spec /\ Fairness

-----------------------------------------------------------------------------
(* Safety.                                                                 *)

\* Every entry the generator has passed is in exactly one place: already
\* given to fn once, or in the remaining range of one worker; no entry it has
\* not passed is in either.  (Batches neither overlap nor leave gaps, and a
\* short answer is completed by the worker that got it.)
EntryAccounting ==
  \A i \in Index :
    /\ delivered[i] <= 1
    /\ low <= i /\ i < start <=> (delivered[i] = 1 \/ \E w \in Workers : Holds(w, i))
    /\ \A w \in Workers : Holds(w, i) => delivered[i] = 0
    /\ \A w1, w2 \in Workers : Holds(w1, i) /\ Holds(w2, i) => w1 = w2

\* Unless its context is cancelled, Run returns only when every range handed
\* out has been fetched completely: "After this call Run will try to finish all
\* the started fetches, and then return", for Stop as for a normal end.
StartedFetchesFinish ==
  run = "returned" /\ ~ctxDone =>
    \A i \in Index : delivered[i] = IF low <= i /\ i < start THEN 1 ELSE 0

\* A one-off fetch that is neither stopped nor cancelled delivers each entry
\* of [StartIndex, EndIndex) exactly once and no other.
WholeRangeFetched ==
  run = "returned" /\ ~ctxDone /\ ~stopAsked /\ ~opts.Continuous =>
    \A i \in Index :
      delivered[i] = IF opts.StartIndex <= i /\ i < opts.EndIndex THEN 1 ELSE 0

\* What is fetched never leaves the tree the Fetcher has an STH for.
WithinSTH == \A i \in Index : delivered[i] > 0 => i < sth

\* genRanges and runWorker together: at any time each entry is to be fetched by
\* one worker, was delivered once, or is still ahead; Run leaves no range that
\* it handed out unfinished unless its context is cancelled; and an undisturbed
\* one-off Run delivers exactly its range.
FetchExact == EntryAccounting /\ StartedFetchesFinish /\ WholeRangeFetched

-----------------------------------------------------------------------------
(* The strengthening that makes the safety properties inductive.           *)

\* Before RunStart nothing has happened; afterwards the generator's end is
\* the Fetcher's EndIndex, inside the tree, and start is not beyond it unless
\* no range has been sent yet.
GeneratorInv ==
  /\ gpc = "off" <=> run \in {"new", "prepare", "failed"}
  /\ gpc = "off" => start = 0 /\ low = 0 /\ ~cancelled
  /\ gpc # "off" => end = opts.EndIndex /\ end <= MaxTree
  /\ sth # NoSTH => opts.EndIndex <= sth
  /\ gpc # "off" => sth # NoSTH
  /\ low <= start
  /\ start > end => low = start /\ low = opts.StartIndex
  /\ gpc = "send" => start # end
  /\ gpc = "send" /\ start > end => opts.Continuous
  /\ gpc = "update" => start = end
  /\ ~opts.Continuous /\ gpc # "off" => low = opts.StartIndex
  /\ gpc = "done" /\ ~opts.Continuous => start >= end \/ ctxDone \/ stopAsked

\* A worker between two ranges has nothing left of the last one; it leaves
\* with an unfinished range only when the context is cancelled, and otherwise
\* only when the channel is closed.
WorkerInv ==
  /\ cancelled => stopAsked \/ run = "returned"
  /\ run = "returned" => \A w \in Workers : wpc[w] = "quit"
  /\ \A w \in Workers :
       /\ wpc[w] = "off" <=> gpc = "off"
       /\ wpc[w] \in {"off", "idle"} => rng[w].start > rng[w].end
       /\ wpc[w] = "call" => rng[w].start <= rng[w].end
       /\ wpc[w] = "quit" => ctxDone \/ (gpc = "done" /\ rng[w].start > rng[w].end)
       /\ rng[w].start <= rng[w].end => rng[w].end < start /\ low <= rng[w].start

IInv == TypeOK /\ GeneratorInv /\ WorkerInv /\ EntryAccounting /\ WithinSTH

-----------------------------------------------------------------------------
(* Liveness.                                                               *)

\* Run returns once its context is cancelled or the generator's context is,
\* and a one-off Run returns in any case.  The generator goroutine, which Run
\* does not wait for, ends after it.
RunTerminates ==
  /\ (run = "running" /\ (CctxDone \/ ~opts.Continuous)) ~> (run = "returned")
  /\ (run = "returned") ~> (gpc = "done")

\* While nobody stops a running Fetcher, it delivers every entry below the
\* size it has learnt and not below its StartIndex.
KeepsUp ==
  \A i \in Index :
    (run = "running" /\ opts.StartIndex <= i /\ i < opts.EndIndex)
      ~> (delivered[i] = 1 \/ CctxDone)

-----------------------------------------------------------------------------
(* The Fetcher implements the stream FetchStream describes.                *)

streamState == CASE run \in {"new", "prepare"}     -> "idle"
                 [] run = "running"                -> "open"
                 [] run \in {"returned", "failed"} -> "closed"

Stream == INSTANCE FetchStream
            WITH state <- streamState, aborted <- ctxDone, limit <- end

\* No entry comes twice or from beyond the known tree, and an undisturbed or
\* stopped Run leaves one contiguous piece of the log delivered.
ImplementsStream == Stream!Spec

-----------------------------------------------------------------------------
(* What comments of the source say and the code does not do.               *)

\* FetcherOptions: "[StartIndex, EndIndex) is a log entry range to fetch".
StartIndexRespected ==
  \A i \in Index : delivered[i] > 0 => opts.StartIndex <= i

\* Stop: "After this call Run will try to finish all the started fetches, and
\* then return. Does nothing if there was no preceding Run invocation."
StopTakesEffect == stopAsked ~> (run \in {"returned", "failed"})
=============================================================================
