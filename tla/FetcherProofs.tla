---------------------------- MODULE FetcherProofs ----------------------------
(***************************************************************************)
(* Proofs about Fetcher: for every number of workers, batch size, tree     *)
(* bound and set of options.                                               *)
(***************************************************************************)
EXTENDS Fetcher, TLAPS

\* The next batch ends at a natural number, not beyond the known end unless
\* it is empty, and it is not empty when the generator is short of the end.
LEMMA BatchEndFacts ==
  ASSUME start \in Nat, end \in Nat
  PROVE  /\ BatchEnd \in Nat
         /\ start < end => start < BatchEnd /\ BatchEnd <= end
         /\ start > end => BatchEnd = end
  BY FetcherAssumption DEF BatchEnd, Lesser

-----------------------------------------------------------------------------
(* The inductive invariant, one lemma per conjunct that needs work.        *)

LEMMA InitEstablishes == Init => IInv
<1> SUFFICES ASSUME Init PROVE IInv
  OBVIOUS
<1>1. TypeOK
  <2>1. opts \in [StartIndex : Nat, EndIndex : Nat, Continuous : BOOLEAN]
    BY FetcherAssumption DEF Init
  <2>2. rng \in [Workers -> [start : Nat, end : Int]]
    BY DEF Init, EmptyRange
  <2> QED
    BY <2>1, <2>2 DEF Init, TypeOK
<1>2. GeneratorInv
  BY FetcherAssumption DEF Init, GeneratorInv, NoSTH
<1>3. WorkerInv
  BY DEF Init, WorkerInv, EmptyRange
<1>4. EntryAccounting /\ WithinSTH
  BY DEF Init, EntryAccounting, WithinSTH, Holds, EmptyRange, Index
<1> QED
  BY <1>1, <1>2, <1>3, <1>4 DEF IInv

\* Type correctness of one step, in the form the lemmas below use.
LEMMA TypeStep == TypeOK /\ [Next]_vars => TypeOK'
<1> SUFFICES ASSUME TypeOK, [Next]_vars PROVE TypeOK'
  OBVIOUS
<1> USE FetcherAssumption DEF TypeOK
<1>1. CASE Prepare
  BY <1>1 DEF Prepare, FitEndIndex, caller, generator, workers
<1>2. CASE RunCall \/ RunPrepareFails \/ RunReturn \/ Stop \/ CancelContext
  BY <1>2 DEF RunCall, RunPrepareFails, RunReturn, Stop, CancelContext,
              generator, workers
<1>3. CASE RunStart
  BY <1>3 DEF RunStart
<1>4. CASE GenHead \/ GenUpdateFails \/ GenCancelled
  BY <1>4 DEF GenHead, GenUpdateFails, GenCancelled, caller, workers
<1>5. CASE GenUpdateSTH
  BY <1>5 DEF GenUpdateSTH, caller, workers
<1>6. ASSUME NEW w \in Workers, GenSend(w) PROVE TypeOK'
  <2>1. BatchEnd \in Nat /\ BatchEnd - 1 \in Int
    BY BatchEndFacts
  <2>2. low' \in Nat
    BY <1>6, <2>1 DEF GenSend, Lesser
  <2> QED
    BY <1>6, <2>1, <2>2 DEF GenSend, caller
<1>7. ASSUME NEW w \in Workers, WorkerResponse(w) PROVE TypeOK'
  BY <1>7 DEF WorkerResponse, caller, generator
<1>8. ASSUME NEW w \in Workers,
             WorkerCheck(w) \/ WorkerError(w) \/ WorkerExit(w)
      PROVE TypeOK'
  BY <1>8 DEF WorkerCheck, WorkerError, WorkerExit, caller, generator
<1>9. CASE Finished \/ UNCHANGED vars
  BY <1>9 DEF Finished, vars
<1> QED
  BY <1>1, <1>2, <1>3, <1>4, <1>5, <1>6, <1>7, <1>8, <1>9 DEF Next

\* What the generator knows about its bounds survives every step.
LEMMA GeneratorStep == IInv /\ [Next]_vars => GeneratorInv'
<1> SUFFICES ASSUME IInv, [Next]_vars PROVE GeneratorInv'
  OBVIOUS
<1> USE FetcherAssumption DEF IInv, TypeOK, GeneratorInv, CctxDone
<1>1. CASE Prepare
  BY <1>1 DEF Prepare, FitEndIndex, NoSTH, caller, generator, workers
<1>2. CASE RunCall \/ RunPrepareFails \/ RunReturn \/ Stop \/ CancelContext
  BY <1>2 DEF RunCall, RunPrepareFails, RunReturn, Stop, CancelContext,
              generator, workers
<1>3. CASE RunStart
  BY <1>3 DEF RunStart, NoSTH
<1>4. CASE GenHead \/ GenUpdateFails \/ GenCancelled
  <2>1. GenCancelled => ctxDone \/ stopAsked
    BY DEF GenCancelled, WorkerInv
  <2> QED
    BY <1>4, <2>1 DEF GenHead, GenUpdateFails, GenCancelled, caller, workers
<1>5. CASE GenUpdateSTH
  BY <1>5 DEF GenUpdateSTH, BigEnough, NoSTH, caller, workers
<1>6. ASSUME NEW w \in Workers, GenSend(w) PROVE GeneratorInv'
  <2>1. start # end /\ (start > end => opts.Continuous /\ low = start)
    BY <1>6 DEF GenSend
  <2>2. BatchEnd \in Nat /\ BatchEnd <= end
    BY <2>1, BatchEndFacts
  <2>3. low' <= start' /\ (~opts.Continuous => low' = low)
    BY <1>6, <2>1, <2>2, BatchEndFacts DEF GenSend, Lesser
  <2> QED
    BY <1>6, <2>1, <2>2, <2>3 DEF GenSend, caller
<1>7. ASSUME NEW w \in Workers,
             WorkerCheck(w) \/ WorkerResponse(w) \/ WorkerError(w) \/ WorkerExit(w)
      PROVE GeneratorInv'
  BY <1>7 DEF WorkerCheck, WorkerResponse, WorkerError, WorkerExit, caller, generator
<1>8. CASE Finished \/ UNCHANGED vars
  BY <1>8 DEF Finished, vars
<1> QED
  BY <1>1, <1>2, <1>3, <1>4, <1>5, <1>6, <1>7, <1>8 DEF Next

\* What a worker holds stays inside what the generator has passed.
LEMMA WorkerStep == IInv /\ [Next]_vars => WorkerInv'
<1> SUFFICES ASSUME IInv, [Next]_vars PROVE WorkerInv'
  OBVIOUS
<1> USE FetcherAssumption DEF IInv, TypeOK, WorkerInv
<1>1. CASE Prepare
  BY <1>1 DEF Prepare, caller, generator, workers
<1>2. CASE RunCall \/ RunPrepareFails \/ RunReturn \/ Stop \/ CancelContext
  BY <1>2 DEF RunCall, RunPrepareFails, RunReturn, Stop, CancelContext,
              GeneratorInv, generator, workers
<1>3. CASE RunStart
  BY <1>3 DEF RunStart, GeneratorInv
<1>4. CASE GenHead \/ GenUpdateFails \/ GenCancelled
  BY <1>4 DEF GenHead, GenUpdateFails, GenCancelled, GeneratorInv, caller, workers
<1>5. CASE GenUpdateSTH
  BY <1>5 DEF GenUpdateSTH, caller, workers
<1>6. ASSUME NEW w \in Workers, GenSend(w) PROVE WorkerInv'
  <2>1. /\ BatchEnd \in Nat
        /\ start < BatchEnd \/ (BatchEnd <= start /\ low = start)
    <3>1. start # end /\ (start > end => low = start)
      BY <1>6 DEF GenSend, GeneratorInv
    <3> QED
      BY <3>1, BatchEndFacts
  <2>2. low' \in Nat /\ low' <= low /\ low' <= BatchEnd
    BY <2>1, <1>6 DEF GenSend, Lesser
  <2>3. /\ rng' = [rng EXCEPT ![w] = [start |-> start, end |-> BatchEnd - 1]]
        /\ wpc' = [wpc EXCEPT ![w] = "check"]
        /\ start' = BatchEnd /\ gpc = "send" /\ gpc' = "head" /\ wpc[w] = "idle"
        /\ UNCHANGED <<run, ctxDone, cancelled, stopAsked>>
    BY <1>6 DEF GenSend, caller
  <2>4. low <= start
    BY DEF GeneratorInv
  <2>5. run' # "returned"
    BY <2>3
  <2>6. ASSUME NEW v \in Workers, v # w
        PROVE  /\ wpc'[v] = wpc[v]
               /\ rng'[v] = rng[v]
               /\ rng[v].start <= rng[v].end => rng[v].end < BatchEnd /\ low' <= rng[v].start
    BY <2>1, <2>2, <2>3, <2>6
  <2>7. /\ wpc'[w] = "check"
        /\ rng'[w] = [start |-> start, end |-> BatchEnd - 1]
    BY <2>3
  <2>8. rng'[w].start <= rng'[w].end => rng'[w].end < start' /\ low' <= rng'[w].start
    BY <2>1, <2>2, <2>3, <2>4, <2>7
  <2> QED
    BY <2>3, <2>5, <2>6, <2>7, <2>8
<1>7. ASSUME NEW w \in Workers, WorkerResponse(w) PROVE WorkerInv'
  BY <1>7 DEF WorkerResponse, caller, generator
<1>8. ASSUME NEW w \in Workers,
             WorkerCheck(w) \/ WorkerError(w) \/ WorkerExit(w)
      PROVE WorkerInv'
  BY <1>8 DEF WorkerCheck, WorkerError, WorkerExit, caller, generator
<1>9. CASE Finished \/ UNCHANGED vars
  BY <1>9 DEF Finished, vars
<1> QED
  BY <1>1, <1>2, <1>3, <1>4, <1>5, <1>6, <1>7, <1>8, <1>9 DEF Next

\* The steps that touch neither the ranges nor the deliveries nor start.
LEMMA AccountingUntouched ==
  ASSUME EntryAccounting, UNCHANGED <<low, start, rng, delivered>>
  PROVE  EntryAccounting'
  BY DEF EntryAccounting, Holds

\* Handing a batch to a worker moves its entries from "not passed" to "held".
LEMMA AccountingSend ==
  ASSUME IInv, NEW w \in Workers, GenSend(w)
  PROVE  EntryAccounting'
<1> USE DEF IInv, TypeOK
<1>1. /\ rng' = [rng EXCEPT ![w] = [start |-> start, end |-> BatchEnd - 1]]
      /\ start' = BatchEnd /\ gpc = "send" /\ wpc[w] = "idle"
      /\ low' = Lesser(low, BatchEnd) /\ delivered' = delivered
  BY DEF GenSend
<1>2. start # end /\ (start > end => low = start) /\ low <= start
  BY <1>1 DEF GeneratorInv
<1>3. /\ BatchEnd \in Nat
      /\ \/ start < BatchEnd /\ low' = low
         \/ BatchEnd <= start /\ low = start /\ low' = BatchEnd
  BY <1>1, <1>2, BatchEndFacts DEF Lesser
<1>4. SUFFICES ASSUME NEW i \in Index
               PROVE  /\ delivered[i] <= 1
                      /\ low' <= i /\ i < BatchEnd <=>
                           (delivered[i] = 1 \/ \E v \in Workers : Holds(v, i)')
                      /\ \A v \in Workers : Holds(v, i)' => delivered[i] = 0
                      /\ \A v1, v2 \in Workers :
                           Holds(v1, i)' /\ Holds(v2, i)' => v1 = v2
  BY <1>1 DEF EntryAccounting
<1>5. /\ i \in Int
      /\ delivered[i] \in Nat
      /\ delivered[i] <= 1
      /\ low <= i /\ i < start <=> (delivered[i] = 1 \/ \E v \in Workers : Holds(v, i))
      /\ \A v \in Workers : Holds(v, i) => delivered[i] = 0
      /\ \A v1, v2 \in Workers : Holds(v1, i) /\ Holds(v2, i) => v1 = v2
  BY DEF EntryAccounting, Index
<1>6. ~Holds(w, i)
  BY <1>1, <1>5 DEF WorkerInv, Holds
<1>7. Holds(w, i)' <=> start <= i /\ i < BatchEnd
  BY <1>1, <1>3, <1>5 DEF Holds
<1>8. \A v \in Workers : v # w => (Holds(v, i)' <=> Holds(v, i))
  BY <1>1 DEF Holds
<1>9. CASE start < BatchEnd /\ low' = low
  BY <1>2, <1>3, <1>5, <1>6, <1>7, <1>8, <1>9
<1>10. CASE BatchEnd <= start /\ low = start /\ low' = BatchEnd
  BY <1>2, <1>3, <1>5, <1>6, <1>7, <1>8, <1>10
<1> QED
  BY <1>3, <1>9, <1>10

\* A response moves its entries from "held" to "delivered".
LEMMA AccountingResponse ==
  ASSUME IInv, NEW w \in Workers, WorkerResponse(w)
  PROVE  EntryAccounting' /\ \A i \in Index : delivered'[i] > 0 => low <= i /\ i < start
<1> USE DEF IInv, TypeOK
<1>1. PICK n \in 0 .. (rng[w].end - rng[w].start + 1) :
        /\ delivered' = [i \in Index |->
             IF rng[w].start <= i /\ i < rng[w].start + n THEN delivered[i] + 1
                                                          ELSE delivered[i]]
        /\ rng' = [rng EXCEPT ![w].start = @ + n]
  BY DEF WorkerResponse
<1>2. start' = start /\ low' = low /\ rng[w].start <= rng[w].end
  BY DEF WorkerResponse, generator, WorkerInv
<1>3. n \in Int /\ 0 <= n /\ n <= rng[w].end - rng[w].start + 1
  BY <1>1
<1>4. SUFFICES ASSUME NEW i \in Index
               PROVE  /\ delivered'[i] <= 1
                      /\ low <= i /\ i < start <=>
                           (delivered'[i] = 1 \/ \E v \in Workers : Holds(v, i)')
                      /\ \A v \in Workers : Holds(v, i)' => delivered'[i] = 0
                      /\ \A v1, v2 \in Workers :
                           Holds(v1, i)' /\ Holds(v2, i)' => v1 = v2
                      /\ delivered'[i] > 0 => low <= i /\ i < start
  BY <1>2 DEF EntryAccounting
<1>5. /\ i \in Int
      /\ delivered[i] \in Nat
      /\ delivered[i] <= 1
      /\ low <= i /\ i < start <=> (delivered[i] = 1 \/ \E v \in Workers : Holds(v, i))
      /\ \A v \in Workers : Holds(v, i) => delivered[i] = 0
      /\ \A v1, v2 \in Workers : Holds(v1, i) /\ Holds(v2, i) => v1 = v2
  BY DEF EntryAccounting, Index
<1>6. \A v \in Workers : v # w => (Holds(v, i)' <=> Holds(v, i))
  BY <1>1 DEF Holds
<1>7. Holds(w, i)' <=> rng[w].start + n <= i /\ i <= rng[w].end
  BY <1>1, <1>5 DEF Holds
<1>8. CASE rng[w].start <= i /\ i < rng[w].start + n
  <2>1. Holds(w, i) /\ ~Holds(w, i)'
    BY <1>3, <1>5, <1>7, <1>8 DEF Holds
  <2>2. delivered[i] = 0 /\ delivered'[i] = 1
    BY <1>1, <1>5, <1>8, <2>1
  <2>3. \A v \in Workers : ~Holds(v, i)'
    BY <1>5, <1>6, <2>1
  <2> QED
    BY <1>5, <2>1, <2>2, <2>3
<1>9. CASE ~(rng[w].start <= i /\ i < rng[w].start + n)
  <2>1. Holds(w, i)' <=> Holds(w, i)
    BY <1>3, <1>5, <1>7, <1>9 DEF Holds
  <2>2. delivered'[i] = delivered[i]
    BY <1>1, <1>9
  <2> QED
    BY <1>5, <1>6, <2>1, <2>2
<1> QED
  BY <1>8, <1>9

\* EntryAccounting and WithinSTH survive every step.
LEMMA AccountingStep == IInv /\ [Next]_vars => EntryAccounting' /\ WithinSTH'
<1> SUFFICES ASSUME IInv, [Next]_vars PROVE EntryAccounting' /\ WithinSTH'
  OBVIOUS
<1> USE DEF IInv
<1>a. \A i \in Index : delivered[i] > 0 => low <= i /\ i < start
  BY DEF EntryAccounting, TypeOK
<1>b. \A i \in Index : delivered[i] > 0 => i < end /\ gpc # "off"
  BY <1>a DEF GeneratorInv, TypeOK, Index
<1>1. CASE Prepare
  BY <1>1, <1>b, AccountingUntouched
  DEF Prepare, WithinSTH, GeneratorInv, TypeOK, NoSTH, caller, generator, workers
<1>2. CASE RunCall \/ RunPrepareFails \/ RunReturn \/ Stop \/ CancelContext
  BY <1>2, AccountingUntouched
  DEF RunCall, RunPrepareFails, RunReturn, Stop, CancelContext, WithinSTH,
      generator, workers
<1>3. CASE RunStart
  <2>1. start = 0 /\ low = 0 /\ gpc = "off"
    BY <1>3 DEF RunStart, GeneratorInv
  <2>2. \A i \in Index : delivered[i] = 0
    BY <1>b, <2>1 DEF TypeOK
  <2>3. \A w \in Workers, i \in Index : ~Holds(w, i)
    BY <2>1 DEF WorkerInv, TypeOK, Holds, Index
  <2>4. start' = low' /\ start' \in Nat /\ UNCHANGED <<rng, delivered, sth>>
    BY <1>3 DEF RunStart, TypeOK
  <2> QED
    BY <2>2, <2>3, <2>4 DEF EntryAccounting, WithinSTH, Holds, Index
<1>4. CASE GenHead \/ GenUpdateFails \/ GenCancelled
  BY <1>4, AccountingUntouched
  DEF GenHead, GenUpdateFails, GenCancelled, WithinSTH, caller, workers
<1>5. CASE GenUpdateSTH
  BY <1>5, <1>b, AccountingUntouched, FetcherAssumption
  DEF GenUpdateSTH, BigEnough, WithinSTH, GeneratorInv, TypeOK, Index, caller, workers
<1>6. ASSUME NEW w \in Workers, GenSend(w) PROVE EntryAccounting' /\ WithinSTH'
  BY <1>6, AccountingSend DEF GenSend, WithinSTH
<1>7. ASSUME NEW w \in Workers, WorkerResponse(w) PROVE EntryAccounting' /\ WithinSTH'
  <2>1. /\ EntryAccounting'
        /\ \A i \in Index : delivered'[i] > 0 => low <= i /\ i < start
    BY <1>7, AccountingResponse
  <2>2. sth' = sth /\ gpc # "off"
    BY <1>7 DEF WorkerResponse, WorkerInv
  <2>3. end <= sth /\ (start > end => low = start)
    BY <2>2 DEF GeneratorInv
  <2> QED
    BY <2>1, <2>2, <2>3 DEF WithinSTH, TypeOK, Index, NoSTH
<1>8. ASSUME NEW w \in Workers,
             WorkerCheck(w) \/ WorkerError(w) \/ WorkerExit(w)
      PROVE EntryAccounting' /\ WithinSTH'
  BY <1>8, AccountingUntouched
  DEF WorkerCheck, WorkerError, WorkerExit, WithinSTH, caller, generator
<1>9. CASE Finished \/ UNCHANGED vars
  BY <1>9, AccountingUntouched DEF Finished, vars, WithinSTH
<1> QED
  BY <1>1, <1>2, <1>3, <1>4, <1>5, <1>6, <1>7, <1>8, <1>9 DEF Next

-----------------------------------------------------------------------------
(* The theorems.                                                           *)

\* The variables keep their types: in particular a continuous Fetcher never
\* computes a negative index, wherever its StartIndex lies.
THEOREM TypeCorrect == Spec => []TypeOK
<1>1. Init => TypeOK
  BY InitEstablishes DEF IInv
<1> QED
  BY <1>1, TypeStep, PTL DEF Spec

\* The strengthened invariant holds in every reachable state.
THEOREM Inductive == Spec => []IInv
<1>1. IInv /\ [Next]_vars => IInv'
  BY TypeStep, GeneratorStep, WorkerStep, AccountingStep DEF IInv
<1> QED
  BY InitEstablishes, <1>1, PTL DEF Spec

\* Every entry the generator has passed was delivered once or is held by one
\* worker, and no other entry is; nothing outside the known tree is fetched.
THEOREM Accounting == Spec => [](EntryAccounting /\ WithinSTH)
<1>1. IInv => EntryAccounting /\ WithinSTH
  BY DEF IInv
<1> QED
  BY Inductive, <1>1, PTL

\* Run returns without cancellation only with all started ranges fetched.
THEOREM GracefulEnd == Spec => []StartedFetchesFinish
<1>1. IInv => StartedFetchesFinish
  <2> SUFFICES ASSUME IInv, run = "returned", ~ctxDone, NEW i \in Index
               PROVE  delivered[i] = IF low <= i /\ i < start THEN 1 ELSE 0
    BY DEF StartedFetchesFinish
  <2>1. \A w \in Workers : rng[w].start > rng[w].end
    BY DEF IInv, WorkerInv
  <2>2. rng \in [Workers -> [start : Nat, end : Int]]
    BY DEF IInv, TypeOK
  <2>3. i \in Int /\ delivered[i] \in Nat
    BY DEF IInv, TypeOK, Index
  <2>4. ASSUME NEW w \in Workers PROVE ~Holds(w, i)
    BY <2>1, <2>2, <2>3 DEF Holds
  <2>5. /\ delivered[i] <= 1
        /\ low <= i /\ i < start <=> (delivered[i] = 1 \/ \E w \in Workers : Holds(w, i))
    BY DEF IInv, EntryAccounting
  <2>6. delivered[i] # 1 => delivered[i] = 0
    BY <2>3, <2>5
  <2> QED
    BY <2>4, <2>5, <2>6
<1> QED
  BY Inductive, <1>1, PTL

\* A one-off Run that nobody disturbs delivers exactly its range, once.
THEOREM CompleteFetch == Spec => []WholeRangeFetched
<1>1. IInv /\ StartedFetchesFinish => WholeRangeFetched
  <2> SUFFICES ASSUME IInv, StartedFetchesFinish,
                      run = "returned", ~ctxDone, ~stopAsked, ~opts.Continuous,
                      NEW i \in Index
               PROVE  delivered[i] = IF opts.StartIndex <= i /\ i < opts.EndIndex
                                     THEN 1 ELSE 0
    BY DEF WholeRangeFetched
  <2>1. PICK w \in Workers : wpc[w] = "quit"
    BY FetcherAssumption DEF IInv, WorkerInv
  <2>2. gpc = "done" /\ gpc # "off"
    BY <2>1 DEF IInv, WorkerInv
  <2>3. /\ start \in Nat /\ end \in Nat /\ low \in Nat /\ i \in Int
        /\ end = opts.EndIndex /\ low = opts.StartIndex
        /\ start >= end /\ (start > end => low = start)
    BY <2>2 DEF IInv, TypeOK, GeneratorInv, Index
  <2>4. delivered[i] = IF low <= i /\ i < start THEN 1 ELSE 0
    BY DEF StartedFetchesFinish
  <2>5. (low <= i /\ i < start) <=> (low <= i /\ i < end)
    BY <2>3
  <2> QED
    BY <2>3, <2>4, <2>5
<1> QED
  BY Inductive, GracefulEnd, <1>1, PTL

\* The Fetcher hands every entry of its range to fn once, at most once if it is
\* disturbed, and accounts for each on the way.
THEOREM ExactFetch == Spec => []FetchExact
<1>1. EntryAccounting /\ WithinSTH /\ StartedFetchesFinish /\ WholeRangeFetched => FetchExact
  BY DEF FetchExact
<1> QED
  BY Accounting, GracefulEnd, CompleteFetch, <1>1, PTL

-----------------------------------------------------------------------------
(* The Fetcher implements the stream: every step is a step of FetchStream  *)
(* or leaves its variables alone.                                          *)

\* Run has returned undisturbed: what was delivered is low .. start - 1, which
\* is a piece of the log because start is beyond the end only if nothing was.
LEMMA ContiguousEnd ==
  ASSUME IInv, run = "returned", ~ctxDone, StartedFetchesFinish
  PROVE  Stream!Contiguous
<1>1. /\ start \in Nat /\ end \in Nat /\ low \in Nat /\ MaxTree \in Nat
      /\ delivered \in [Index -> Nat]
  BY FetcherAssumption DEF IInv, TypeOK
<1>2. gpc # "off" /\ end <= MaxTree /\ low <= start /\ (start > end => low = start)
  BY DEF IInv, GeneratorInv
<1>3. PICK lo, hi \in 0 .. MaxTree : \A i \in Index : (lo <= i /\ i < hi) <=> (low <= i /\ i < start)
  <2>1. CASE start > end
    <3>1. 0 \in 0 .. MaxTree /\ \A i \in Index : (0 <= i /\ i < 0) <=> (low <= i /\ i < start)
      BY <1>1, <1>2, <2>1 DEF Index
    <3> QED
      BY <3>1
  <2>2. CASE ~(start > end)
    <3>1. low \in 0 .. MaxTree /\ start \in 0 .. MaxTree
      BY <1>1, <1>2, <2>2
    <3> QED
      BY <3>1
  <2> QED
    BY <2>1, <2>2
<1>4. \A i \in Index : delivered[i] = IF lo <= i /\ i < hi THEN 1 ELSE 0
  BY <1>3 DEF StartedFetchesFinish
<1>5. delivered = [i \in Index |-> IF lo <= i /\ i < hi THEN 1 ELSE 0]
  BY <1>1, <1>4
<1> QED
  BY <1>3, <1>5 DEF Stream!Contiguous, Stream!Entry, Index

\* The same of the state after a step.
LEMMA ContiguousNext ==
  (IInv /\ run = "returned" /\ ~ctxDone /\ StartedFetchesFinish => Stream!Contiguous)'
<1>1. IInv /\ run = "returned" /\ ~ctxDone /\ StartedFetchesFinish => Stream!Contiguous
  BY ContiguousEnd
<1> QED
  BY <1>1, PTL

\* The stream is open while a worker has a request under way.
LEMMA CallMeansOpen ==
  ASSUME IInv, NEW w \in Workers, wpc[w] = "call"
  PROVE  /\ streamState = "open" /\ run = "running"
         /\ rng[w].start \in Nat /\ rng[w].end \in Int
         /\ rng[w].start <= rng[w].end /\ rng[w].end < end
<1>1. gpc # "off" /\ run # "returned"
  BY DEF IInv, WorkerInv
<1>2. run = "running"
  BY <1>1 DEF IInv, TypeOK, GeneratorInv
<1>3. /\ rng[w].start \in Nat /\ rng[w].end \in Int /\ start \in Nat /\ end \in Nat /\ low \in Nat
      /\ rng[w].start <= rng[w].end /\ rng[w].end < start /\ low <= rng[w].start
  BY DEF IInv, TypeOK, WorkerInv
<1>4. start > end => low = start
  BY DEF IInv, GeneratorInv
<1> QED
  BY <1>2, <1>3, <1>4 DEF streamState

\* The answer of the log is one call of fn.
LEMMA ResponseDelivers ==
  ASSUME IInv, NEW w \in Workers, WorkerResponse(w)
  PROVE  Stream!Deliver
<1>1. PICK n \in 0 .. (rng[w].end - rng[w].start + 1) :
        delivered' = [i \in Index |->
          IF rng[w].start <= i /\ i < rng[w].start + n THEN delivered[i] + 1 ELSE delivered[i]]
  BY DEF WorkerResponse
<1>2. wpc[w] = "call" /\ UNCHANGED <<run, ctxDone, end>>
  BY DEF WorkerResponse, caller, generator
<1>3. /\ streamState = "open" /\ run = "running"
      /\ rng[w].start \in Nat /\ rng[w].end \in Int
      /\ rng[w].start <= rng[w].end /\ rng[w].end < end
  BY <1>2, CallMeansOpen
<1>4. PICK a, b : a = rng[w].start /\ b = rng[w].start + n
  OBVIOUS
<1>5. end \in Nat /\ end <= MaxTree /\ MaxTree \in Nat
  BY <1>3, FetcherAssumption DEF IInv, TypeOK, GeneratorInv
<1>6. a \in 0 .. end /\ b \in 0 .. end /\ n \in Nat /\ b - 1 <= rng[w].end
  BY <1>1, <1>3, <1>4, <1>5
<1>7. ASSUME NEW i \in a .. b - 1 PROVE i \in Index /\ delivered[i] = 0
  <2>1. i \in Index /\ rng[w].start <= i /\ i <= rng[w].end
    BY <1>3, <1>4, <1>5, <1>6 DEF Index
  <2> QED
    BY <2>1 DEF IInv, EntryAccounting, Holds
<1>8. delivered' = [i \in Index |-> IF a <= i /\ i < b THEN 1 ELSE delivered[i]]
  <2>1. \A i \in Index : a <= i /\ i < b => delivered[i] + 1 = 1
    BY <1>6, <1>7 DEF Index
  <2> QED
    BY <1>1, <1>4, <2>1
<1>9. streamState' = streamState
  BY <1>2 DEF streamState
<1> QED
  BY <1>2, <1>3, <1>6, <1>7, <1>8, <1>9 DEF Stream!Deliver, Stream!Entry, Index

\* Every step is one of the stream's or a stutter.
LEMMA StreamStep ==
  ASSUME IInv, IInv', StartedFetchesFinish', [Next]_vars
  PROVE  [Stream!Next]_(Stream!streamVars)
<1> DEFINE Stutter == UNCHANGED <<streamState, ctxDone, end, delivered>>
<1>0. SUFFICES Stream!Next \/ Stutter
  BY DEF Stream!streamVars
<1>1. CASE Prepare \/ RunCall \/ Stop \/ Finished \/ UNCHANGED vars
  BY <1>1 DEF Prepare, RunCall, Stop, Finished, vars, caller, generator, workers, streamState
<1>2. CASE GenHead \/ GenUpdateFails \/ GenCancelled
  BY <1>2 DEF GenHead, GenUpdateFails, GenCancelled, caller, workers, streamState
<1>3. CASE RunPrepareFails
  <2>1. Stream!OpenFails
    BY <1>3 DEF RunPrepareFails, Stream!OpenFails, streamState, generator, workers
  <2> QED
    BY <2>1 DEF Stream!Next
<1>4. CASE RunStart
  <2>1. end' \in 0 .. MaxTree
    BY <1>4, FetcherAssumption DEF RunStart, IInv, TypeOK, GeneratorInv, NoSTH
  <2>2. Stream!Open
    BY <1>4, <2>1 DEF RunStart, Stream!Open, streamState
  <2> QED
    BY <2>2 DEF Stream!Next
<1>5. CASE RunReturn
  <2>1. /\ run = "running" /\ run' = "returned"
        /\ UNCHANGED <<ctxDone, end, delivered, low, start>>
    BY <1>5 DEF RunReturn, generator, workers
  <2>2. ctxDone \/ Stream!Contiguous'
    <3>1. IInv' /\ run' = "returned" /\ StartedFetchesFinish' /\ (~ctxDone => ~ctxDone')
      BY <2>1
    <3> QED
      BY <3>1, ContiguousNext
  <2>3. ctxDone \/ Stream!Contiguous
    BY <2>1, <2>2 DEF Stream!Contiguous, Stream!Entry
  <2>4. Stream!Close
    BY <2>1, <2>3 DEF Stream!Close, streamState
  <2> QED
    BY <2>4 DEF Stream!Next
<1>6. CASE CancelContext
  <2>1. Stream!Abort
    BY <1>6 DEF CancelContext, Stream!Abort, streamState, generator, workers
  <2> QED
    BY <2>1 DEF Stream!Next
<1>7. CASE GenUpdateSTH
  <2>1. PICK size \in 0 .. MaxTree : size > opts.EndIndex /\ end' = size
    BY <1>7 DEF GenUpdateSTH, BigEnough
  <2>2. gpc = "update" /\ UNCHANGED <<run, ctxDone, delivered>>
    BY <1>7 DEF GenUpdateSTH, caller, workers
  <2>3. end = opts.EndIndex /\ end \in Nat /\ run \in {"running", "returned"} /\ MaxTree \in Nat
    BY <2>2, FetcherAssumption DEF IInv, TypeOK, GeneratorInv
  <2>4. run = "returned" => ctxDone
    BY <2>2, FetcherAssumption DEF IInv, WorkerInv
  <2>5. end' \in end + 1 .. MaxTree
    BY <2>1, <2>3
  <2>6. Stream!Grow
    BY <2>2, <2>3, <2>4, <2>5 DEF Stream!Grow, streamState
  <2> QED
    BY <2>6 DEF Stream!Next
<1>8. ASSUME NEW w \in Workers,
             GenSend(w) \/ WorkerCheck(w) \/ WorkerError(w) \/ WorkerExit(w)
      PROVE  Stutter
  BY <1>8 DEF GenSend, WorkerCheck, WorkerError, WorkerExit, caller, generator, streamState
<1>9. ASSUME NEW w \in Workers, WorkerResponse(w) PROVE Stream!Next
  BY <1>9, ResponseDelivers DEF Stream!Next
<1> QED
  BY <1>1, <1>2, <1>3, <1>4, <1>5, <1>6, <1>7, <1>8, <1>9 DEF Next

\* The Fetcher implements FetchStream: what its callers rely on, whatever it does
\* inside, for any number of workers, batch size, options and tree bound.
THEOREM Refinement == Spec => ImplementsStream
<1>1. Init => Stream!Init
  BY DEF Init, Stream!Init, streamState, Stream!Entry, Index
<1>2. IInv /\ IInv' /\ StartedFetchesFinish' /\ [Next]_vars => [Stream!Next]_(Stream!streamVars)
  BY StreamStep
<1> QED
  BY <1>1, <1>2, Inductive, GracefulEnd, PTL DEF Spec, ImplementsStream, Stream!Spec
=============================================================================
