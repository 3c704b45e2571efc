---------------------------- MODULE ScannerProofs ----------------------------
(***************************************************************************)
(* Proofs about Scanner: for every log, options, batch and buffer size and *)
(* number of workers.                                                      *)
(***************************************************************************)
EXTENDS Scanner, FiniteSetTheorems, TLAPS

\* What every variable may hold.
TypeOK ==
  /\ opts \in OptionType
  /\ pc \in {"prepare", "run", "wait", "returned", "failed"}
  /\ aborted \in BOOLEAN
  /\ next \in Nat
  /\ range \in [FetchWorkers -> Seq(Nat)] /\ batch \in [FetchWorkers -> Seq(Nat)]
  /\ scanned \in SUBSET Nat
  /\ entries \in Seq(Nat)
  /\ matching \in [Matchers -> Nat]
  /\ foundCert \in Seq(Nat) /\ foundPrecert \in Seq(Nat)

\* Before Run there is nothing; after it the Fetcher's workers are done.
Nothing == /\ next = opts.startIndex /\ scanned = {}
           /\ \A w \in FetchWorkers : range[w] = <<>> /\ batch[w] = <<>>
PhaseInv ==
  /\ pc \in {"prepare", "failed"} => Nothing
  /\ pc \in {"run", "wait", "returned"} => opts.endIndex <= Len(Log)
  /\ pc \in {"wait", "returned"} => FetchDone
  /\ pc = "returned" => entries = <<>> /\ \A m \in Matchers : matching[m] = 0

\* The indices given out so far are in the ranges of the workers, each in one, or
\* were scanned, unless a worker gave its range up.
RangeInv ==
  /\ opts.startIndex <= next /\ (next <= opts.endIndex \/ next = opts.startIndex)
  /\ scanned \subseteq opts.startIndex + 1 .. next
  /\ \A w \in FetchWorkers :
       /\ IsInjective(range[w])
       /\ ToSet(range[w]) \subseteq (opts.startIndex + 1 .. next) \ scanned
  /\ \A v, w \in FetchWorkers : v # w => ToSet(range[v]) \cap ToSet(range[w]) = {}
  /\ ~aborted => \A i \in opts.startIndex + 1 .. next :
                   i \in scanned \/ \E w \in FetchWorkers : i \in ToSet(range[w])

\* An entry that was scanned is in one place at a time: in a batch, in the
\* channel or with a matcher.
PlaceInv ==
  /\ \A w \in FetchWorkers : IsInjective(batch[w]) /\ ToSet(batch[w]) \subseteq scanned
  /\ \A v, w \in FetchWorkers : v # w => ToSet(batch[v]) \cap ToSet(batch[w]) = {}
  /\ IsInjective(entries) /\ ToSet(entries) \subseteq scanned
  /\ \A w \in FetchWorkers : ToSet(batch[w]) \cap ToSet(entries) = {}
  /\ \A m \in Matchers : matching[m] # 0 =>
       /\ matching[m] \in scanned \ ToSet(entries)
       /\ \A w \in FetchWorkers : matching[m] \notin ToSet(batch[w])
       /\ \A k \in Matchers : k # m => matching[k] # matching[m]

\* The entries in none of these places are those that were processed: they are
\* what the counters count and the callbacks were called for.
Processed == {i \in scanned : /\ \A w \in FetchWorkers : i \notin ToSet(batch[w])
                              /\ i \notin ToSet(entries)
                              /\ \A m \in Matchers : matching[m] # i}
Outcome(i) == ProcessEntry(opts, Log[i])
ProcessedWith(name) == {i \in Processed : name \in Outcome(i).tallies}
ProcessedAs(kind) == {i \in Processed : Outcome(i).found = kind}
CountInv ==
  /\ certsProcessed = Cardinality(Processed)
  /\ certsMatched = Cardinality(ProcessedWith("matched"))
  /\ precertsSeen = Cardinality(ProcessedWith("precert"))
  /\ unparsableEntries = Cardinality(ProcessedWith("unparsable"))
  /\ entriesWithNonFatalErrors = Cardinality(ProcessedWith("nonFatal"))
  /\ IsInjective(foundCert) /\ ToSet(foundCert) = ProcessedAs("cert")
  /\ IsInjective(foundPrecert) /\ ToSet(foundPrecert) = ProcessedAs("precert")

IInv == TypeOK /\ PhaseInv /\ RangeInv /\ PlaceInv /\ CountInv

-----------------------------------------------------------------------------
(* Sequences of distinct indices.                                           *)

\* The first element of such a sequence is not among the others.
LEMMA HeadAndTail ==
  ASSUME NEW q \in Seq(Nat), q # <<>>
  PROVE  /\ Head(q) \in Nat /\ Tail(q) \in Seq(Nat)
         /\ ToSet(q) = {Head(q)} \cup ToSet(Tail(q))
         /\ IsInjective(q) => IsInjective(Tail(q)) /\ Head(q) \notin ToSet(Tail(q))
<1>1. /\ Len(q) \in Nat /\ Len(q) >= 1 /\ DOMAIN q = 1 .. Len(q)
      /\ Head(q) = q[1] /\ Head(q) \in Nat /\ Tail(q) \in Seq(Nat)
      /\ DOMAIN Tail(q) = 1 .. Len(q) - 1
  OBVIOUS
<1>2. \A i \in 1 .. Len(q) - 1 : Tail(q)[i] = q[i + 1] /\ i + 1 \in 1 .. Len(q) /\ i + 1 # 1
  OBVIOUS
<1>3. \A i \in 1 .. Len(q) : i # 1 => i - 1 \in 1 .. Len(q) - 1 /\ Tail(q)[i - 1] = q[i]
  <2> TAKE i \in 1 .. Len(q)
  <2> HAVE i # 1
  <2>1. i - 1 \in 1 .. Len(q) - 1 /\ (i - 1) + 1 = i
    BY <1>1
  <2> QED
    BY <1>2, <2>1
<1> HIDE DEF ToSet
<1>4. ToSet(q) \subseteq {Head(q)} \cup ToSet(Tail(q))
  BY <1>1, <1>3 DEF ToSet
<1>5. {Head(q)} \cup ToSet(Tail(q)) \subseteq ToSet(q)
  BY <1>1, <1>2 DEF ToSet
<1>6. ASSUME IsInjective(q) PROVE IsInjective(Tail(q)) /\ Head(q) \notin ToSet(Tail(q))
  <2>1. \A i, k \in 1 .. Len(q) : q[i] = q[k] => i = k
    BY <1>1, <1>6 DEF IsInjective
  <2>2. ASSUME NEW i \in 1 .. Len(q) - 1, NEW k \in 1 .. Len(q) - 1, Tail(q)[i] = Tail(q)[k]
        PROVE  i = k
    <3>1. i + 1 = k + 1
      BY <1>2, <2>1, <2>2
    <3> QED
      BY <3>1
  <2>3. Head(q) \notin ToSet(Tail(q))
    <3>1. ASSUME NEW i \in 1 .. Len(q) - 1 PROVE Tail(q)[i] # Head(q)
      <4>1. 1 \in 1 .. Len(q) /\ q[i + 1] # q[1]
        BY <1>1, <1>2, <2>1
      <4> QED
        BY <1>1, <1>2, <4>1
    <3> QED
      BY <1>1, <3>1 DEF ToSet
  <2> QED
    BY <1>1, <2>2, <2>3 DEF IsInjective
<1> QED
  BY <1>1, <1>4, <1>5, <1>6

\* A new index can be appended.
LEMMA AppendFacts ==
  ASSUME NEW q \in Seq(Nat), NEW e \in Nat
  PROVE  /\ Append(q, e) \in Seq(Nat) /\ ToSet(Append(q, e)) = ToSet(q) \cup {e}
         /\ IsInjective(q) /\ e \notin ToSet(q) => IsInjective(Append(q, e))
<1> DEFINE a == Append(q, e)
<1>1. /\ a \in Seq(Nat) /\ Len(q) \in Nat /\ a[Len(q) + 1] = e
      /\ DOMAIN a = 1 .. Len(q) + 1 /\ DOMAIN q = 1 .. Len(q)
  OBVIOUS
<1>2. \A i \in 1 .. Len(q) : a[i] = q[i]
  OBVIOUS
<1> HIDE DEF a
<1>3. ToSet(a) \subseteq ToSet(q) \cup {e}
  BY <1>1, <1>2 DEF ToSet
<1>4. ToSet(q) \cup {e} \subseteq ToSet(a)
  BY <1>1, <1>2 DEF ToSet
<1>5. ASSUME IsInjective(q), e \notin ToSet(q) PROVE IsInjective(a)
  <2>1. \A i \in 1 .. Len(q) : a[i] # e
    BY <1>1, <1>2, <1>5 DEF ToSet
  <2> QED
    BY <1>1, <1>2, <1>5, <2>1 DEF IsInjective
<1> QED
  BY <1>1, <1>3, <1>4, <1>5 DEF a

\* Cut in two, it gives two that have nothing in common.
LEMMA SplitFacts ==
  ASSUME NEW q \in Seq(Nat), NEW n \in 1 .. Len(q)
  PROVE  LET a == SubSeq(q, 1, n)
             b == SubSeq(q, n + 1, Len(q))
         IN  /\ a \in Seq(Nat) /\ b \in Seq(Nat) /\ ToSet(q) = ToSet(a) \cup ToSet(b)
             /\ IsInjective(q) =>
                  IsInjective(a) /\ IsInjective(b) /\ ToSet(a) \cap ToSet(b) = {}
<1> DEFINE a == SubSeq(q, 1, n)
           b == SubSeq(q, n + 1, Len(q))
<1>1. Len(q) \in Nat /\ DOMAIN q = 1 .. Len(q) /\ n \in Nat /\ n <= Len(q)
  OBVIOUS
<1>2. /\ a \in Seq(Nat) /\ DOMAIN a = 1 .. n
      /\ \A i \in 1 .. n : a[i] = q[i] /\ i \in 1 .. Len(q)
  OBVIOUS
<1>3. /\ b \in Seq(Nat) /\ DOMAIN b = 1 .. Len(q) - n
      /\ \A i \in 1 .. Len(q) - n : b[i] = q[n + i] /\ n + i \in 1 .. Len(q)
  <2>1. PICK k : k = n + 1
    OBVIOUS
  <2>2. k \in Nat \ {0} /\ Len(q) - k + 1 = Len(q) - n /\ \A i \in Int : k + i - 1 = n + i
    BY <1>1, <2>1
  <2>3. b = [i \in 1 .. Len(q) - k + 1 |-> q[i + k - 1]]
    BY <1>1, <2>1, <2>2 DEF SubSeq
  <2> QED
    BY <1>1, <2>2, <2>3
<1> HIDE DEF a, b
<1>4. ToSet(q) \subseteq ToSet(a) \cup ToSet(b)
  <2> SUFFICES ASSUME NEW i \in 1 .. Len(q), ~(i <= n) PROVE q[i] \in ToSet(b)
    BY <1>1, <1>2 DEF ToSet
  <2>1. i - n \in 1 .. Len(q) - n /\ n + (i - n) = i
    BY <1>1
  <2> QED
    BY <1>3, <2>1 DEF ToSet
<1>5. ToSet(a) \cup ToSet(b) \subseteq ToSet(q)
  BY <1>1, <1>2, <1>3 DEF ToSet
<1>6. ASSUME IsInjective(q)
      PROVE  IsInjective(a) /\ IsInjective(b) /\ ToSet(a) \cap ToSet(b) = {}
  <2>1. \A i, k \in 1 .. Len(q) : q[i] = q[k] => i = k
    BY <1>1, <1>6 DEF IsInjective
  <2>2. IsInjective(a)
    BY <1>2, <2>1 DEF IsInjective
  <2>3. ASSUME NEW i \in 1 .. Len(q) - n, NEW k \in 1 .. Len(q) - n, b[i] = b[k] PROVE i = k
    <3>1. n + i = n + k
      BY <1>3, <2>1, <2>3
    <3> QED
      BY <1>1, <3>1
  <2>4. ASSUME NEW i \in 1 .. n, NEW k \in 1 .. Len(q) - n PROVE a[i] # b[k]
    <3>1. i # n + k
      BY <1>1
    <3> QED
      BY <1>2, <1>3, <2>1, <3>1
  <2>5. IsInjective(b)
    BY <1>3, <2>3 DEF IsInjective
  <2>6. ToSet(a) \cap ToSet(b) = {}
    BY <1>2, <1>3, <2>4 DEF ToSet
  <2> QED
    BY <2>2, <2>5, <2>6
<1> QED
  BY <1>2, <1>3, <1>4, <1>5, <1>6 DEF a, b

\* A range holds the indices after its start.
LEMMA RangeFacts ==
  ASSUME NEW s \in Nat, NEW n \in Nat
  PROVE  LET q == [i \in 1 .. n |-> s + i]
         IN  q \in Seq(Nat) /\ IsInjective(q) /\ ToSet(q) = s + 1 .. s + n
<1> DEFINE q == [i \in 1 .. n |-> s + i]
<1>1. q \in Seq(Nat) /\ DOMAIN q = 1 .. n /\ \A i \in 1 .. n : q[i] = s + i
  OBVIOUS
<1> HIDE DEF q
<1>2. IsInjective(q)
  BY <1>1 DEF IsInjective
<1>3. ToSet(q) \subseteq s + 1 .. s + n
  BY <1>1 DEF ToSet
<1>4. ASSUME NEW k \in s + 1 .. s + n PROVE k \in ToSet(q)
  <2>1. k - s \in 1 .. n /\ s + (k - s) = k
    OBVIOUS
  <2> QED
    BY <1>1, <2>1 DEF ToSet
<1> QED
  BY <1>1, <1>2, <1>3, <1>4 DEF q

\* The empty sequence holds nothing.
LEMMA EmptyFacts == ToSet(<<>>) = {} /\ IsInjective(<<>>)
  BY DEF ToSet, IsInjective

-----------------------------------------------------------------------------
(* The invariant is inductive.                                              *)

\* Before Run there is nothing to count.
LEMMA InitEstablishes == Init => IInv
<1> SUFFICES ASSUME Init PROVE IInv
  OBVIOUS
<1>1. opts \in OptionType
  BY ScannerAssumption DEF Init, NewScanner
<1>2. opts.startIndex \in Nat /\ opts.endIndex \in Nat
  BY <1>1 DEF OptionType
<1>3. TypeOK
  <2>1. aborted \in BOOLEAN
    BY Zenon DEF Init
  <2>2. /\ <<>> \in Seq(Nat) /\ 0 \in Nat /\ next \in Nat
        /\ range = [w \in FetchWorkers |-> <<>>] /\ batch = [w \in FetchWorkers |-> <<>>]
        /\ matching = [m \in Matchers |-> 0]
        /\ entries = <<>> /\ foundCert = <<>> /\ foundPrecert = <<>> /\ scanned = {}
        /\ pc = "prepare"
    BY <1>2 DEF Init
  <2> QED
    BY <1>1, <2>1, <2>2 DEF TypeOK
<1>4. PhaseInv
  BY DEF Init, PhaseInv, Nothing
<1>5. RangeInv
  BY <1>2, EmptyFacts DEF Init, RangeInv
<1>6. PlaceInv
  BY EmptyFacts DEF Init, PlaceInv
<1>7. Processed = {} /\ \A k : ProcessedAs(k) = {} /\ ProcessedWith(k) = {}
  BY DEF Init, Processed, ProcessedAs, ProcessedWith
<1>8. CountInv
  BY <1>7, EmptyFacts, FS_EmptySet DEF Init, CountInv
<1> QED
  BY <1>3, <1>4, <1>5, <1>6, <1>8 DEF IInv

\* The counts follow what was processed and nothing else.
LEMMA CountSame ==
  ASSUME CountInv, Processed' = Processed, UNCHANGED <<opts, counters>>
  PROVE  CountInv'
<1>1. \A k : ProcessedAs(k)' = ProcessedAs(k) /\ ProcessedWith(k)' = ProcessedWith(k)
  BY DEF ProcessedAs, ProcessedWith, Outcome
<1> QED
  BY <1>1 DEF CountInv, counters

\* Steps of ScanLog itself, and the end of the context.
LEMMA ControlStep ==
  ASSUME IInv, Cancel \/ RunReturns \/ ScanLogReturns \/ UNCHANGED vars
  PROVE  IInv'
<1> USE DEF IInv
<1>1. UNCHANGED <<opts, next, range, batch, scanned, entries, matching, counters>>
  BY DEF Cancel, RunReturns, ScanLogReturns, vars
<1>2. CountInv'
  BY <1>1, CountSame DEF Processed
<1>3. PlaceInv'
  BY <1>1 DEF PlaceInv
<1>4. RangeInv'
  BY <1>1 DEF RangeInv, TypeOK, Cancel, RunReturns, ScanLogReturns, vars
<1>5. TypeOK'
  BY <1>1 DEF TypeOK, counters, Cancel, RunReturns, ScanLogReturns, vars
<1>6. PhaseInv'
  <2>1. CASE Cancel
    BY <1>1, <2>1 DEF PhaseInv, Nothing, Cancel
  <2>2. CASE RunReturns
    BY <1>1, <2>2 DEF PhaseInv, Nothing, RunReturns, FetchDone
  <2>3. CASE ScanLogReturns
    BY <1>1, <2>3 DEF PhaseInv, Nothing, ScanLogReturns, FetchDone
  <2>4. CASE UNCHANGED vars
    BY <1>1, <2>4 DEF PhaseInv, Nothing, FetchDone, vars
  <2> QED
    BY <2>1, <2>2, <2>3, <2>4
<1> QED
  BY <1>2, <1>3, <1>4, <1>5, <1>6

\* Fetcher.Prepare sets the end before anything is scanned.
LEMMA PrepareStep == ASSUME IInv, Prepare PROVE IInv'
<1> USE DEF IInv
<1>1. UNCHANGED <<aborted, next, range, batch, scanned, entries, matching, counters>>
  BY DEF Prepare
<1>2. /\ opts \in OptionType /\ opts' \in OptionType /\ opts'.startIndex = opts.startIndex
      /\ pc' = "failed" \/ (pc' = "run" /\ opts'.endIndex <= Len(Log))
  <2>1. opts \in OptionType
    BY DEF TypeOK
  <2>2. CASE pc' = "failed" /\ UNCHANGED opts
    BY <2>1, <2>2
  <2>3. ASSUME opts' = [opts EXCEPT !.endIndex = IF @ = 0 \/ @ > Len(Log) THEN Len(Log) ELSE @]
        PROVE  opts' \in OptionType /\ opts'.startIndex = opts.startIndex /\ opts'.endIndex <= Len(Log)
    <3>1. PICK n : n = IF opts.endIndex = 0 \/ opts.endIndex > Len(Log) THEN Len(Log)
                       ELSE opts.endIndex
      OBVIOUS
    <3>2. opts.endIndex \in Nat
      BY <2>1 DEF OptionType
    <3>3. n \in Nat /\ n <= Len(Log)
      BY <3>1, <3>2, ScannerAssumption
    <3>4. opts' = [opts EXCEPT !.endIndex = n]
      BY <2>3, <3>1
    <3> QED
      BY <2>1, <3>3, <3>4 DEF OptionType
  <2> QED
    BY <2>1, <2>2, <2>3 DEF Prepare
<1>3. Nothing /\ Nothing'
  BY <1>1, <1>2 DEF PhaseInv, Prepare, Nothing
<1>4. TypeOK'
  BY <1>1, <1>2 DEF TypeOK, counters
<1>5. PhaseInv'
  BY <1>2, <1>3 DEF PhaseInv
<1>6. PlaceInv'
  BY <1>1 DEF PlaceInv
<1>7. RangeInv'
  <2>1. opts'.startIndex \in Nat /\ next' = opts'.startIndex /\ scanned' = {}
    BY <1>2, <1>3 DEF Nothing, OptionType
  <2>2. \A w \in FetchWorkers : range'[w] = <<>>
    BY <1>3 DEF Nothing
  <2> QED
    BY <2>1, <2>2, EmptyFacts DEF RangeInv
<1>8. CountInv'
  <2>1. Processed = {} /\ Processed' = {}
    BY <1>3 DEF Nothing, Processed
  <2>2. \A k : /\ ProcessedAs(k) = {} /\ ProcessedWith(k) = {}
               /\ ProcessedAs(k)' = {} /\ ProcessedWith(k)' = {}
    BY <2>1 DEF ProcessedAs, ProcessedWith
  <2> QED
    BY <1>1, <2>1, <2>2 DEF CountInv, counters
<1> QED
  BY <1>4, <1>5, <1>6, <1>7, <1>8

\* Fetcher.genRanges: a range of new indices goes to a worker.
LEMMA TakeRangeStep == ASSUME IInv, NEW w \in FetchWorkers, TakeRange(w) PROVE IInv'
<1> USE DEF IInv
<1>1. /\ UNCHANGED <<opts, pc, aborted, batch, scanned, entries, matching, counters>>
      /\ pc = "run" /\ range[w] = <<>> /\ next < opts.endIndex
  BY DEF TakeRange
<1>2. PICK n : n = IF opts.endIndex - next < BatchSize THEN opts.endIndex - next ELSE BatchSize
  OBVIOUS
<1>3. range' = [range EXCEPT ![w] = [i \in 1 .. n |-> next + i]] /\ next' = next + n
  BY <1>2 DEF TakeRange
<1>4. opts.endIndex \in Nat /\ opts.startIndex \in Nat /\ next \in Nat
  BY DEF TypeOK, OptionType
<1>5. n \in Nat /\ next + n <= opts.endIndex
  BY <1>1, <1>2, <1>4, ScannerAssumption
<1>6. PICK q : q = [i \in 1 .. n |-> next + i]
  OBVIOUS
<1>7. q \in Seq(Nat) /\ IsInjective(q) /\ ToSet(q) = next + 1 .. next'
  BY <1>3, <1>4, <1>5, <1>6, RangeFacts
<1>8. /\ range'[w] = q /\ \A v \in FetchWorkers : v # w => range'[v] = range[v]
      /\ range' \in [FetchWorkers -> Seq(Nat)]
  BY <1>3, <1>6, <1>7 DEF TypeOK
<1>9. TypeOK'
  BY <1>1, <1>3, <1>4, <1>5, <1>8 DEF TypeOK, counters
<1>10. PhaseInv'
  BY <1>1 DEF PhaseInv
<1>11. PlaceInv'
  BY <1>1 DEF PlaceInv
<1>12. CountInv'
  BY <1>1, CountSame DEF Processed
<1>13. RangeInv'
  <2>1. /\ opts.startIndex <= next' /\ next <= next' /\ next' <= opts.endIndex /\ next' \in Nat
        /\ opts.startIndex <= next
    BY <1>3, <1>4, <1>5 DEF RangeInv
  <2>2. opts.startIndex + 1 .. next \subseteq opts.startIndex + 1 .. next'
    BY <1>4, <2>1
  <2>3. /\ ToSet(q) \subseteq opts.startIndex + 1 .. next'
        /\ ToSet(q) \cap (opts.startIndex + 1 .. next) = {}
        /\ opts.startIndex + 1 .. next' \subseteq (opts.startIndex + 1 .. next) \cup ToSet(q)
    BY <1>4, <1>7, <2>1
  <2>4. /\ scanned \subseteq opts.startIndex + 1 .. next
        /\ \A v \in FetchWorkers :
             IsInjective(range[v]) /\ ToSet(range[v]) \subseteq (opts.startIndex + 1 .. next) \ scanned
        /\ \A u, v \in FetchWorkers : u # v => ToSet(range[u]) \cap ToSet(range[v]) = {}
        /\ ~aborted => \A i \in opts.startIndex + 1 .. next :
                         i \in scanned \/ \E v \in FetchWorkers : i \in ToSet(range[v])
        /\ ToSet(range[w]) = {}
    BY <1>1, EmptyFacts DEF RangeInv
  <2> DEFINE I == opts.startIndex + 1 .. next
             J == opts.startIndex + 1 .. next'
  <2>5. scanned' \subseteq J
    BY <1>1, <2>2, <2>4
  <2>6. \A v \in FetchWorkers : IsInjective(range'[v]) /\ ToSet(range'[v]) \subseteq J \ scanned'
    <3> HIDE DEF I, J
    <3> QED
      BY <1>1, <1>7, <1>8, <2>2, <2>3, <2>4 DEF I, J
  <2>7. \A u, v \in FetchWorkers : u # v => ToSet(range'[u]) \cap ToSet(range'[v]) = {}
    BY <1>8, <2>3, <2>4
  <2>8. ~aborted' => \A i \in J : i \in scanned' \/ \E v \in FetchWorkers : i \in ToSet(range'[v])
    <3> HIDE DEF I, J
    <3>1. SUFFICES ASSUME ~aborted', NEW i \in J
                   PROVE  i \in scanned' \/ \E v \in FetchWorkers : i \in ToSet(range'[v])
      OBVIOUS
    <3>2. CASE i \in ToSet(q)
      BY <1>8, <3>2
    <3>3. CASE i \in I
      BY <1>1, <1>8, <2>4, <3>1, <3>3 DEF I
    <3> QED
      BY <2>3, <3>2, <3>3 DEF I, J
  <2> QED
    BY <1>1, <2>1, <2>5, <2>6, <2>7, <2>8 DEF RangeInv
<1> QED
  BY <1>9, <1>10, <1>11, <1>12, <1>13

\* A worker gets the first entries of its range from the log, none of which it or
\* another worker got before.
LEMMA GetEntriesStep == ASSUME IInv, NEW w \in FetchWorkers, GetEntries(w) PROVE IInv'
<1> USE DEF IInv
<1>1. /\ UNCHANGED <<opts, pc, aborted, next, entries, matching, counters>>
      /\ range[w] # <<>> /\ batch[w] = <<>>
  BY DEF GetEntries
<1>2. PICK n \in 1 .. Len(range[w]) :
        /\ batch' = [batch EXCEPT ![w] = SubSeq(range[w], 1, n)]
        /\ scanned' = scanned \cup ToSet(SubSeq(range[w], 1, n))
        /\ range' = [range EXCEPT ![w] = SubSeq(@, n + 1, Len(@))]
  BY DEF GetEntries
<1>3. PICK a, b : a = SubSeq(range[w], 1, n) /\ b = SubSeq(range[w], n + 1, Len(range[w]))
  OBVIOUS
<1>4. range[w] \in Seq(Nat) /\ IsInjective(range[w])
  BY DEF TypeOK, RangeInv
<1>5. /\ a \in Seq(Nat) /\ b \in Seq(Nat) /\ ToSet(range[w]) = ToSet(a) \cup ToSet(b)
      /\ IsInjective(a) /\ IsInjective(b) /\ ToSet(a) \cap ToSet(b) = {}
  BY <1>3, <1>4, SplitFacts
<1>6. /\ range' = [range EXCEPT ![w] = b] /\ batch' = [batch EXCEPT ![w] = a]
      /\ scanned' = scanned \cup ToSet(a)
  BY <1>2, <1>3
<1>7. /\ range'[w] = b /\ \A v \in FetchWorkers : v # w => range'[v] = range[v]
      /\ batch'[w] = a /\ \A v \in FetchWorkers : v # w => batch'[v] = batch[v]
      /\ range' \in [FetchWorkers -> Seq(Nat)] /\ batch' \in [FetchWorkers -> Seq(Nat)]
  BY <1>5, <1>6 DEF TypeOK
<1> HIDE DEF IInv
<1>8. ToSet(a) \subseteq Nat
  BY <1>5 DEF ToSet
<1>9. TypeOK'
  BY <1>1, <1>6, <1>7, <1>8 DEF IInv, TypeOK, counters
<1>10. PhaseInv'
  BY <1>1 DEF IInv, PhaseInv, Nothing, FetchDone
<1>11. /\ ToSet(range[w]) \subseteq (opts.startIndex + 1 .. next) \ scanned
       /\ \A v \in FetchWorkers : v # w => ToSet(a) \cap ToSet(range[v]) = {}
       /\ ToSet(a) \cap scanned = {} /\ ToSet(a) \subseteq opts.startIndex + 1 .. next
  BY <1>5 DEF IInv, RangeInv
<1>12. RangeInv'
  <2> DEFINE I == opts.startIndex + 1 .. next
  <2>1. /\ scanned \subseteq I
        /\ \A v \in FetchWorkers : IsInjective(range[v]) /\ ToSet(range[v]) \subseteq I \ scanned
        /\ \A u, v \in FetchWorkers : u # v => ToSet(range[u]) \cap ToSet(range[v]) = {}
        /\ ~aborted => \A i \in I : i \in scanned \/ \E v \in FetchWorkers : i \in ToSet(range[v])
    BY DEF IInv, RangeInv
  <2>2. I' = I
    BY <1>1
  <2> HIDE DEF I
  <2>3. scanned' \subseteq I
    BY <1>6, <1>11, <2>1 DEF I
  <2>4. \A v \in FetchWorkers : IsInjective(range'[v]) /\ ToSet(range'[v]) \subseteq I \ scanned'
    BY <1>5, <1>6, <1>7, <1>11, <2>1
  <2>5. \A u, v \in FetchWorkers : u # v => ToSet(range'[u]) \cap ToSet(range'[v]) = {}
    <3>1. \A v \in FetchWorkers : ToSet(range'[v]) \subseteq ToSet(range[v])
      BY <1>5, <1>7
    <3> QED
      BY <2>1, <3>1
  <2>6. ASSUME ~aborted, NEW i \in I
        PROVE  i \in scanned' \/ \E v \in FetchWorkers : i \in ToSet(range'[v])
    <3>1. CASE i \in scanned
      BY <1>6, <3>1
    <3>2. CASE i \in ToSet(range[w])
      BY <1>5, <1>6, <1>7, <3>2
    <3>3. ASSUME NEW v \in FetchWorkers, i \in ToSet(range[v]), v # w
          PROVE  i \in ToSet(range'[v])
      BY <1>7, <3>3
    <3> QED
      BY <2>1, <2>6, <3>1, <3>2, <3>3
  <2>7. opts.startIndex <= next /\ (next <= opts.endIndex \/ next = opts.startIndex)
    BY DEF IInv, RangeInv
  <2> QED
    BY <1>1, <2>2, <2>3, <2>4, <2>5, <2>6, <2>7 DEF RangeInv, I
<1>13. PlaceInv'
  <2>1. \A v \in FetchWorkers : IsInjective(batch'[v]) /\ ToSet(batch'[v]) \subseteq scanned'
    BY <1>5, <1>6, <1>7 DEF IInv, PlaceInv
  <2>2. \A v \in FetchWorkers : v # w => ToSet(a) \cap ToSet(batch[v]) = {}
    BY <1>11 DEF IInv, PlaceInv
  <2>3. \A u, v \in FetchWorkers : u # v => ToSet(batch'[u]) \cap ToSet(batch'[v]) = {}
    BY <1>7, <2>2 DEF IInv, PlaceInv
  <2>4. IsInjective(entries') /\ ToSet(entries') \subseteq scanned'
    BY <1>1, <1>6 DEF IInv, PlaceInv
  <2>5. \A v \in FetchWorkers : ToSet(batch'[v]) \cap ToSet(entries') = {}
    BY <1>1, <1>7, <1>11 DEF IInv, PlaceInv
  <2>6. ASSUME NEW m \in Matchers, matching'[m] # 0
        PROVE  /\ matching'[m] \in scanned' \ ToSet(entries')
               /\ \A v \in FetchWorkers : matching'[m] \notin ToSet(batch'[v])
               /\ \A k \in Matchers : k # m => matching'[k] # matching'[m]
    BY <1>1, <1>6, <1>7, <1>11, <2>6 DEF IInv, PlaceInv
  <2> QED
    BY <2>1, <2>3, <2>4, <2>5, <2>6 DEF PlaceInv
<1>14. CountInv'
  <2>1. ToSet(batch[w]) = {}
    BY <1>1, EmptyFacts
  <2>2. ASSUME NEW i PROVE i \in Processed' <=> i \in Processed
    <3>1. CASE i \in ToSet(a)
      BY <1>7, <1>11, <3>1 DEF Processed
    <3>2. CASE i \notin ToSet(a)
      <4>1. \A v \in FetchWorkers : i \in ToSet(batch'[v]) <=> i \in ToSet(batch[v])
        BY <1>7, <2>1, <3>2
      <4> QED
        BY <1>1, <1>6, <3>2, <4>1 DEF Processed
    <3> QED
      BY <3>1, <3>2
  <2> QED
    BY <1>1, <2>2, CountSame DEF IInv
<1> QED
  BY <1>9, <1>10, <1>12, <1>13, <1>14 DEF IInv

\* A worker that gives up its range leaves the rest to nobody.
LEMMA GiveUpStep == ASSUME IInv, NEW w \in FetchWorkers, GiveUp(w) PROVE IInv'
<1> USE DEF IInv
<1>1. /\ UNCHANGED <<opts, pc, aborted, next, batch, scanned, entries, matching, counters>>
      /\ range[w] # <<>> /\ aborted
  BY DEF GiveUp
<1>2. /\ range'[w] = <<>> /\ \A v \in FetchWorkers : v # w => range'[v] = range[v]
      /\ range' \in [FetchWorkers -> Seq(Nat)]
  BY DEF GiveUp, TypeOK
<1>3. TypeOK'
  BY <1>1, <1>2 DEF TypeOK, counters
<1>4. PhaseInv'
  BY <1>1 DEF PhaseInv, Nothing, FetchDone
<1>5. PlaceInv'
  BY <1>1 DEF PlaceInv
<1>6. CountInv'
  BY <1>1, CountSame DEF Processed
<1>7. RangeInv'
  <2>1. \A v \in FetchWorkers :
          IsInjective(range'[v]) /\ ToSet(range'[v]) \subseteq ToSet(range[v])
    BY <1>2, EmptyFacts DEF RangeInv
  <2> QED
    BY <1>1, <2>1 DEF RangeInv
<1> QED
  BY <1>3, <1>4, <1>5, <1>6, <1>7

\* A step that only moves an entry from its place to the next one.
LEMMA MoveFacts ==
  ASSUME IInv, UNCHANGED <<opts, pc, aborted, next, range, scanned, counters>>,
         pc \in {"prepare", "failed"} => \A w \in FetchWorkers : batch'[w] = <<>>,
         pc \in {"wait", "returned"} => \A w \in FetchWorkers : batch'[w] = <<>>,
         pc # "returned", TypeOK', PlaceInv', Processed' = Processed
  PROVE  IInv'
<1> USE DEF IInv
<1>1. CountInv'
  BY CountSame
<1>2. RangeInv'
  BY DEF RangeInv
<1>3. PhaseInv'
  BY DEF PhaseInv, Nothing, FetchDone
<1> QED
  BY <1>1, <1>2, <1>3

\* A worker that has a batch is not done: ScanLog is in Run.
LEMMA SendingInRun ==
  ASSUME IInv, NEW w \in FetchWorkers, batch[w] # <<>>
  PROVE  pc = "run"
  BY DEF IInv, TypeOK, PhaseInv, Nothing, FetchDone

\* flatten puts the next entry of a batch into the channel.
LEMMA SendStep == ASSUME IInv, NEW w \in FetchWorkers, Send(w) PROVE IInv'
<1>1. /\ UNCHANGED <<opts, pc, aborted, next, range, scanned, matching, counters>>
      /\ batch[w] # <<>> /\ batch[w] \in Seq(Nat) /\ entries \in Seq(Nat)
      /\ IsInjective(batch[w]) /\ IsInjective(entries)
  BY DEF Send, IInv, TypeOK, PlaceInv
<1>2. PICK e, t : e = Head(batch[w]) /\ t = Tail(batch[w])
  OBVIOUS
<1>3. /\ e \in Nat /\ t \in Seq(Nat) /\ ToSet(batch[w]) = {e} \cup ToSet(t)
      /\ IsInjective(t) /\ e \notin ToSet(t)
  BY <1>1, <1>2, HeadAndTail
<1>4. /\ entries' = Append(entries, e) /\ batch' = [batch EXCEPT ![w] = t]
  BY <1>2 DEF Send
<1>5. /\ e \notin ToSet(entries) /\ e \in scanned /\ \A m \in Matchers : matching[m] # 0 => matching[m] # e
      /\ \A v \in FetchWorkers : v # w => e \notin ToSet(batch[v])
  BY <1>3 DEF IInv, PlaceInv
<1>6. entries' \in Seq(Nat) /\ ToSet(entries') = ToSet(entries) \cup {e} /\ IsInjective(entries')
  BY <1>1, <1>3, <1>4, <1>5, AppendFacts
<1>7. /\ batch'[w] = t /\ \A v \in FetchWorkers : v # w => batch'[v] = batch[v]
      /\ batch' \in [FetchWorkers -> Seq(Nat)]
  BY <1>3, <1>4 DEF IInv, TypeOK
<1>8. \A v \in FetchWorkers : /\ IsInjective(batch'[v]) /\ e \notin ToSet(batch'[v])
                              /\ ToSet(batch'[v]) \subseteq ToSet(batch[v])
  BY <1>3, <1>5, <1>7 DEF IInv, PlaceInv
<1>9. TypeOK'
  BY <1>1, <1>6, <1>7 DEF IInv, TypeOK, counters
<1>10. PlaceInv'
  <2>1. \A v \in FetchWorkers : /\ IsInjective(batch'[v]) /\ ToSet(batch'[v]) \subseteq scanned'
                                /\ ToSet(batch'[v]) \cap ToSet(entries') = {}
    <3>1. \A v \in FetchWorkers : ToSet(batch[v]) \subseteq scanned /\ ToSet(batch[v]) \cap ToSet(entries) = {}
      BY DEF IInv, PlaceInv
    <3> QED
      BY <1>1, <1>6, <1>8, <3>1
  <2>2. \A u, v \in FetchWorkers : u # v => ToSet(batch'[u]) \cap ToSet(batch'[v]) = {}
    BY <1>8 DEF IInv, PlaceInv
  <2>3. IsInjective(entries') /\ ToSet(entries') \subseteq scanned'
    BY <1>1, <1>5, <1>6 DEF IInv, PlaceInv
  <2>4. ASSUME NEW m \in Matchers, matching'[m] # 0
        PROVE  /\ matching'[m] \in scanned' \ ToSet(entries')
               /\ \A v \in FetchWorkers : matching'[m] \notin ToSet(batch'[v])
               /\ \A k \in Matchers : k # m => matching'[k] # matching'[m]
    BY <1>1, <1>5, <1>6, <1>8, <2>4 DEF IInv, PlaceInv
  <2> QED
    BY <2>1, <2>2, <2>3, <2>4 DEF PlaceInv
<1>11. Processed' = Processed
  <2>1. ASSUME NEW i, i # e PROVE i \in Processed' <=> i \in Processed
    <3>1. \A v \in FetchWorkers : i \in ToSet(batch'[v]) <=> i \in ToSet(batch[v])
      BY <1>3, <1>7, <2>1
    <3> QED
      BY <1>1, <1>6, <2>1, <3>1 DEF Processed
  <2>2. e \notin Processed /\ e \notin Processed'
    BY <1>3, <1>6 DEF Processed
  <2> QED
    BY <2>1, <2>2
<1>12. pc = "run"
  BY <1>1, SendingInRun
<1> QED
  BY <1>1, <1>9, <1>10, <1>11, <1>12, MoveFacts

\* flatten hands it to a matcher that waits.
LEMMA HandOverStep ==
  ASSUME IInv, NEW w \in FetchWorkers, NEW m \in Matchers, HandOver(w, m)
  PROVE  IInv'
<1>1. /\ UNCHANGED <<opts, pc, aborted, next, range, scanned, entries, counters>>
      /\ batch[w] # <<>> /\ batch[w] \in Seq(Nat) /\ IsInjective(batch[w]) /\ matching[m] = 0
  BY DEF HandOver, IInv, TypeOK, PlaceInv
<1>2. PICK e, t : e = Head(batch[w]) /\ t = Tail(batch[w])
  OBVIOUS
<1>3. /\ e \in Nat /\ t \in Seq(Nat) /\ ToSet(batch[w]) = {e} \cup ToSet(t)
      /\ IsInjective(t) /\ e \notin ToSet(t)
  BY <1>1, <1>2, HeadAndTail
<1>4. matching' = [matching EXCEPT ![m] = e] /\ batch' = [batch EXCEPT ![w] = t]
  BY <1>2 DEF HandOver
<1>5. /\ e \notin ToSet(entries) /\ e \in scanned /\ \A k \in Matchers : matching[k] # 0 => matching[k] # e
      /\ \A v \in FetchWorkers : v # w => e \notin ToSet(batch[v])
  BY <1>3 DEF IInv, PlaceInv
<1>6. /\ matching'[m] = e /\ \A k \in Matchers : k # m => matching'[k] = matching[k]
      /\ matching' \in [Matchers -> Nat]
  BY <1>3, <1>4 DEF IInv, TypeOK
<1>7. /\ batch'[w] = t /\ \A v \in FetchWorkers : v # w => batch'[v] = batch[v]
      /\ batch' \in [FetchWorkers -> Seq(Nat)]
  BY <1>3, <1>4 DEF IInv, TypeOK
<1>8. \A v \in FetchWorkers : /\ IsInjective(batch'[v]) /\ e \notin ToSet(batch'[v])
                              /\ ToSet(batch'[v]) \subseteq ToSet(batch[v])
  BY <1>3, <1>5, <1>7 DEF IInv, PlaceInv
<1>9. TypeOK'
  BY <1>1, <1>6, <1>7 DEF IInv, TypeOK, counters
<1>13. e # 0
  <2>1. opts.startIndex \in Nat /\ next \in Nat /\ scanned \subseteq opts.startIndex + 1 .. next
    BY DEF IInv, TypeOK, OptionType, RangeInv
  <2> QED
    BY <1>5, <2>1
<1>10. PlaceInv'
  <2>1. \A v \in FetchWorkers : /\ IsInjective(batch'[v]) /\ ToSet(batch'[v]) \subseteq scanned'
                                /\ ToSet(batch'[v]) \cap ToSet(entries') = {}
    BY <1>1, <1>8 DEF IInv, PlaceInv
  <2>2. \A u, v \in FetchWorkers : u # v => ToSet(batch'[u]) \cap ToSet(batch'[v]) = {}
    BY <1>8 DEF IInv, PlaceInv
  <2>3. IsInjective(entries') /\ ToSet(entries') \subseteq scanned'
    BY <1>1 DEF IInv, PlaceInv
  <2>4. ASSUME NEW k \in Matchers, matching'[k] # 0
        PROVE  /\ matching'[k] \in scanned' \ ToSet(entries')
               /\ \A v \in FetchWorkers : matching'[k] \notin ToSet(batch'[v])
               /\ \A j \in Matchers : j # k => matching'[j] # matching'[k]
    <3>1. CASE k = m
      BY <1>1, <1>5, <1>6, <1>8, <1>13, <3>1
    <3>2. CASE k # m
      BY <1>1, <1>5, <1>6, <1>8, <2>4, <3>2 DEF IInv, PlaceInv
    <3> QED
      BY <3>1, <3>2
  <2> QED
    BY <2>1, <2>2, <2>3, <2>4 DEF PlaceInv
<1>11. Processed' = Processed
  <2>0. 0 \notin scanned
    BY <1>13 DEF IInv, RangeInv, TypeOK, OptionType
  <2>1. ASSUME NEW i, i # e PROVE i \in Processed' <=> i \in Processed
    <3>1. \A v \in FetchWorkers : i \in ToSet(batch'[v]) <=> i \in ToSet(batch[v])
      BY <1>3, <1>7, <2>1
    <3>2. i # 0 => ((\A k \in Matchers : matching'[k] # i) <=> (\A k \in Matchers : matching[k] # i))
      BY <1>1, <1>6, <2>1
    <3> QED
      BY <1>1, <2>0, <2>1, <3>1, <3>2 DEF Processed
  <2>2. e \notin Processed /\ e \notin Processed'
    BY <1>3, <1>6 DEF Processed
  <2> QED
    BY <2>1, <2>2
<1>12. pc = "run"
  BY <1>1, SendingInRun
<1> QED
  BY <1>1, <1>9, <1>10, <1>11, <1>12, MoveFacts

\* A matcher takes an entry from the channel.
LEMMA ReceiveStep == ASSUME IInv, NEW m \in Matchers, Receive(m) PROVE IInv'
<1>1. /\ UNCHANGED <<opts, pc, aborted, next, range, scanned, batch, counters>>
      /\ entries # <<>> /\ entries \in Seq(Nat) /\ IsInjective(entries) /\ matching[m] = 0
  BY DEF Receive, IInv, TypeOK, PlaceInv
<1>2. PICK e, t : e = Head(entries) /\ t = Tail(entries)
  OBVIOUS
<1>3. /\ e \in Nat /\ t \in Seq(Nat) /\ ToSet(entries) = {e} \cup ToSet(t)
      /\ IsInjective(t) /\ e \notin ToSet(t)
  BY <1>1, <1>2, HeadAndTail
<1>4. matching' = [matching EXCEPT ![m] = e] /\ entries' = t
  BY <1>2 DEF Receive
<1>5. /\ e \in scanned /\ \A k \in Matchers : matching[k] # 0 => matching[k] # e
      /\ \A v \in FetchWorkers : e \notin ToSet(batch[v])
  BY <1>3 DEF IInv, PlaceInv
<1>6. /\ matching'[m] = e /\ \A k \in Matchers : k # m => matching'[k] = matching[k]
      /\ matching' \in [Matchers -> Nat]
  BY <1>3, <1>4 DEF IInv, TypeOK
<1>7. 0 \notin scanned
  <2>1. opts.startIndex \in Nat /\ next \in Nat /\ scanned \subseteq opts.startIndex + 1 .. next
    BY DEF IInv, TypeOK, OptionType, RangeInv
  <2> QED
    BY <2>1
<1>8. TypeOK'
  BY <1>1, <1>3, <1>4, <1>6 DEF IInv, TypeOK, counters
<1>9. PlaceInv'
  <2>1. \A v \in FetchWorkers : /\ IsInjective(batch'[v]) /\ ToSet(batch'[v]) \subseteq scanned'
                                /\ ToSet(batch'[v]) \cap ToSet(entries') = {}
    BY <1>1, <1>3, <1>4 DEF IInv, PlaceInv
  <2>2. \A u, v \in FetchWorkers : u # v => ToSet(batch'[u]) \cap ToSet(batch'[v]) = {}
    BY <1>1 DEF IInv, PlaceInv
  <2>3. IsInjective(entries') /\ ToSet(entries') \subseteq scanned'
    BY <1>1, <1>3, <1>4 DEF IInv, PlaceInv
  <2>4. ASSUME NEW k \in Matchers, matching'[k] # 0
        PROVE  /\ matching'[k] \in scanned' \ ToSet(entries')
               /\ \A v \in FetchWorkers : matching'[k] \notin ToSet(batch'[v])
               /\ \A j \in Matchers : j # k => matching'[j] # matching'[k]
    <3>1. CASE k = m
      BY <1>1, <1>3, <1>4, <1>5, <1>6, <1>7, <3>1
    <3>2. CASE k # m
      BY <1>1, <1>3, <1>4, <1>5, <1>6, <2>4, <3>2 DEF IInv, PlaceInv
    <3> QED
      BY <3>1, <3>2
  <2> QED
    BY <2>1, <2>2, <2>3, <2>4 DEF PlaceInv
<1>10. Processed' = Processed
  <2>1. ASSUME NEW i, i # e PROVE i \in Processed' <=> i \in Processed
    <3>1. i # 0 => ((\A k \in Matchers : matching'[k] # i) <=> (\A k \in Matchers : matching[k] # i))
      BY <1>1, <1>6, <2>1
    <3> QED
      BY <1>1, <1>3, <1>4, <1>7, <2>1, <3>1 DEF Processed
  <2>2. e \notin Processed /\ e \notin Processed'
    BY <1>3, <1>6 DEF Processed
  <2> QED
    BY <2>1, <2>2
<1>11. /\ pc # "returned"
       /\ pc \in {"prepare", "failed"} => \A w \in FetchWorkers : batch'[w] = <<>>
       /\ pc \in {"wait", "returned"} => \A w \in FetchWorkers : batch'[w] = <<>>
  BY <1>1 DEF IInv, PhaseInv, Nothing, FetchDone
<1> QED
  BY <1>1, <1>8, <1>9, <1>10, <1>11, MoveFacts

\* What was processed is a finite set.
LEMMA ProcessedFinite ==
  ASSUME IInv
  PROVE  /\ IsFiniteSet(Processed)
         /\ \A name : IsFiniteSet(ProcessedWith(name)) /\ ProcessedWith(name) \subseteq Processed
<1>1. opts.startIndex \in Nat /\ next \in Nat /\ scanned \subseteq opts.startIndex + 1 .. next
  BY DEF IInv, TypeOK, OptionType, RangeInv
<1>2. IsFiniteSet(opts.startIndex + 1 .. next)
  BY <1>1, FS_Interval
<1>3. Processed \subseteq opts.startIndex + 1 .. next
  BY <1>1 DEF Processed
<1>4. IsFiniteSet(Processed)
  BY <1>2, <1>3, FS_Subset
<1>5. \A name : ProcessedWith(name) \subseteq Processed
  BY DEF ProcessedWith
<1> QED
  BY <1>4, <1>5, FS_Subset

\* A matcher processes its entry: it is counted, and its callback called, once.
LEMMA ProcessStep == ASSUME IInv, NEW m \in Matchers, MatcherJob(m) PROVE IInv'
<1> DEFINE i == matching[m]
           r == Outcome(i)
<1>1. /\ UNCHANGED <<opts, pc, aborted, next, range, scanned, batch, entries>>
      /\ i # 0 /\ matching' = [matching EXCEPT ![m] = 0]
      /\ certsProcessed' = certsProcessed + 1
      /\ certsMatched' = IF "matched" \in r.tallies THEN certsMatched + 1 ELSE certsMatched
      /\ precertsSeen' = IF "precert" \in r.tallies THEN precertsSeen + 1 ELSE precertsSeen
      /\ unparsableEntries' = IF "unparsable" \in r.tallies THEN unparsableEntries + 1
                              ELSE unparsableEntries
      /\ entriesWithNonFatalErrors' =
           IF "nonFatal" \in r.tallies THEN entriesWithNonFatalErrors + 1
           ELSE entriesWithNonFatalErrors
      /\ foundCert' = IF r.found = "cert" THEN Append(foundCert, i) ELSE foundCert
      /\ foundPrecert' = IF r.found = "precert" THEN Append(foundPrecert, i) ELSE foundPrecert
  BY DEF MatcherJob, Process, Tally, Outcome
<1>2. /\ matching'[m] = 0 /\ \A k \in Matchers : k # m => matching'[k] = matching[k]
      /\ matching' \in [Matchers -> Nat] /\ i \in Nat
  BY <1>1 DEF IInv, TypeOK
<1>3. /\ i \in scanned /\ i \notin ToSet(entries)
      /\ \A w \in FetchWorkers : i \notin ToSet(batch[w])
      /\ \A k \in Matchers : k # m => matching[k] # i
  BY <1>1 DEF IInv, PlaceInv
<1>4. 0 \notin scanned
  <2>1. opts.startIndex \in Nat /\ next \in Nat /\ scanned \subseteq opts.startIndex + 1 .. next
    BY DEF IInv, TypeOK, OptionType, RangeInv
  <2> QED
    BY <2>1
<1> HIDE DEF r
<1>5. Processed' = Processed \cup {i} /\ i \notin Processed
  <2>1. i \notin Processed /\ i \in Processed'
    BY <1>1, <1>2, <1>3 DEF Processed
  <2>2. ASSUME NEW k, k # i PROVE k \in Processed' <=> k \in Processed
    BY <1>1, <1>2, <1>4, <2>2 DEF Processed
  <2> HIDE DEF i
  <2> QED
    BY <2>1, <2>2
<1> HIDE DEF i
<1>7. PlaceInv'
  BY <1>1, <1>2 DEF IInv, PlaceInv
<1>8. RangeInv'
  BY <1>1 DEF IInv, RangeInv
<1>9. PhaseInv'
  BY <1>1 DEF IInv, PhaseInv, Nothing, FetchDone, i
<1>10. ASSUME NEW name
       PROVE  /\ ProcessedWith(name)' = IF name \in r.tallies THEN ProcessedWith(name) \cup {i}
                                        ELSE ProcessedWith(name)
              /\ ProcessedAs(name)' = IF r.found = name THEN ProcessedAs(name) \cup {i}
                                      ELSE ProcessedAs(name)
              /\ i \notin ProcessedWith(name) /\ i \notin ProcessedAs(name)
  <2>1. \A k : Outcome(k)' = Outcome(k)
    BY <1>1 DEF Outcome
  <2> QED
    BY <1>5, <2>1 DEF ProcessedWith, ProcessedAs, r
<1>11. ASSUME NEW name
       PROVE  /\ Cardinality(ProcessedWith(name)) \in Nat
              /\ Cardinality(ProcessedWith(name)') =
                   IF name \in r.tallies THEN Cardinality(ProcessedWith(name)) + 1
                   ELSE Cardinality(ProcessedWith(name))
  <2>1. IsFiniteSet(ProcessedWith(name))
    BY ProcessedFinite
  <2> QED
    BY <1>10, <2>1, FS_AddElement, FS_CardinalityType
<1>12. Cardinality(Processed)' = Cardinality(Processed) + 1
  BY <1>5, ProcessedFinite, FS_AddElement
<1>13. ASSUME NEW found \in Seq(Nat), NEW kind, IsInjective(found), ToSet(found) = ProcessedAs(kind),
              NEW new, new = IF r.found = kind THEN Append(found, i) ELSE found
       PROVE  new \in Seq(Nat) /\ IsInjective(new) /\ ToSet(new) = ProcessedAs(kind)'
  <2>1. i \in Nat
    BY <1>2 DEF i
  <2> QED
    BY <1>10, <1>13, <2>1, AppendFacts
<1>14. /\ foundCert \in Seq(Nat) /\ IsInjective(foundCert) /\ ToSet(foundCert) = ProcessedAs("cert")
       /\ foundPrecert \in Seq(Nat) /\ IsInjective(foundPrecert)
       /\ ToSet(foundPrecert) = ProcessedAs("precert")
  BY DEF IInv, TypeOK, CountInv
<1>15. /\ foundCert' \in Seq(Nat) /\ IsInjective(foundCert') /\ ToSet(foundCert') = ProcessedAs("cert")'
  BY <1>1, <1>13, <1>14
<1>16. /\ foundPrecert' \in Seq(Nat) /\ IsInjective(foundPrecert')
       /\ ToSet(foundPrecert') = ProcessedAs("precert")'
  BY <1>1, <1>13, <1>14
<1>17. TypeOK'
  BY <1>1, <1>2, <1>15, <1>16 DEF IInv, TypeOK
<1>18. CountInv'
  <2>1. certsMatched' = Cardinality(ProcessedWith("matched")')
    BY <1>1, <1>11 DEF IInv, CountInv
  <2>2. precertsSeen' = Cardinality(ProcessedWith("precert")')
    BY <1>1, <1>11 DEF IInv, CountInv
  <2>3. unparsableEntries' = Cardinality(ProcessedWith("unparsable")')
    BY <1>1, <1>11 DEF IInv, CountInv
  <2>4. entriesWithNonFatalErrors' = Cardinality(ProcessedWith("nonFatal")')
    BY <1>1, <1>11 DEF IInv, CountInv
  <2>5. certsProcessed' = Cardinality(Processed')
    BY <1>1, <1>12 DEF IInv, CountInv
  <2> QED
    BY <1>15, <1>16, <2>1, <2>2, <2>3, <2>4, <2>5 DEF CountInv
<1> QED
  BY <1>7, <1>8, <1>9, <1>17, <1>18 DEF IInv

\* Every step keeps the invariant.
LEMMA InvariantStep == IInv /\ [Next]_vars => IInv'
  BY ControlStep, PrepareStep, TakeRangeStep, GetEntriesStep, GiveUpStep, SendStep, HandOverStep,
     ReceiveStep, ProcessStep DEF Next

-----------------------------------------------------------------------------
(* The theorems.                                                            *)

\* The inductive invariant holds: every index given out is in one place of the
\* pipeline, and the counters and callbacks are those of the entries behind it.
THEOREM InvariantHolds == Spec => []IInv
  BY InitEstablishes, InvariantStep, PTL DEF Spec

\* Every variable of Scanner has its type.
THEOREM TypeCorrect == Spec => []TypeOK
<1>1. IInv => TypeOK
  BY DEF IInv
<1> QED
  BY <1>1, InvariantHolds, PTL

\* processEntry reports an entry to the callback for its type only.
LEMMA FoundFitsType ==
  ASSUME NEW o, NEW e, e.type \in {"x509", "precert"}
  PROVE  /\ ProcessEntry(o, e).found = "cert" <=>
              e.type = "x509" /\ ProcessEntry(o, e).found # "none"
         /\ ProcessEntry(o, e).found = "precert" <=>
              e.type = "precert" /\ ProcessEntry(o, e).found # "none"
  BY DEF ProcessEntry, ProcessMatcherEntry, ProcessMatcherLeafEntry, Unparsable, Result

\* When ScanLog returns, each matching entry was reported once and every counter
\* is right; and without a cancelled context the entries are all it was asked for.
THEOREM ScansExactly == Spec => []ScanExact
<1>1. IInv => ScanExact
  <2> SUFFICES ASSUME IInv, pc = "returned" PROVE ScanExact
    BY DEF ScanExact
  <2>1. /\ FetchDone /\ entries = <<>> /\ \A m \in Matchers : matching[m] = 0
        /\ opts.endIndex <= Len(Log) /\ Len(Log) \in Nat
        /\ opts.startIndex \in Nat /\ opts.endIndex \in Nat /\ next \in Nat
    BY ScannerAssumption DEF IInv, PhaseInv, TypeOK, OptionType
  <2>2. /\ opts.startIndex <= next /\ (next <= opts.endIndex \/ next = opts.startIndex)
        /\ scanned \subseteq opts.startIndex + 1 .. next
    BY DEF IInv, RangeInv
  <2>3. \A w \in FetchWorkers : ToSet(range[w]) = {} /\ ToSet(batch[w]) = {}
    BY <2>1, EmptyFacts DEF FetchDone
  <2>4. Processed = scanned
    <3>1. 0 \notin scanned
      BY <2>1, <2>2
    <3> QED
      BY <2>1, <2>3, <3>1, EmptyFacts DEF Processed
  <2>5. ASSUME ~aborted PROVE scanned = opts.startIndex + 1 .. opts.endIndex
    <3>1. next >= opts.endIndex
      BY <2>1, <2>5 DEF FetchDone
    <3>2. opts.startIndex + 1 .. next = opts.startIndex + 1 .. opts.endIndex
      BY <2>1, <2>2, <3>1
    <3>3. scanned = opts.startIndex + 1 .. next
      BY <2>2, <2>3, <2>5 DEF IInv, RangeInv
    <3> QED
      BY <3>2, <3>3
  <2>6. ASSUME NEW i \in scanned PROVE Log[i].type \in {"x509", "precert"}
    <3>1. i \in 1 .. Len(Log)
      BY <2>1, <2>2
    <3> QED
      BY <3>1, ScannerAssumption
  <2>7. ProcessedAs("cert") = Matching("x509") /\ ProcessedAs("precert") = Matching("precert")
    BY <2>4, <2>6, FoundFitsType DEF ProcessedAs, Matching, Outcome
  <2>8. \A name : Cardinality(ProcessedWith(name)) = Tallied(name)
    BY <2>4 DEF ProcessedWith, Tallied, Outcome
  <2> QED
    BY <2>4, <2>5, <2>7, <2>8 DEF IInv, CountInv, ScanExact
<1> QED
  BY <1>1, InvariantHolds, PTL
=============================================================================
