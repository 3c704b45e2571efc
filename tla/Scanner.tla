------------------------------ MODULE Scanner ------------------------------
(***************************************************************************)
(* scanner: ScanLog.  A Fetcher's workers hand the entries of their        *)
(* batches one by one to a channel, from which matcher workers take them,  *)
(* parse them and call foundCert or foundPrecert.  The Fetcher is the      *)
(* ranges its workers take and the batches they get, see module Fetcher.   *)
(***************************************************************************)
EXTENDS Integers, Sequences, FiniteSets, SequencesExt

CONSTANTS
  Log,            \* the entries of the log, from index 1
  FetchWorkers,   \* ParallelFetch
  Matchers,       \* NumWorkers
  BufferSize,
  BatchSize,
  Options         \* sets of options [matcher, precertOnly, startIndex, endIndex]

OptionType == [matcher : {o.matcher : o \in Options}, precertOnly : BOOLEAN,
               startIndex : Nat, endIndex : Nat]

\* A batch size below zero would make the generator of ranges go backwards.
ASSUME ScannerAssumption ==
  /\ BatchSize \in Nat /\ Len(Log) \in Nat /\ Options \subseteq OptionType
  /\ \A i \in 1 .. Len(Log) : Log[i].type \in {"x509", "precert"}

VARIABLES
  opts,           \* one of Options; endIndex is set by Fetcher.Prepare
  pc,             \* "prepare", "run", "wait", "returned", "failed"
  aborted,        \* the context is done
  next,           \* first index of the next batch
  range,          \* the entries each fetch worker is still to get
  batch,          \* what is left of each fetch worker's batch
  scanned,        \* the entries handed to flatten so far
  entries,        \* the channel
  matching,       \* the entry of each matcher worker, or 0
  certsProcessed, certsMatched, precertsSeen, unparsableEntries, entriesWithNonFatalErrors,
  foundCert, foundPrecert     \* indices in the order of calls

counters == <<certsProcessed, certsMatched, precertsSeen, unparsableEntries,
              entriesWithNonFatalErrors, foundCert, foundPrecert>>
vars == <<opts, pc, aborted, next, range, batch, scanned, entries, matching, counters>>

-----------------------------------------------------------------------------
(* What a worker does with an entry.  An entry has: leaf, whether           *)
(* RawLogEntryFromLeaf succeeds; type; parse, the outcome of parsing the    *)
(* certificate; verifies, see VerifyFails; names, its common and            *)
(* alternative names; issuer; serial; and timestamp.                        *)

LogEntryFromLeaf(e) == IF ~e.leaf THEN "fatal" ELSE e.parse

\* createMatcherFromFlags: the first flag that is set decides.
CreateMatcher(f) ==
  IF f.parseErrors THEN [kind |-> "parseFail", nonFatal |-> f.nonFatal]
  ELSE IF f.validateErrors THEN [kind |-> "verifyFail"]
  ELSE IF f.issuer # "" THEN [kind |-> "issuer", value |-> f.issuer, precertsOnly |-> f.precertsOnly]
  ELSE IF f.serial # 0 THEN [kind |-> "serial", value |-> f.serial]
  ELSE IF f.timestamp # 0 THEN [kind |-> "timestamp", value |-> f.timestamp]
  ELSE [kind |-> "subject", value |-> f.subject, precertsOnly |-> f.precertsOnly]

\* Matcher: CertificateMatches and PrecertificateMatches of the kinds there are.
IsMatcher(m) == m.kind \in {"all", "none", "serial", "subject", "issuer"}
Matches(m, e) ==
  CASE m.kind = "all" -> TRUE
    [] m.kind = "none" -> FALSE
    [] m.kind = "serial" -> e.serial = m.value
    [] m.kind = "subject" -> m.value \in e.names /\ (m.precertsOnly => e.type = "precert")
    [] m.kind = "issuer" -> m.value = e.issuer /\ (m.precertsOnly => e.type = "precert")

\* LeafMatcher: Matches, on the entry as the log returned it.
IsLeafMatcher(m) == m.kind \in {"timestamp", "parseFail", "verifyFail"}
LeafMatches(m, e) ==
  CASE m.kind = "timestamp" -> LogEntryFromLeaf(e) # "fatal" /\ e.timestamp = m.value
    [] m.kind = "parseFail" -> \/ LogEntryFromLeaf(e) = "fatal"
                               \/ LogEntryFromLeaf(e) = "nonfatal" /\ m.nonFatal
    [] m.kind = "verifyFail" -> LogEntryFromLeaf(e) # "fatal" /\ ~e.verifies

\* What processEntry comes to for an entry: which of the counters it adds to,
\* and which callback it calls.
Result(tallies, found) == [tallies |-> tallies, found |-> found]
Unparsable == Result({"unparsable"}, "none")

ProcessMatcherEntry(o, e) ==
  LET nonFatal == IF LogEntryFromLeaf(e) = "nonfatal" THEN {"nonFatal"} ELSE {}
      matches  == Matches(o.matcher, e)
      matched  == IF matches THEN {"matched"} ELSE {}
  IN  IF LogEntryFromLeaf(e) = "fatal" THEN Unparsable
      ELSE IF e.type = "x509"
      THEN IF o.precertOnly THEN Result(nonFatal, "none")
           ELSE Result(nonFatal \cup matched, IF matches THEN "cert" ELSE "none")
      ELSE Result(nonFatal \cup matched \cup {"precert"}, IF matches THEN "precert" ELSE "none")

ProcessMatcherLeafEntry(o, e) ==
  IF ~LeafMatches(o.matcher, e) THEN Result({}, "none")
  ELSE IF ~e.leaf THEN Unparsable
  ELSE IF e.type = "x509" THEN Result({}, IF o.precertOnly THEN "none" ELSE "cert")
  ELSE Result({"precert"}, "precert")

ProcessEntry(o, e) ==
  IF IsMatcher(o.matcher) THEN ProcessMatcherEntry(o, e)
  ELSE IF IsLeafMatcher(o.matcher) THEN ProcessMatcherLeafEntry(o, e)
  ELSE Unparsable

-----------------------------------------------------------------------------
\* NewScanner.  The default it sets when there is no matcher goes to its own
\* copy of the options, after the Scanner got one.
NewScanner(o) == o

Init ==
  /\ opts \in {NewScanner(o) : o \in Options}
  /\ pc = "prepare"
  /\ aborted = FALSE
  /\ next = opts.startIndex
  /\ range = [w \in FetchWorkers |-> <<>>]
  /\ batch = [w \in FetchWorkers |-> <<>>]
  /\ scanned = {}
  /\ entries = <<>>
  /\ matching = [m \in Matchers |-> 0]
  /\ certsProcessed = 0 /\ certsMatched = 0 /\ precertsSeen = 0
  /\ unparsableEntries = 0 /\ entriesWithNonFatalErrors = 0
  /\ foundCert = <<>> /\ foundPrecert = <<>>

\* Fetcher.Prepare fails, or limits the end to the tree.
Prepare ==
  /\ pc = "prepare"
  /\ \/ pc' = "failed" /\ UNCHANGED opts
     \/ /\ pc' = "run"
        /\ opts' = [opts EXCEPT !.endIndex = IF @ = 0 \/ @ > Len(Log) THEN Len(Log) ELSE @]
  /\ UNCHANGED <<aborted, next, range, batch, scanned, entries, matching, counters>>

Cancel ==
  /\ ~aborted /\ pc = "run"
  /\ aborted' = TRUE
  /\ UNCHANGED <<opts, pc, next, range, batch, scanned, entries, matching, counters>>

\* A fetch worker takes the next range from the generator, which may still
\* offer one when the context is done.
TakeRange(w) ==
  /\ pc = "run" /\ range[w] = <<>> /\ batch[w] = <<>> /\ next < opts.endIndex
  /\ LET n == IF opts.endIndex - next < BatchSize THEN opts.endIndex - next ELSE BatchSize
     IN  /\ range' = [range EXCEPT ![w] = [i \in 1 .. n |-> next + i]]
         /\ next' = next + n
  /\ UNCHANGED <<opts, pc, aborted, batch, scanned, entries, matching, counters>>

\* The log answers with some of the entries, and the worker calls flatten.
GetEntries(w) ==
  /\ range[w] # <<>> /\ batch[w] = <<>>
  /\ \E n \in 1 .. Len(range[w]) :
       /\ batch' = [batch EXCEPT ![w] = SubSeq(range[w], 1, n)]
       /\ scanned' = scanned \cup ToSet(SubSeq(range[w], 1, n))
       /\ range' = [range EXCEPT ![w] = SubSeq(@, n + 1, Len(@))]
  /\ UNCHANGED <<opts, pc, aborted, next, entries, matching, counters>>

\* A worker that finds the context done gives up the rest of its range.
GiveUp(w) ==
  /\ aborted /\ range[w] # <<>> /\ batch[w] = <<>>
  /\ range' = [range EXCEPT ![w] = <<>>]
  /\ UNCHANGED <<opts, pc, aborted, next, batch, scanned, entries, matching, counters>>

\* entries <- entryInfo: into the buffer, or to a waiting matcher.
Send(w) ==
  /\ batch[w] # <<>> /\ Len(entries) < BufferSize
  /\ entries' = Append(entries, Head(batch[w]))
  /\ batch' = [batch EXCEPT ![w] = Tail(@)]
  /\ UNCHANGED <<opts, pc, aborted, next, range, scanned, matching, counters>>

HandOver(w, m) ==
  /\ batch[w] # <<>> /\ entries = <<>> /\ matching[m] = 0
  /\ matching' = [matching EXCEPT ![m] = Head(batch[w])]
  /\ batch' = [batch EXCEPT ![w] = Tail(@)]
  /\ UNCHANGED <<opts, pc, aborted, next, range, scanned, entries, counters>>

Receive(m) ==
  /\ matching[m] = 0 /\ entries # <<>>
  /\ matching' = [matching EXCEPT ![m] = Head(entries)]
  /\ entries' = Tail(entries)
  /\ UNCHANGED <<opts, pc, aborted, next, range, scanned, batch, counters>>

Tally(counter, name, r) == counter' = IF name \in r.tallies THEN counter + 1 ELSE counter

\* A worker processes its entry.
Process(m) ==
  /\ matching[m] # 0
  /\ LET i == matching[m]
         r == ProcessEntry(opts, Log[i])
     IN  /\ certsProcessed' = certsProcessed + 1
         /\ Tally(certsMatched, "matched", r) /\ Tally(precertsSeen, "precert", r)
         /\ Tally(unparsableEntries, "unparsable", r)
         /\ Tally(entriesWithNonFatalErrors, "nonFatal", r)
         /\ foundCert' = IF r.found = "cert" THEN Append(foundCert, i) ELSE foundCert
         /\ foundPrecert' = IF r.found = "precert" THEN Append(foundPrecert, i) ELSE foundPrecert
  /\ matching' = [matching EXCEPT ![m] = 0]
  /\ UNCHANGED <<opts, pc, aborted, next, range, scanned, batch, entries>>

\* A slip: a worker that meets an entry it cannot parse ends.
MatcherJobEnds(m) == matching[m] # 0 /\ ProcessEntry(opts, Log[matching[m]]) # Unparsable /\ Process(m)

\* matcherJob goes on with the next entry, whatever came of this one.
MatcherJob(m) == Process(m)

\* Run's workers are done and there is no more to hand out.
FetchDone ==
  /\ \A w \in FetchWorkers : range[w] = <<>> /\ batch[w] = <<>>
  /\ aborted \/ next >= opts.endIndex

\* A slip: ScanLog returns when the Fetcher does.
RunReturnsAtOnce ==
  /\ pc = "run" /\ FetchDone
  /\ pc' = "returned"
  /\ UNCHANGED <<opts, aborted, next, range, scanned, batch, entries, matching, counters>>

\* Fetcher.Run returns, and entries is closed.
RunReturns ==
  /\ pc = "run" /\ FetchDone
  /\ pc' = "wait"
  /\ UNCHANGED <<opts, aborted, next, range, scanned, batch, entries, matching, counters>>

\* The matchers have emptied the channel.
ScanLogReturns ==
  /\ pc = "wait" /\ entries = <<>> /\ \A m \in Matchers : matching[m] = 0
  /\ pc' = "returned"
  /\ UNCHANGED <<opts, aborted, next, range, scanned, batch, entries, matching, counters>>

Next ==
  \/ Prepare \/ Cancel \/ RunReturns \/ ScanLogReturns
  \/ \E w \in FetchWorkers :
       TakeRange(w) \/ GetEntries(w) \/ GiveUp(w) \/ Send(w) \/ \E m \in Matchers : HandOver(w, m)
  \/ \E m \in Matchers : Receive(m) \/ MatcherJob(m)

Spec == Init /\ [][Next]_vars /\ WF_vars(Next)

-----------------------------------------------------------------------------
Matching(type) == {i \in scanned : Log[i].type = type /\ ProcessEntry(opts, Log[i]).found # "none"}
Tallied(name) == Cardinality({i \in scanned : name \in ProcessEntry(opts, Log[i]).tallies})

\* When ScanLog has returned, the callbacks were called exactly once for each
\* entry that matches, and the counters are those of the entries scanned, which
\* are all that were asked for unless the context was done: none is lost in a
\* range, a batch or the channel, and none is counted twice.
ScanExact ==
  pc = "returned" =>
    /\ ~aborted => scanned = opts.startIndex + 1 .. opts.endIndex
    /\ IsInjective(foundCert) /\ ToSet(foundCert) = Matching("x509")
    /\ IsInjective(foundPrecert) /\ ToSet(foundPrecert) = Matching("precert")
    /\ certsProcessed = Cardinality(scanned)
    /\ certsMatched = Tallied("matched") /\ precertsSeen = Tallied("precert")
    /\ unparsableEntries = Tallied("unparsable")
    /\ entriesWithNonFatalErrors = Tallied("nonFatal")

\* ScanLog returns.
ScanReturns == <>(pc \in {"returned", "failed"})

\* NewScanner: "Set a default match-everything regex if none was provided."
DefaultMatchesAll ==
  pc = "returned" /\ opts.matcher.kind = "nil" =>
    \A i \in scanned : LogEntryFromLeaf(Log[i]) # "fatal" => i \in ToSet(foundCert \o foundPrecert)
=============================================================================
