---------------------------- MODULE TemporalLog ----------------------------
(***************************************************************************)
(* client: the LogClient, and the TemporalLogClient, which sends a chain   *)
(* to the shard whose interval holds the certificate's NotAfter and asks   *)
(* all shards for their roots at once.                                     *)
(***************************************************************************)
EXTENDS JSONClient, Sequences, SequencesExt

CONSTANTS
  Configs,        \* configurations: sequences of shards [lower, upper]
  Chains,         \* sets of chains, each request's [notAfter, parses, trusted]
  Roots,          \* of each client's log: the sequence of its roots
  Verifier        \* whether the clients have public keys

ShardType == [lower : Int \cup {None}, upper : Int \cup {None}]
RootCerts == UNION {ToSet(Roots[i]) : i \in Clients}

\* Every shard of a configuration gets a client.
ASSUME TemporalLogAssumption ==
  /\ \A cfg \in Configs : cfg \in Seq(ShardType) /\ 1 .. Len(cfg) \subseteq Clients
  /\ \A c \in Chains : \A r \in Requests : c[r].notAfter \in Int
  /\ \A i \in Clients : Roots[i] \in Seq(RootCerts)

VARIABLES
  chain,          \* the chain of each request
  intervals,      \* of the TemporalLogClient; None if there is no client
  getter,         \* of each client's goroutine in GetAcceptedRoots: "idle", "get", "send", "ended"
  got,            \* what it got: [ok, roots]
  results,        \* the channel
  allRoots,
  received,       \* results read
  rootsPC         \* "idle", "read", "roots", "error"; "none" if it is not called

rootVars == <<getter, got, results, allRoots, received, rootsPC>>
fixed == <<chain, intervals>>
vars == <<jsonVars, rootVars, fixed>>

-----------------------------------------------------------------------------
(* The configuration *)

\* shardInterval
ShardValid(s) == s.lower = None \/ s.upper = None \/ s.lower < s.upper

\* NewTemporalLogClient
ConfigValid(cfg) ==
  /\ cfg # <<>>
  /\ \A i \in 1 .. Len(cfg) : ShardValid(cfg[i])
  /\ \A i \in 2 .. Len(cfg) : /\ cfg[i - 1].upper # None
                              /\ cfg[i].lower # None
                              /\ cfg[i].lower = cfg[i - 1].upper

InInterval(s, when) ==
  /\ s.lower # None => when >= s.lower
  /\ s.upper # None => when < s.upper

IndexByDateInclusive(when) ==
  LET found == {i \in 1 .. Len(intervals) : InInterval(intervals[i], when) \/ when = intervals[i].upper}
  IN  IF found = {} THEN 0 ELSE CHOOSE i \in found : \A j \in found : i <= j

\* TemporalLogClient.IndexByDate: the first interval with the date, or 0.
IndexByDate(when) ==
  LET found == {i \in 1 .. Len(intervals) : InInterval(intervals[i], when)}
  IN  IF found = {} THEN 0 ELSE CHOOSE i \in found : \A j \in found : i <= j

-----------------------------------------------------------------------------
(* Adding a chain.  The signature in an answer is None if it does not      *)
(* decode, or [by, of, timestamp]: whose key signed which request's chain. *)

\* LogClient.VerifySCTSignature
VerifySCTSignature(r, sct) ==
  Verifier => sct.sig = [by |-> client[r], of |-> r, timestamp |-> sct.timestamp]

\* addChainWithRetry, after PostAndParseWithRetry: whether there is an SCT.
HasSCT(r) == result[r] = "ok" /\ resp[r].sig # None /\ VerifySCTSignature(r, resp[r])

\* addChain: a chain that does not parse, or has no shard, is not sent.  Adding
\* chains and getting roots share no state: a behaviour has one or the other.
AddChain(r) ==
  /\ intervals # None /\ rootsPC = "none"
  /\ pc[r] = "idle"
  /\ IF chain[r].parses /\ IndexByDate(chain[r].notAfter) # 0
     THEN Begin(r, IndexByDate(chain[r].notAfter))
     ELSE /\ Return(r, IF chain[r].parses THEN "noShard" ELSE "unparsed")
          /\ UNCHANGED <<now, backoff, client, timer, resp, asked>>
  /\ UNCHANGED <<rootVars, fixed>>

\* The log of a shard: external.  It takes the chains of its interval that lead
\* to one of its roots, and may fail in any way it takes.
LogAnswers(r, a) ==
  LET i == client[r]
      accepts == chain[r].trusted /\ InInterval(intervals[i], chain[r].notAfter)
  IN  /\ a.kind = "refused" => ~accepts
      /\ a.kind = "ok" => accepts

Respond(r) ==
  /\ pc[r] = "sent"
  /\ \E a \in Answers[r] : LogAnswers(r, a) /\ Receive(r, a)
  /\ UNCHANGED <<rootVars, fixed>>

Proceed(r) == JSONStep(r) /\ UNCHANGED <<rootVars, fixed>>

Clock == Tick /\ UNCHANGED <<rootVars, fixed>>

-----------------------------------------------------------------------------
(* TemporalLogClient.GetAcceptedRoots *)

Shards == 1 .. (IF intervals = None THEN 0 ELSE Len(intervals))

GetAcceptedRoots ==
  /\ rootsPC = "idle" /\ intervals # None
  /\ rootsPC' = "read"
  /\ getter' = [i \in Clients |-> IF i \in Shards THEN "get" ELSE "idle"]
  /\ UNCHANGED <<jsonVars, fixed, got, results, allRoots, received>>

\* LogClient.GetAcceptedRoots, one GET: the log's roots or an error.
GetRoots(i) ==
  /\ getter[i] = "get"
  /\ \E ok \in BOOLEAN : got' = [got EXCEPT ![i] = [ok |-> ok, roots |-> IF ok THEN Roots[i] ELSE <<>>]]
  /\ getter' = [getter EXCEPT ![i] = "send"]
  /\ UNCHANGED <<jsonVars, fixed, results, allRoots, received, rootsPC>>

SendUnbuffered(i) ==
  /\ getter[i] = "send"
  /\ results = <<>> /\ rootsPC = "read"
  /\ results' = Append(results, got[i])
  /\ getter' = [getter EXCEPT ![i] = "ended"]
  /\ UNCHANGED <<jsonVars, fixed, got, allRoots, received, rootsPC>>

\* results <- r, to a channel with room for every shard's.
Send(i) ==
  /\ getter[i] = "send"
  /\ Len(results) < Len(intervals)
  /\ results' = Append(results, got[i])
  /\ getter' = [getter EXCEPT ![i] = "ended"]
  /\ UNCHANGED <<jsonVars, fixed, got, allRoots, received, rootsPC>>

\* The roots not seen before, in order.
Unseen(have, roots) ==
  FoldLeft(LAMBDA acc, x : IF x \in ToSet(acc) THEN acc ELSE Append(acc, x), have, roots)

\* r := <-results.  The first error ends the call.
ReadRoots ==
  /\ rootsPC = "read" /\ results # <<>>
  /\ results' = Tail(results)
  /\ received' = received + 1
  /\ IF Head(results).ok
     THEN /\ allRoots' = Unseen(allRoots, Head(results).roots)
          /\ rootsPC' = IF received' = Len(intervals) THEN "roots" ELSE "read"
     ELSE rootsPC' = "error" /\ UNCHANGED allRoots
  /\ UNCHANGED <<jsonVars, fixed, getter, got>>

-----------------------------------------------------------------------------
Init ==
  /\ JSONInit
  /\ chain \in Chains
  /\ \E cfg \in Configs : intervals = IF ConfigValid(cfg) THEN cfg ELSE None
  /\ getter = [i \in Clients |-> "idle"]
  /\ got = [i \in Clients |-> None]
  /\ results = <<>> /\ allRoots = <<>> /\ received = 0
  /\ rootsPC \in {"idle", "none"}

Next ==
  \/ Clock
  \/ \E r \in Requests : AddChain(r) \/ Respond(r) \/ Proceed(r)
  \/ GetAcceptedRoots \/ ReadRoots
  \/ \E i \in Clients : GetRoots(i) \/ Send(i)

\* The goroutines run, the clock goes on and a GET of the roots ends; nothing
\* makes a log answer a POST.
Fairness ==
  /\ WF_vars(Clock)
  /\ \A r \in Requests : WF_vars(Proceed(r))
  /\ WF_vars(ReadRoots)
  /\ \A i \in Clients : WF_vars(GetRoots(i)) /\ WF_vars(Send(i))

Spec == Init /\ [][Next]_vars /\ Fairness

-----------------------------------------------------------------------------
\* A chain goes to the one shard that takes its date: it is turned away by the
\* client exactly if no shard would take it, by a log only for its roots, and
\* with public keys an SCT that AddChain returns is that shard's signature of
\* this chain, even where answers with errors have left parts of a response.
RightShardAnswers ==
  intervals # None =>
    \A r \in Requests :
      LET takers == {i \in Shards : InInterval(intervals[i], chain[r].notAfter)}
      IN  pc[r] = "done" =>
            /\ result[r] = "noShard" => takers = {}
            /\ result[r] = "refused" => ~chain[r].trusted
            /\ HasSCT(r) => /\ takers = {client[r]}
                            /\ Verifier => resp[r].sig = [by |-> client[r], of |-> r,
                                                          timestamp |-> resp[r].timestamp]

\* GetAcceptedRoots returns the union of the shards' roots, without
\* duplicates, only if every shard has answered.
RootsComplete ==
  rootsPC = "roots" =>
    /\ ToSet(allRoots) = UNION {ToSet(Roots[i]) : i \in Shards}
    /\ \A i, j \in 1 .. Len(allRoots) : i # j => allRoots[i] # allRoots[j]

\* TemporalLogClient answers as one log would: AddChain with the SCT of the one
\* shard that may give it, GetAcceptedRoots with the roots of all of them.
AnswersAsOneLog == RightShardAnswers /\ RootsComplete

\* A request ends once its context has, whatever the log answers and however
\* long the client backs off; GetAcceptedRoots returns, and none of its
\* goroutines is left waiting to send after an early return.
CallsEnd ==
  /\ \A r \in Requests : (pc[r] # "idle") ~> (pc[r] = "done")
  /\ (rootsPC = "read") ~> (rootsPC # "read" /\ \A i \in Shards : getter[i] = "ended")
=============================================================================
