-------------------------- MODULE TemporalLogProofs --------------------------
(***************************************************************************)
(* Proofs about JSONClient and TemporalLog: for every number of requests,  *)
(* every configuration of shards and whatever the logs answer.  And about  *)
(* RangeTracker: for every range and any order of sub-ranges and marks.    *)
(***************************************************************************)
EXTENDS TemporalLog, RangeTracker, FiniteSetTheorems, WellFoundedInduction, TLAPS

Statuses == {"idle", "post", "sent", "until", "wait", "done"}

\* What every variable may hold.
TypeOK ==
  /\ now \in Nat
  /\ backoff \in [Clients -> [multiplier : Nat, notBefore : Int]]
  /\ client \in [Requests -> Clients \cup {None}]
  /\ pc \in [Requests -> Statuses]
  /\ timer \in [Requests -> Int]
  /\ result \in [Requests -> {"none", "ok", "refused", "context", "noShard", "unparsed"}]
  /\ asked \in [Requests -> Int]
  /\ getter \in [Clients -> {"idle", "get", "send", "ended"}]
  /\ allRoots \in Seq(RootCerts)
  /\ received \in Nat
  /\ rootsPC \in {"idle", "read", "roots", "error", "none"}

\* The configuration is one that NewTemporalLogClient takes.
ConfigInv ==
  /\ chain \in Chains
  /\ intervals # None => intervals \in Configs /\ ConfigValid(intervals)

\* While a request waits, the backoff it will read, or the timer it has set, is
\* not before the time it was asked to come back, unless that is past.
RetryFor(r) ==
  \/ now >= asked[r]
  \/ pc[r] = "until" /\ backoff[client[r]].notBefore >= asked[r]
  \/ pc[r] = "wait" /\ timer[r] >= asked[r]
  \/ pc[r] = "done"
RetryInv == \A r \in Requests : RetryFor(r)

\* A request that was sent is with a shard for its date; what it ends with.
Routed(r) ==
  intervals # None /\ client[r] \in Shards /\ InInterval(intervals[client[r]], chain[r].notAfter)
RouteFor(r) ==
  /\ pc[r] \in {"post", "sent", "until", "wait"} => Routed(r)
  /\ result[r] = "ok" => Routed(r)
  /\ result[r] = "refused" => ~chain[r].trusted
  /\ result[r] = "noShard" => \A i \in Shards : ~InInterval(intervals[i], chain[r].notAfter)
RouteInv == \A r \in Requests : RouteFor(r)

\* GetAcceptedRoots: the goroutines that have ended are those whose results were
\* read or are in the channel, and an error among them is still there.
Ended == {i \in Clients : getter[i] = "ended"}
EndedRoots == UNION {ToSet(got[i].roots) : i \in Ended}
ChannelRoots == UNION {ToSet(res.roots) : res \in ToSet(results)}
RootsInv ==
  /\ DOMAIN got = Clients
  /\ \A i \in Clients : getter[i] # "idle" => intervals # None /\ i \in Shards
  /\ \A i \in Clients : getter[i] \in {"send", "ended"} =>
       got[i] \in [ok : BOOLEAN, roots : {Roots[i], <<>>}] /\ (got[i].ok => got[i].roots = Roots[i])
  /\ results \in Seq([ok : BOOLEAN, roots : Seq(RootCerts)])
  /\ IsInjective(allRoots)
  /\ rootsPC \in {"idle", "none"} => /\ allRoots = <<>> /\ received = 0 /\ results = <<>>
                                     /\ \A i \in Clients : getter[i] = "idle"
  /\ rootsPC \in {"read", "roots"} =>
       /\ intervals # None
       /\ Cardinality(Ended) = received + Len(results)
       /\ ToSet(allRoots) \cup ChannelRoots = EndedRoots
       /\ \A i \in Ended : got[i].ok \/ \E res \in ToSet(results) : ~res.ok
  /\ rootsPC = "roots" => received = Len(intervals)

IInv == TypeOK /\ ConfigInv /\ RetryInv /\ RouteInv /\ RootsInv

-----------------------------------------------------------------------------
(* Induction, and the intervals of a configuration.                         *)

\* A nonempty set of naturals has a least element.
LEMMA LeastElement ==
  ASSUME NEW T \in SUBSET Nat, T # {}
  PROVE  \E x \in T : \A y \in T : x <= y
<1>1. PICK x \in T : \A y \in T : ~(<<y, x>> \in OpToRel(<, Nat))
  BY NatLessThanWellFounded, WFMin, Zenon
<1>2. \A y \in T : ~(y < x)
  BY <1>1 DEF OpToRel
<1> QED
  BY <1>2

\* Induction over the naturals for a set instead of a predicate.
LEMMA SetInduction ==
  ASSUME NEW S \in SUBSET Nat, 0 \in S, \A n \in S : n + 1 \in S
  PROVE  S = Nat
<1> SUFFICES ASSUME Nat \ S # {} PROVE FALSE
  OBVIOUS
<1>1. PICK x \in Nat \ S : \A y \in Nat \ S : x <= y
  BY LeastElement
<1>2. x # 0 /\ x - 1 \in Nat
  BY <1>1
<1> QED
  BY <1>1, <1>2

\* Max of a nonempty bounded set of naturals is its largest element.
LEMMA MaxFacts ==
  ASSUME NEW n \in Nat, NEW s \in SUBSET (1 .. n), s # {}
  PROVE  Max(s) \in s /\ \A i \in s : i <= Max(s)
<1> DEFINE T == {b \in Nat : \A i \in s : i <= b}
<1>1. PICK b \in T : \A y \in T : b <= y
  <2>1. n \in T
    OBVIOUS
  <2>2. T \in SUBSET Nat /\ T # {}
    BY <2>1
  <2> HIDE DEF T
  <2> QED
    BY <2>2, LeastElement
<1>2. b \in s
  <2> SUFFICES ASSUME b \notin s PROVE FALSE
    OBVIOUS
  <2>1. \A i \in s : i <= b - 1
    BY <1>1
  <2>2. PICK i \in s : i \in 1 .. n
    OBVIOUS
  <2>3. b - 1 \in T
    BY <1>1, <2>1, <2>2
  <2> QED
    BY <1>1, <2>3
<1>3. \E x \in s : \A y \in s : x >= y
  BY <1>1, <1>2
<1>4. Max(s) \in s /\ \A y \in s : Max(s) >= y
  BY <1>3 DEF Max
<1> QED
  BY <1>4

\* In a configuration that is accepted an interval ends before later ones begin.
LEMMA IntervalsInOrder ==
  ASSUME NEW cfg \in Seq(ShardType), ConfigValid(cfg),
         NEW i \in 1 .. Len(cfg), NEW n \in 1 .. Len(cfg), i < n
  PROVE  cfg[i].upper \in Int /\ cfg[n].lower \in Int /\ cfg[i].upper <= cfg[n].lower
<1> DEFINE Good(k) == /\ cfg[i].upper \in Int /\ cfg[k].lower \in Int
                      /\ cfg[i].upper <= cfg[k].lower
           S == {d \in Nat : i + d + 1 <= Len(cfg) => Good(i + d + 1)}
<1>1. ASSUME NEW k \in 2 .. Len(cfg)
      PROVE  /\ cfg[k].lower \in Int /\ cfg[k - 1].upper \in Int /\ cfg[k].lower = cfg[k - 1].upper
             /\ k - 1 \in 1 .. Len(cfg)
  <2>1. k - 1 \in 1 .. Len(cfg) /\ k \in 1 .. Len(cfg)
    OBVIOUS
  <2>2. cfg[k] \in ShardType /\ cfg[k - 1] \in ShardType
    BY <2>1
  <2>3. cfg[k].lower # None /\ cfg[k - 1].upper # None /\ cfg[k].lower = cfg[k - 1].upper
    BY <1>1 DEF ConfigValid
  <2> QED
    BY <2>1, <2>2, <2>3 DEF ShardType
<1>2. Len(cfg) \in Nat /\ i \in Nat /\ n \in Nat
  OBVIOUS
<1>3. 0 \in S
  <2> SUFFICES ASSUME i + 1 <= Len(cfg) PROVE Good(i + 1)
    BY <1>2
  <2>1. i + 1 \in 2 .. Len(cfg) /\ (i + 1) - 1 = i
    BY <1>2
  <2>2. /\ cfg[i + 1].lower \in Int /\ cfg[(i + 1) - 1].upper \in Int
        /\ cfg[i + 1].lower = cfg[(i + 1) - 1].upper
    BY <1>1, <2>1
  <2> QED
    BY <2>1, <2>2
<1>4. ASSUME NEW d \in S PROVE d + 1 \in S
  <2>1. d \in Nat /\ (i + d + 1 <= Len(cfg) => Good(i + d + 1))
    OBVIOUS
  <2>2. PICK k : k = i + d + 1
    OBVIOUS
  <2> SUFFICES ASSUME k + 1 <= Len(cfg) PROVE Good(k + 1)
    BY <1>2, <2>1, <2>2
  <2>3. k \in 2 .. Len(cfg) /\ k + 1 \in 2 .. Len(cfg) /\ (k + 1) - 1 = k
    BY <1>2, <2>1, <2>2
  <2>4. cfg[k].lower \in Int /\ cfg[k - 1].upper \in Int
    BY <1>1, <2>3
  <2>5. /\ cfg[k + 1].lower \in Int /\ cfg[(k + 1) - 1].upper \in Int
        /\ cfg[k + 1].lower = cfg[(k + 1) - 1].upper
    BY <1>1, <2>3
  <2>6. cfg[k].upper \in Int /\ cfg[k + 1].lower = cfg[k].upper
    BY <2>3, <2>5
  <2>7. cfg[k].lower < cfg[k].upper
    <3>1. k \in 1 .. Len(cfg)
      BY <2>3
    <3>2. ShardValid(cfg[k]) /\ cfg[k].lower # None
      BY <2>3, <3>1 DEF ConfigValid
    <3>3. cfg[k].upper # None
      BY <2>3, <2>5 DEF ConfigValid
    <3> QED
      BY <3>2, <3>3 DEF ShardValid
  <2>8. Good(k)
    BY <2>1, <2>2, <2>3
  <2> QED
    BY <2>4, <2>5, <2>6, <2>7, <2>8
<1>5. S \in SUBSET Nat
  OBVIOUS
<1>6. S = Nat
  <2> HIDE DEF S
  <2> QED
    BY <1>3, <1>4, <1>5, SetInduction
<1>7. n - i - 1 \in S /\ i + (n - i - 1) + 1 = n
  <2>1. n - i - 1 \in Nat /\ i + (n - i - 1) + 1 = n
    BY <1>2
  <2> HIDE DEF S
  <2> QED
    BY <1>6, <2>1
<1> HIDE DEF Good
<1>8. Good(n)
  <2>1. PICK d : d = n - i - 1
    OBVIOUS
  <2>2. d \in S /\ i + d + 1 = n
    BY <1>7, <2>1
  <2> QED
    BY <1>2, <2>2
<1> QED
  BY <1>8 DEF Good

\* No date is in two of them.
LEMMA OneInterval ==
  ASSUME NEW cfg \in Seq(ShardType), ConfigValid(cfg), NEW when \in Int,
         NEW i \in 1 .. Len(cfg), NEW k \in 1 .. Len(cfg),
         InInterval(cfg[i], when), InInterval(cfg[k], when)
  PROVE  i = k
<1>1. ASSUME NEW a \in 1 .. Len(cfg), NEW b \in 1 .. Len(cfg), a < b,
             InInterval(cfg[a], when), InInterval(cfg[b], when)
      PROVE  FALSE
  <2>1. cfg[a].upper \in Int /\ cfg[b].lower \in Int /\ cfg[a].upper <= cfg[b].lower
    BY <1>1, IntervalsInOrder
  <2>2. cfg[a].upper # None /\ cfg[b].lower # None
    <3>1. a + 1 \in 2 .. Len(cfg) /\ b \in 2 .. Len(cfg) /\ (a + 1) - 1 = a
      BY <1>1
    <3>2. cfg[(a + 1) - 1].upper # None /\ cfg[b].lower # None
      BY <3>1 DEF ConfigValid
    <3> QED
      BY <3>1, <3>2
  <2> QED
    BY <1>1, <2>1, <2>2 DEF InInterval
<1> QED
  BY <1>1

\* IndexByDate finds an interval with the date if there is one.
LEMMA IndexFacts ==
  ASSUME NEW when, Len(intervals) \in Nat
  PROVE  /\ IndexByDate(when) # 0 => /\ IndexByDate(when) \in 1 .. Len(intervals)
                                     /\ InInterval(intervals[IndexByDate(when)], when)
         /\ IndexByDate(when) = 0 => \A i \in 1 .. Len(intervals) : ~InInterval(intervals[i], when)
<1> DEFINE found == {i \in 1 .. Len(intervals) : InInterval(intervals[i], when)}
<1>1. CASE found = {}
  BY <1>1 DEF IndexByDate
<1>2. CASE found # {}
  <2>1. \E i \in found : \A j \in found : i <= j
    <3>1. found \in SUBSET Nat
      OBVIOUS
    <3> HIDE DEF found
    <3> QED
      BY <1>2, <3>1, LeastElement
  <2>2. IndexByDate(when) = CHOOSE i \in found : \A j \in found : i <= j
    BY <1>2 DEF IndexByDate
  <2>3. IndexByDate(when) \in found
    <3> HIDE DEF found
    <3> QED
      BY <2>1, <2>2
  <2> QED
    BY <2>3
<1> QED
  BY <1>1, <1>2

-----------------------------------------------------------------------------
(* Unseen adds the roots that are new, each once.                           *)

\* The recursion of the fold in Unseen, over subsets of the positions.
UnseenStep(g, have, roots, s) ==
  IF s = {} THEN have
  ELSE IF roots[Max(s)] \in ToSet(g[s \ {Max(s)}]) THEN g[s \ {Max(s)}]
  ELSE Append(g[s \ {Max(s)}], roots[Max(s)])
IsUnseen(g, have, roots, n) == g = [s \in SUBSET (1 .. n) |-> UnseenStep(g, have, roots, s)]

\* Unseen is a value of the function the recursion defines.
LEMMA UnseenUnfold ==
  ASSUME NEW have, NEW roots
  PROVE  Unseen(have, roots) =
           (CHOOSE g : g = [s \in SUBSET (DOMAIN roots) |-> UnseenStep(g, have, roots, s)])[DOMAIN roots]
  BY DEF Unseen, FoldLeft, MapThenFoldSet, UnseenStep

\* There is such a function.
LEMMA UnseenExists ==
  ASSUME NEW have, NEW roots, NEW n \in Nat
  PROVE  \E g : IsUnseen(g, have, roots, n)
<1> DEFINE S == {m \in Nat : \E g : IsUnseen(g, have, roots, m)}
<1>1. 0 \in S
  <2> DEFINE g == [s \in SUBSET (1 .. 0) |-> have]
  <2>1. \A s \in SUBSET (1 .. 0) : s = {}
    OBVIOUS
  <2>2. IsUnseen(g, have, roots, 0)
    BY <2>1 DEF IsUnseen, UnseenStep
  <2> QED
    BY <2>2
<1>2. ASSUME NEW m \in S PROVE m + 1 \in S
  <2>1. m \in Nat /\ \E g : IsUnseen(g, have, roots, m)
    OBVIOUS
  <2>2. PICK g : IsUnseen(g, have, roots, m)
    BY <2>1
  <2> DEFINE h == [s \in SUBSET (1 .. m + 1) |->
                     IF m + 1 \in s THEN UnseenStep(g, have, roots, s) ELSE g[s]]
  <2>3. ASSUME NEW s \in SUBSET (1 .. m + 1) PROVE h[s] = UnseenStep(h, have, roots, s)
    <3>1. CASE m + 1 \in s
      <4>1. m + 1 \in Nat /\ s # {}
        BY <2>1, <3>1
      <4>3. PICK x : x = Max(s)
        OBVIOUS
      <4>5. x \in s /\ \A i \in s : i <= x
        BY <4>1, <4>3, MaxFacts
      <4>4. Max(s) = m + 1
        BY <2>1, <3>1, <4>3, <4>5
      <4>2. s \ {m + 1} \in SUBSET (1 .. m + 1) /\ h[s \ {m + 1}] = g[s \ {m + 1}]
        OBVIOUS
      <4> QED
        BY <3>1, <4>4, <4>2 DEF UnseenStep
    <3>2. CASE m + 1 \notin s
      <4>1. s \in SUBSET (1 .. m)
        BY <2>1, <3>2
      <4>2. s \ {Max(s)} \in SUBSET (1 .. m + 1) /\ h[s \ {Max(s)}] = g[s \ {Max(s)}]
        BY <3>2
      <4>3. g[s] = UnseenStep(g, have, roots, s)
        BY <2>2, <4>1 DEF IsUnseen
      <4> QED
        BY <3>2, <4>2, <4>3 DEF UnseenStep
    <3> QED
      BY <3>1, <3>2
  <2>4. IsUnseen(h, have, roots, m + 1)
    <3>1. h = [s \in SUBSET (1 .. m + 1) |-> h[s]]
      OBVIOUS
    <3> HIDE DEF h
    <3> QED
      BY <2>3, <3>1 DEF IsUnseen
  <2> QED
    BY <2>1, <2>4
<1>3. S \in SUBSET Nat
  OBVIOUS
<1>4. S = Nat
  <2> HIDE DEF S
  <2> QED
    BY <1>1, <1>2, <1>3, SetInduction
<1> QED
  BY <1>4

\* A new element can be appended.
LEMMA AppendFacts ==
  ASSUME NEW C, NEW q \in Seq(C), NEW e \in C
  PROVE  /\ Append(q, e) \in Seq(C) /\ ToSet(Append(q, e)) = ToSet(q) \cup {e}
         /\ IsInjective(q) /\ e \notin ToSet(q) => IsInjective(Append(q, e))
<1> DEFINE a == Append(q, e)
<1>1. /\ a \in Seq(C) /\ Len(q) \in Nat /\ a[Len(q) + 1] = e
      /\ DOMAIN a = 1 .. Len(q) + 1 /\ DOMAIN q = 1 .. Len(q)
  OBVIOUS
<1>2. \A i \in 1 .. Len(q) : a[i] = q[i]
  OBVIOUS
<1> HIDE DEF a
<1>3. ToSet(a) \subseteq ToSet(q) \cup {e}
  BY <1>1, <1>2 DEF ToSet
<1>4. ToSet(q) \cup {e} \subseteq ToSet(a)
  BY <1>1, <1>2 DEF ToSet
<1>5. ASSUME IsInjective(q), e \notin ToSet(q) PROVE IsInjective(a)
  <2>1. \A i \in 1 .. Len(q) : a[i] # e
    BY <1>1, <1>2, <1>5 DEF ToSet
  <2> QED
    BY <1>1, <1>2, <1>5, <2>1 DEF IsInjective
<1> QED
  BY <1>1, <1>3, <1>4, <1>5 DEF a

\* It yields what was there and the roots at the positions it was given.
LEMMA UnseenContents ==
  ASSUME NEW C, NEW have \in Seq(C), IsInjective(have), NEW roots \in Seq(C),
         NEW g, NEW n \in Nat, n = Len(roots), IsUnseen(g, have, roots, n)
  PROVE  /\ g[1 .. n] \in Seq(C) /\ IsInjective(g[1 .. n])
         /\ ToSet(g[1 .. n]) = ToSet(have) \cup ToSet(roots)
<1> DEFINE Good(s) == /\ g[s] \in Seq(C) /\ IsInjective(g[s])
                      /\ ToSet(g[s]) = ToSet(have) \cup {roots[i] : i \in s}
           S == {m \in Nat : m <= n => \A s \in SUBSET (1 .. m) : Good(s)}
<1>0. Good({})
  <2>1. {} \in SUBSET (1 .. n)
    OBVIOUS
  <2>2. g[{}] = have
    BY <2>1 DEF IsUnseen, UnseenStep
  <2> QED
    BY <2>2
<1>1. 0 \in S
  <2>1. \A s \in SUBSET (1 .. 0) : s = {}
    OBVIOUS
  <2> QED
    BY <2>1, <1>0
<1>2. ASSUME NEW m \in S PROVE m + 1 \in S
  <2>1. m \in Nat /\ m + 1 \in Nat /\ (m <= n => \A t \in SUBSET (1 .. m) : Good(t))
    OBVIOUS
  <2>2. ASSUME m + 1 <= n, NEW s \in SUBSET (1 .. m + 1), s # {} PROVE Good(s)
    <3>1. PICK x : x = Max(s)
      OBVIOUS
    <3>2. x \in s /\ \A i \in s : i <= x
      BY <2>1, <2>2, <3>1, MaxFacts
    <3>3. PICK t : t = s \ {x}
      OBVIOUS
    <3>4. s \in SUBSET (1 .. n) /\ t \in SUBSET (1 .. m)
      BY <2>1, <2>2, <3>2, <3>3
    <3>5. /\ g[t] \in Seq(C) /\ IsInjective(g[t])
          /\ ToSet(g[t]) = ToSet(have) \cup {roots[i] : i \in t}
      <4>1. Good(t)
        <5> HIDE DEF Good
        <5> QED
          BY <2>1, <2>2, <3>4
      <4> QED
        BY <4>1
    <3>6. g[s] = IF roots[x] \in ToSet(g[t]) THEN g[t] ELSE Append(g[t], roots[x])
      BY <2>2, <3>1, <3>3, <3>4 DEF IsUnseen, UnseenStep
    <3>7. roots[x] \in C
      BY <3>2, <3>4
    <3>8. {roots[i] : i \in s} = {roots[i] : i \in t} \cup {roots[x]}
      BY <3>2, <3>3
    <3>9. CASE roots[x] \in ToSet(g[t])
      BY <3>5, <3>6, <3>8, <3>9
    <3>10. CASE roots[x] \notin ToSet(g[t])
      <4>1. g[s] = Append(g[t], roots[x])
        BY <3>6, <3>10
      <4>2. g[s] \in Seq(C)
        BY <3>5, <3>7, <4>1
      <4>3. ToSet(g[s]) = ToSet(g[t]) \cup {roots[x]} /\ IsInjective(g[s])
        <5>1. PICK q, e : q = g[t] /\ e = roots[x]
          OBVIOUS
        <5>2. q \in Seq(C) /\ e \in C /\ IsInjective(q) /\ e \notin ToSet(q)
          BY <3>5, <3>7, <3>10, <5>1
        <5>3. ToSet(Append(q, e)) = ToSet(q) \cup {e} /\ IsInjective(Append(q, e))
          BY <5>2, AppendFacts
        <5> QED
          BY <4>1, <5>1, <5>3
      <4> QED
        BY <3>5, <3>8, <4>2, <4>3
    <3> QED
      BY <3>9, <3>10
  <2> HIDE DEF Good
  <2> QED
    BY <1>0, <2>1, <2>2
<1>3. S \in SUBSET Nat
  OBVIOUS
<1>4. S = Nat
  <2> HIDE DEF S
  <2> QED
    BY <1>1, <1>2, <1>3, SetInduction
<1>5. Good(1 .. n)
  <2> HIDE DEF Good
  <2>1. n \in S
    BY <1>4
  <2> QED
    BY <2>1
<1>6. ToSet(roots) = {roots[i] : i \in 1 .. n}
  BY DEF ToSet
<1> QED
  BY <1>5, <1>6

\* GetAcceptedRoots adds a shard's roots to those it has, without repetitions.
LEMMA UnseenFacts ==
  ASSUME NEW C, NEW have \in Seq(C), IsInjective(have), NEW roots \in Seq(C)
  PROVE  /\ Unseen(have, roots) \in Seq(C) /\ IsInjective(Unseen(have, roots))
         /\ ToSet(Unseen(have, roots)) = ToSet(have) \cup ToSet(roots)
<1> DEFINE g == CHOOSE g : g = [s \in SUBSET (DOMAIN roots) |-> UnseenStep(g, have, roots, s)]
<1>1. DOMAIN roots = 1 .. Len(roots) /\ Len(roots) \in Nat
  OBVIOUS
<1>2. IsUnseen(g, have, roots, Len(roots))
  <2>1. PICK f : IsUnseen(f, have, roots, Len(roots))
    BY <1>1, UnseenExists
  <2>2. f = [s \in SUBSET (DOMAIN roots) |-> UnseenStep(f, have, roots, s)]
    BY <1>1, <2>1 DEF IsUnseen
  <2>3. g = [s \in SUBSET (DOMAIN roots) |-> UnseenStep(g, have, roots, s)]
    BY <2>2
  <2> QED
    BY <1>1, <2>3 DEF IsUnseen
<1>3. Unseen(have, roots) = g[1 .. Len(roots)]
  BY <1>1, UnseenUnfold
<1> HIDE DEF g
<1> QED
  BY <1>1, <1>2, <1>3, UnseenContents


-----------------------------------------------------------------------------
(* The requests.                                                            *)

\* The shards are those of the configuration, and each has a client.
LEMMA ShardFacts ==
  ASSUME ConfigInv, intervals # None
  PROVE  /\ intervals \in Seq(ShardType) /\ ConfigValid(intervals)
         /\ Len(intervals) \in Nat /\ Shards = 1 .. Len(intervals) /\ Shards \subseteq Clients
<1>1. intervals \in Configs /\ ConfigValid(intervals)
  BY DEF ConfigInv
<1>2. intervals \in Seq(ShardType) /\ 1 .. Len(intervals) \subseteq Clients
  BY <1>1, TemporalLogAssumption
<1> QED
  BY <1>1, <1>2 DEF Shards

\* backoff.set does not bring a time that is still ahead forward, and is not
\* before what it is given.
LEMMA SetFacts ==
  ASSUME NEW b \in [multiplier : Nat, notBefore : Int], NEW override \in Int \cup {None}, now \in Nat
  PROVE  /\ Set(b, override) \in [multiplier : Nat, notBefore : Int]
         /\ b.notBefore > now => Set(b, override).notBefore >= b.notBefore
         /\ override # None => Set(b, override).notBefore >= now + override
<1>1. b.multiplier \in Nat /\ b.notBefore \in Int
  OBVIOUS
<1>2. PICK m : m = IF b.multiplier < MaxMultiplier THEN b.multiplier + 1 ELSE b.multiplier
  OBVIOUS
<1>3. m \in Nat /\ m - 1 \in Nat
  BY <1>1, <1>2, BackoffAssumption
<1>4. 2 ^ (m - 1) \in Int
  BY <1>3
<1>5. CASE b.notBefore > now
  BY <1>1, <1>5 DEF Set, Larger
<1>6. CASE ~(b.notBefore > now) /\ override # None
  BY <1>1, <1>6 DEF Set
<1>7. CASE ~(b.notBefore > now) /\ override = None
  <2>1. Set(b, override) = [multiplier |-> m, notBefore |-> now + 2 ^ (m - 1)]
    BY <1>2, <1>7 DEF Set
  <2>2. now + 2 ^ (m - 1) \in Int
    BY <1>4
  <2> QED
    BY <1>3, <1>7, <2>1, <2>2
<1> QED
  BY <1>5, <1>6, <1>7

\* What a step does to the backoff of a client.
Later(c) == /\ backoff'[c] \in [multiplier : Nat, notBefore : Int]
            /\ backoff[c].notBefore > now => backoff'[c].notBefore >= backoff[c].notBefore

\* A request that backs off.
LEMMA BackOffFacts ==
  ASSUME IInv, NEW r \in Requests, pc[r] = "sent", NEW override \in Int \cup {None}, BackOff(r, override)
  PROVE  /\ client[r] \in Clients /\ backoff' \in [Clients -> [multiplier : Nat, notBefore : Int]]
         /\ \A c \in Clients : Later(c)
         /\ override # None => backoff'[client[r]].notBefore >= now + override
         /\ pc' = [pc EXCEPT ![r] = "until"] /\ UNCHANGED result
<1>1. client[r] \in Clients
  BY ShardFacts DEF IInv, RouteInv, RouteFor, Routed
<1>2. backoff[client[r]] \in [multiplier : Nat, notBefore : Int] /\ now \in Nat
  BY <1>1 DEF IInv, TypeOK
<1>3. backoff' = [backoff EXCEPT ![client[r]] = Set(backoff[client[r]], override)]
  BY DEF BackOff
<1>4. PICK s : s = Set(backoff[client[r]], override)
  OBVIOUS
<1>5. /\ s \in [multiplier : Nat, notBefore : Int]
      /\ backoff[client[r]].notBefore > now => s.notBefore >= backoff[client[r]].notBefore
      /\ override # None => s.notBefore >= now + override
  BY <1>2, <1>4, SetFacts
<1>6. /\ backoff' \in [Clients -> [multiplier : Nat, notBefore : Int]]
      /\ backoff'[client[r]] = s /\ \A c \in Clients : c # client[r] => backoff'[c] = backoff[c]
  BY <1>1, <1>3, <1>4, <1>5 DEF IInv, TypeOK
<1>7. ASSUME NEW c \in Clients PROVE Later(c)
  <2>1. CASE c = client[r]
    BY <1>5, <1>6, <2>1 DEF Later
  <2>2. CASE c # client[r]
    <3>1. backoff[c] \in [multiplier : Nat, notBefore : Int]
      BY DEF IInv, TypeOK
    <3>2. backoff[c].notBefore \in Int
      BY <3>1
    <3> QED
      BY <1>6, <2>2, <3>1, <3>2 DEF Later
  <2> QED
    BY <2>1, <2>2
<1> QED
  BY <1>1, <1>5, <1>6, <1>7 DEF BackOff

\* GetAcceptedRoots depends on nothing else.
LEMMA RootsSame ==
  ASSUME RootsInv, UNCHANGED <<rootVars, fixed>>
  PROVE  RootsInv'
<1>1. /\ getter' = getter /\ got' = got /\ results' = results /\ allRoots' = allRoots
      /\ received' = received /\ rootsPC' = rootsPC /\ intervals' = intervals
  BY DEF rootVars, fixed
<1>2. Ended' = Ended /\ Shards' = Shards
  BY <1>1 DEF Ended, Shards
<1>3. EndedRoots' = EndedRoots /\ ChannelRoots' = ChannelRoots
  BY <1>1, <1>2 DEF EndedRoots, ChannelRoots
<1> QED
  BY <1>1, <1>2, <1>3 DEF RootsInv

\* A step of one request leaves the others as they are, but for the backoff they
\* share, which it does not bring forward.
LEMMA OneRequest ==
  ASSUME IInv, UNCHANGED <<now, rootVars, fixed>>, NEW r \in Requests,
         backoff' \in [Clients -> [multiplier : Nat, notBefore : Int]], \A c \in Clients : Later(c),
         NEW p \in Statuses, pc' = [pc EXCEPT ![r] = p],
         NEW cl \in Clients \cup {None}, client' = [client EXCEPT ![r] = cl],
         NEW t \in Int, timer' = [timer EXCEPT ![r] = t],
         NEW a \in Int, asked' = [asked EXCEPT ![r] = a],
         NEW res \in {"none", "ok", "refused", "context", "noShard", "unparsed"},
         result' = [result EXCEPT ![r] = res],
         RetryFor(r)', RouteFor(r)'
  PROVE  IInv'
<1>1. /\ pc' \in [Requests -> Statuses] /\ client' \in [Requests -> Clients \cup {None}]
      /\ timer' \in [Requests -> Int] /\ asked' \in [Requests -> Int]
      /\ result' \in [Requests -> {"none", "ok", "refused", "context", "noShard", "unparsed"}]
  BY DEF IInv, TypeOK
<1>2. TypeOK'
  BY <1>1 DEF IInv, TypeOK, rootVars
<1>3. ConfigInv'
  BY DEF IInv, ConfigInv, ConfigValid, fixed
<1>4. RootsInv'
  BY RootsSame DEF IInv
<1>5. ASSUME NEW q \in Requests, q # r
      PROVE  /\ pc'[q] = pc[q] /\ client'[q] = client[q] /\ timer'[q] = timer[q]
             /\ asked'[q] = asked[q] /\ result'[q] = result[q]
  BY <1>5 DEF IInv, TypeOK
<1>6. ASSUME NEW q \in Requests, q # r PROVE RouteFor(q)'
  BY <1>5, <1>6 DEF IInv, RouteInv, RouteFor, Routed, Shards, InInterval, fixed
<1>7. ASSUME NEW q \in Requests, q # r PROVE RetryFor(q)'
  <2>1. /\ asked[q] \in Int /\ now \in Nat /\ now' = now /\ RetryFor(q)
    BY DEF IInv, TypeOK, RetryInv
  <2>2. CASE pc[q] = "until" /\ backoff[client[q]].notBefore >= asked[q] /\ ~(now >= asked[q])
    <3>1. client[q] \in Clients
      BY <2>2, ShardFacts DEF IInv, RouteInv, RouteFor, Routed
    <3>2. backoff[client[q]].notBefore \in Int /\ backoff'[client[q]].notBefore \in Int
      BY <3>1 DEF IInv, TypeOK
    <3>3. backoff'[client[q]].notBefore >= backoff[client[q]].notBefore
      BY <2>1, <2>2, <3>1, <3>2 DEF Later
    <3> QED
      BY <1>5, <1>7, <2>1, <2>2, <3>2, <3>3 DEF RetryFor
  <2> QED
    BY <1>5, <1>7, <2>1, <2>2 DEF RetryFor
<1> QED
  BY <1>2, <1>3, <1>4, <1>6, <1>7 DEF IInv, RetryInv, RouteInv

\* A client whose backoff does not change.
LEMMA BackoffSame ==
  ASSUME IInv, UNCHANGED backoff
  PROVE  backoff' \in [Clients -> [multiplier : Nat, notBefore : Int]] /\ \A c \in Clients : Later(c)
<1>1. backoff \in [Clients -> [multiplier : Nat, notBefore : Int]] /\ now \in Nat
  BY DEF IInv, TypeOK
<1>2. \A c \in Clients : backoff[c] \in [multiplier : Nat, notBefore : Int] /\ backoff[c].notBefore \in Int
  BY <1>1
<1> QED
  BY <1>1, <1>2 DEF Later

\* A request's own fields stay what they are where a step does not set them.
LEMMA OwnFields ==
  ASSUME IInv, NEW r \in Requests
  PROVE  /\ pc[r] \in Statuses /\ client[r] \in Clients \cup {None}
         /\ timer[r] \in Int /\ asked[r] \in Int
         /\ result[r] \in {"none", "ok", "refused", "context", "noShard", "unparsed"}
         /\ pc = [pc EXCEPT ![r] = pc[r]] /\ client = [client EXCEPT ![r] = client[r]]
         /\ timer = [timer EXCEPT ![r] = timer[r]] /\ asked = [asked EXCEPT ![r] = asked[r]]
         /\ result = [result EXCEPT ![r] = result[r]]
  BY DEF IInv, TypeOK

\* addChain begins a request for the shard of its date, or returns.
LEMMA AddChainStep == ASSUME IInv, NEW r \in Requests, AddChain(r) PROVE IInv'
<1>1. /\ UNCHANGED <<now, rootVars, fixed, backoff, timer, asked>> /\ pc[r] = "idle" /\ intervals # None
  BY DEF AddChain, Begin, Return
<1>2. PICK i : i = IndexByDate(chain[r].notAfter)
  OBVIOUS
<1>3. /\ i # 0 => i \in Shards /\ InInterval(intervals[i], chain[r].notAfter)
      /\ i = 0 => \A k \in Shards : ~InInterval(intervals[k], chain[r].notAfter)
      /\ Shards \subseteq Clients
  BY <1>1, <1>2, ShardFacts, IndexFacts DEF IInv
<1>4. now' >= asked'[r]
  BY <1>1 DEF IInv, RetryInv, RetryFor
<1>5. Shards' = Shards /\ intervals' = intervals /\ chain' = chain
  BY <1>1 DEF Shards, fixed
<1>6. RouteFor(r)
  BY DEF IInv, RouteInv
<1>7. CASE chain[r].parses /\ i # 0
  <2>1. pc' = [pc EXCEPT ![r] = "post"] /\ client' = [client EXCEPT ![r] = i] /\ UNCHANGED result
    BY <1>2, <1>7 DEF AddChain, Begin
  <2>2. pc'[r] = "post" /\ client'[r] = i
    BY <2>1 DEF IInv, TypeOK
  <2>3. RouteFor(r)'
    BY <1>1, <1>3, <1>5, <1>6, <1>7, <2>1, <2>2 DEF RouteFor, Routed, InInterval
  <2>4. RetryFor(r)'
    BY <1>4 DEF RetryFor
  <2>5. i \in Clients \cup {None} /\ "post" \in Statuses
    BY <1>3, <1>7 DEF Statuses
  <2> QED
    BY <1>1, <2>1, <2>3, <2>4, <2>5, BackoffSame, OwnFields, OneRequest
<1>8. CASE ~(chain[r].parses /\ i # 0)
  <2>1. PICK how : how = IF chain[r].parses THEN "noShard" ELSE "unparsed"
    OBVIOUS
  <2>2. pc' = [pc EXCEPT ![r] = "done"] /\ result' = [result EXCEPT ![r] = how] /\ UNCHANGED client
    BY <1>2, <1>8, <2>1 DEF AddChain, Return
  <2>3. pc'[r] = "done" /\ result'[r] = how
    BY <2>2 DEF IInv, TypeOK
  <2>4. RouteFor(r)'
    BY <1>3, <1>5, <1>8, <2>1, <2>3 DEF RouteFor, InInterval
  <2>5. RetryFor(r)'
    BY <1>4 DEF RetryFor
  <2>6. how \in {"noShard", "unparsed"} /\ "done" \in Statuses
    BY <2>1 DEF Statuses
  <2> QED
    BY <1>1, <2>2, <2>4, <2>5, <2>6, BackoffSame, OwnFields, OneRequest
<1> QED
  BY <1>7, <1>8

\* The steps of a request that is under way.
LEMMA ProceedStep == ASSUME IInv, NEW r \in Requests, Proceed(r) PROVE IInv'
<1>1. UNCHANGED <<now, rootVars, fixed, backoff, client, asked>>
  BY DEF Proceed, JSONStep, Post, PostExpires, Until, TimerFires, WaitExpires, Return
<1>2. Shards' = Shards /\ intervals' = intervals /\ chain' = chain
  BY <1>1 DEF Shards, fixed
<1>3. RouteFor(r) /\ RetryFor(r)
  BY DEF IInv, RouteInv, RetryInv
<1>4. now \in Nat /\ asked[r] \in Int /\ timer[r] \in Int
  BY DEF IInv, TypeOK
<1>5. CASE PostExpires(r) \/ WaitExpires(r)
  <2>1. pc' = [pc EXCEPT ![r] = "done"] /\ result' = [result EXCEPT ![r] = "context"] /\ UNCHANGED timer
    BY <1>5 DEF PostExpires, WaitExpires, Return
  <2>2. pc'[r] = "done" /\ result'[r] = "context" /\ "done" \in Statuses
    BY <2>1 DEF IInv, TypeOK, Statuses
  <2>3. RetryFor(r)' /\ RouteFor(r)'
    BY <2>2 DEF RetryFor, RouteFor
  <2> QED
    BY <1>1, <2>1, <2>2, <2>3, BackoffSame, OwnFields, OneRequest
<1>6. CASE Post(r)
  <2>1. pc[r] = "post" /\ pc' = [pc EXCEPT ![r] = "sent"] /\ UNCHANGED <<timer, result>>
    BY <1>6 DEF Post
  <2>2. pc'[r] = "sent" /\ "sent" \in Statuses
    BY <2>1 DEF IInv, TypeOK, Statuses
  <2>3. RetryFor(r)'
    BY <1>1, <1>3, <2>1, <2>2 DEF RetryFor
  <2>4. RouteFor(r)'
    BY <1>1, <1>2, <1>3, <2>1, <2>2 DEF RouteFor, Routed, InInterval
  <2> QED
    BY <1>1, <2>1, <2>2, <2>3, <2>4, BackoffSame, OwnFields, OneRequest
<1>7. CASE TimerFires(r)
  <2>0. PICK t : t = 0
    OBVIOUS
  <2>1. /\ pc[r] = "wait" /\ pc' = [pc EXCEPT ![r] = "post"] /\ timer' = [timer EXCEPT ![r] = t]
        /\ now >= timer[r] /\ UNCHANGED result /\ t \in Int
    BY <1>7, <2>0 DEF TimerFires
  <2>2. pc'[r] = "post" /\ "post" \in Statuses
    BY <2>1 DEF IInv, TypeOK, Statuses
  <2>3. RetryFor(r)'
    BY <1>1, <1>3, <1>4, <2>1, <2>2 DEF RetryFor
  <2>4. RouteFor(r)'
    BY <1>1, <1>2, <1>3, <2>1, <2>2 DEF RouteFor, Routed, InInterval
  <2> QED
    BY <1>1, <2>1, <2>2, <2>3, <2>4, BackoffSame, OwnFields, OneRequest
<1>8. CASE Until(r)
  <2>1. PICK t : t = backoff[client[r]].notBefore
    OBVIOUS
  <2>2. /\ pc[r] = "until" /\ pc' = [pc EXCEPT ![r] = "wait"] /\ timer' = [timer EXCEPT ![r] = t]
        /\ UNCHANGED result
    BY <1>8, <2>1 DEF Until
  <2>3. pc'[r] = "wait" /\ timer'[r] = t /\ "wait" \in Statuses
    BY <2>2 DEF IInv, TypeOK, Statuses
  <2>4. t \in Int
    <3>1. client[r] \in Clients
      BY <1>3, <2>2, ShardFacts DEF IInv, RouteFor, Routed
    <3> QED
      BY <2>1, <3>1 DEF IInv, TypeOK
  <2>5. RetryFor(r)'
    BY <1>1, <1>3, <2>1, <2>2, <2>3 DEF RetryFor
  <2>6. RouteFor(r)'
    BY <1>1, <1>2, <1>3, <2>2, <2>3 DEF RouteFor, Routed, InInterval
  <2> QED
    BY <1>1, <2>2, <2>3, <2>4, <2>5, <2>6, BackoffSame, OwnFields, OneRequest
<1> QED
  BY <1>5, <1>6, <1>7, <1>8 DEF Proceed, JSONStep

\* The log answers.
LEMMA RespondStep == ASSUME IInv, NEW r \in Requests, Respond(r) PROVE IInv'
<1>1. PICK a \in Answers[r] : LogAnswers(r, a) /\ Receive(r, a)
  BY DEF Respond
<1>2. /\ UNCHANGED <<now, rootVars, fixed, client, timer>> /\ pc[r] = "sent"
  BY <1>1 DEF Respond, Receive
<1>3. Shards' = Shards /\ intervals' = intervals /\ chain' = chain
  BY <1>2 DEF Shards, fixed
<1>4. RouteFor(r) /\ RetryFor(r) /\ Routed(r) /\ now >= asked[r]
  BY <1>2 DEF IInv, RouteInv, RetryInv, RouteFor, RetryFor
<1>5. now \in Nat /\ asked[r] \in Int
  BY DEF IInv, TypeOK
<1>6. {"until", "done"} \subseteq Statuses
  BY DEF Statuses
<1>7. Routed(r)'
  BY <1>2, <1>3, <1>4 DEF Routed, InInterval
\* The request goes on to wait.
<1>8. ASSUME pc' = [pc EXCEPT ![r] = "until"], UNCHANGED <<asked, result>>,
             backoff' \in [Clients -> [multiplier : Nat, notBefore : Int]], \A c \in Clients : Later(c)
      PROVE  IInv'
  <2>1. pc'[r] = "until"
    BY <1>8 DEF IInv, TypeOK
  <2>2. RetryFor(r)'
    BY <1>2, <1>4, <1>8 DEF RetryFor
  <2>3. RouteFor(r)'
    BY <1>3, <1>4, <1>7, <1>8, <2>1 DEF RouteFor, Routed, InInterval
  <2> QED
    BY <1>2, <1>6, <1>8, <2>2, <2>3, OwnFields, OneRequest
\* It returns.
<1>9. ASSUME NEW how \in {"ok", "refused"}, Return(r, how), UNCHANGED <<asked, backoff>>,
             how = "refused" => ~chain[r].trusted
      PROVE  IInv'
  <2>1. pc' = [pc EXCEPT ![r] = "done"] /\ result' = [result EXCEPT ![r] = how]
    BY <1>9 DEF Return
  <2>2. pc'[r] = "done" /\ result'[r] = how
    BY <2>1 DEF IInv, TypeOK
  <2>3. RetryFor(r)' /\ RouteFor(r)'
    BY <1>3, <1>7, <1>9, <2>2 DEF RetryFor, RouteFor
  <2> QED
    BY <1>2, <1>6, <1>9, <2>1, <2>3, BackoffSame, OwnFields, OneRequest
<1>10. CASE a.kind = "error" /\ BackOff(r, None) /\ UNCHANGED <<resp, asked>>
  <2>1. None \in Int \cup {None}
    OBVIOUS
  <2> QED
    BY <1>2, <1>8, <1>10, <2>1, BackOffFacts
<1>11. CASE a.kind = "ok" /\ UNCHANGED asked
              /\ IF a.clean THEN Return(r, "ok") /\ UNCHANGED backoff ELSE BackOff(r, None)
  <2>1. None \in Int \cup {None}
    OBVIOUS
  <2>2. CASE a.clean
    BY <1>9, <1>11, <2>2
  <2>3. CASE ~a.clean
    BY <1>2, <1>8, <1>11, <2>1, <2>3, BackOffFacts
  <2> QED
    BY <2>2, <2>3
<1>12. CASE a.kind = "timeout" /\ pc' = [pc EXCEPT ![r] = "until"]
              /\ UNCHANGED <<backoff, resp, result, asked>>
  BY <1>8, <1>12, BackoffSame
<1>13. CASE a.kind = "unavailable" /\ BackOff(r, a.retryAfter)
              /\ asked' = [asked EXCEPT ![r] = IF a.retryAfter = None THEN @
                                               ELSE Larger(@, now + a.retryAfter)]
  <2>1. a.retryAfter \in Int \cup {None}
    BY <1>13, BackoffAssumption
  <2>2. /\ client[r] \in Clients /\ backoff' \in [Clients -> [multiplier : Nat, notBefore : Int]]
        /\ \A c \in Clients : Later(c)
        /\ a.retryAfter # None => backoff'[client[r]].notBefore >= now + a.retryAfter
        /\ pc' = [pc EXCEPT ![r] = "until"] /\ UNCHANGED result
    BY <1>2, <1>13, <2>1, BackOffFacts
  <2>3. PICK t : t = IF a.retryAfter = None THEN asked[r] ELSE Larger(asked[r], now + a.retryAfter)
    OBVIOUS
  <2>4. asked' = [asked EXCEPT ![r] = t]
    BY <1>13, <2>3
  <2>5. t \in Int
    BY <1>5, <2>1, <2>3 DEF Larger
  <2>6. pc'[r] = "until" /\ asked'[r] = t
    BY <2>2, <2>4 DEF IInv, TypeOK
  <2>7. backoff'[client[r]].notBefore \in Int
    BY <2>2
  <2>8. now >= t \/ backoff'[client[r]].notBefore >= t
    BY <1>4, <1>5, <2>1, <2>2, <2>3, <2>7 DEF Larger
  <2>9. RetryFor(r)'
    BY <1>2, <2>6, <2>8 DEF RetryFor
  <2>10. RouteFor(r)'
    BY <1>3, <1>4, <1>7, <2>2, <2>6 DEF RouteFor, Routed, InInterval
  <2> QED
    BY <1>2, <1>6, <2>2, <2>4, <2>5, <2>9, <2>10, OwnFields, OneRequest
<1>14. CASE a.kind = "refused" /\ Return(r, "refused") /\ UNCHANGED <<backoff, resp, asked>>
  <2>1. ~chain[r].trusted
    BY <1>1, <1>4, <1>14 DEF LogAnswers, Routed
  <2> QED
    BY <1>9, <1>14, <2>1
<1> QED
  BY <1>1, <1>10, <1>11, <1>12, <1>13, <1>14 DEF Receive

\* Time passes.
LEMMA ClockStep == ASSUME IInv, Clock \/ UNCHANGED vars PROVE IInv'
<1>1. /\ UNCHANGED <<backoff, client, pc, timer, result, asked, rootVars, fixed>>
      /\ now' \in Nat /\ now' >= now /\ now \in Nat
  BY DEF Clock, Tick, vars, jsonVars, IInv, TypeOK
<1>2. TypeOK'
  BY <1>1 DEF IInv, TypeOK, rootVars
<1>3. ConfigInv'
  BY <1>1 DEF IInv, ConfigInv, ConfigValid, fixed
<1>4. RootsInv'
  BY <1>1, RootsSame DEF IInv
<1>5. RouteInv'
  BY <1>1 DEF IInv, RouteInv, RouteFor, Routed, Shards, InInterval, fixed
<1>6. RetryInv'
  <2>1. \A r \in Requests : asked[r] \in Int
    BY DEF IInv, TypeOK
  <2> QED
    BY <1>1, <2>1 DEF IInv, RetryInv, RetryFor
<1> QED
  BY <1>2, <1>3, <1>4, <1>5, <1>6 DEF IInv

-----------------------------------------------------------------------------
(* GetAcceptedRoots.                                                        *)

\* It has nothing to do with the requests.
LEMMA RequestsSame ==
  ASSUME IInv, UNCHANGED <<jsonVars, fixed>>, RootsInv',
         getter' \in [Clients -> {"idle", "get", "send", "ended"}], allRoots' \in Seq(RootCerts),
         received' \in Nat, rootsPC' \in {"idle", "read", "roots", "error", "none"}
  PROVE  IInv'
<1>1. TypeOK'
  BY DEF IInv, TypeOK, jsonVars
<1>2. ConfigInv'
  BY DEF IInv, ConfigInv, ConfigValid, fixed
<1>3. RetryInv'
  BY DEF IInv, RetryInv, RetryFor, jsonVars
<1>4. RouteInv'
  BY DEF IInv, RouteInv, RouteFor, Routed, Shards, InInterval, jsonVars, fixed
<1> QED
  BY <1>1, <1>2, <1>3, <1>4 DEF IInv

\* The first element of a sequence and the others.
LEMMA HeadAndTail ==
  ASSUME NEW S, NEW q \in Seq(S), q # <<>>
  PROVE  /\ Head(q) \in S /\ Tail(q) \in Seq(S) /\ ToSet(q) = {Head(q)} \cup ToSet(Tail(q))
         /\ Len(q) \in Nat /\ Len(Tail(q)) = Len(q) - 1
<1>1. /\ Len(q) \in Nat /\ Len(q) >= 1 /\ DOMAIN q = 1 .. Len(q)
      /\ Head(q) = q[1] /\ Head(q) \in S /\ Tail(q) \in Seq(S) /\ Len(Tail(q)) = Len(q) - 1
      /\ DOMAIN Tail(q) = 1 .. Len(q) - 1
  OBVIOUS
<1>2. \A i \in 1 .. Len(q) - 1 : Tail(q)[i] = q[i + 1] /\ i + 1 \in 1 .. Len(q)
  OBVIOUS
<1>3. ToSet(q) \subseteq {Head(q)} \cup ToSet(Tail(q))
  <2> SUFFICES ASSUME NEW i \in 1 .. Len(q), i # 1 PROVE q[i] \in ToSet(Tail(q))
    BY <1>1 DEF ToSet
  <2>1. i - 1 \in 1 .. Len(q) - 1 /\ (i - 1) + 1 = i
    BY <1>1
  <2>2. Tail(q)[i - 1] = q[i]
    BY <1>2, <2>1
  <2> QED
    BY <1>1, <2>1, <2>2 DEF ToSet
<1>4. {Head(q)} \cup ToSet(Tail(q)) \subseteq ToSet(q)
  BY <1>1, <1>2 DEF ToSet
<1> QED
  BY <1>1, <1>3, <1>4

\* The goroutines that have ended are a finite set of shards.
LEMMA EndedFinite ==
  ASSUME IInv
  PROVE  IsFiniteSet(Ended) /\ (intervals # None => Cardinality(Ended) <= Len(intervals))
<1>1. Ended \subseteq Shards /\ (intervals = None => Ended = {})
  BY DEF IInv, RootsInv, Ended
<1>2. CASE intervals = None
  BY <1>1, <1>2, FS_EmptySet
<1>3. CASE intervals # None
  <2>1. Shards = 1 .. Len(intervals) /\ Len(intervals) \in Nat
    BY <1>3, ShardFacts DEF IInv
  <2>2. IsFiniteSet(1 .. Len(intervals)) /\ Cardinality(1 .. Len(intervals)) = Len(intervals)
    BY <2>1, FS_Interval
  <2> QED
    BY <1>1, <2>1, <2>2, FS_Subset
<1> QED
  BY <1>2, <1>3

\* The goroutines are started.
LEMMA GetAcceptedRootsStep == ASSUME IInv, GetAcceptedRoots PROVE IInv'
<1>1. /\ UNCHANGED <<jsonVars, fixed, got, results, allRoots, received>>
      /\ rootsPC = "idle" /\ rootsPC' = "read" /\ intervals # None /\ intervals' = intervals
      /\ getter' = [i \in Clients |-> IF i \in Shards THEN "get" ELSE "idle"]
  BY DEF GetAcceptedRoots, fixed
<1>2. allRoots = <<>> /\ received = 0 /\ results = <<>> /\ allRoots \in Seq(RootCerts)
  BY <1>1 DEF IInv, RootsInv, TypeOK
<1>3. ToSet(<<>>) = {} /\ Shards' = Shards
  BY <1>1 DEF ToSet, Shards
<1>4. Ended' = {}
  BY <1>1 DEF Ended
<1>5. EndedRoots' = {} /\ ChannelRoots' = {}
  BY <1>1, <1>2, <1>3, <1>4 DEF EndedRoots, ChannelRoots
<1>6. Cardinality(Ended') = received' + Len(results')
  BY <1>1, <1>2, <1>4, FS_EmptySet
<1>7. RootsInv'
  BY <1>1, <1>2, <1>3, <1>4, <1>5, <1>6 DEF IInv, RootsInv
<1> QED
  BY <1>1, <1>2, <1>7, RequestsSame DEF IInv, TypeOK

\* One of them gets its answer.
LEMMA GetRootsStep == ASSUME IInv, NEW i \in Clients, GetRoots(i) PROVE IInv'
<1>1. /\ UNCHANGED <<jsonVars, fixed, results, allRoots, received, rootsPC>>
      /\ getter[i] = "get" /\ intervals' = intervals
      /\ getter' = [getter EXCEPT ![i] = "send"]
  BY DEF GetRoots, fixed
<1>2. PICK ok \in BOOLEAN : got' = [got EXCEPT ![i] = [ok |-> ok, roots |-> IF ok THEN Roots[i] ELSE <<>>]]
  BY DEF GetRoots
<1>3. /\ getter'[i] = "send" /\ \A k \in Clients : k # i => getter'[k] = getter[k]
      /\ getter' \in [Clients -> {"idle", "get", "send", "ended"}]
  BY <1>1 DEF IInv, TypeOK
<1>4. DOMAIN got = Clients
  BY DEF IInv, RootsInv
<1>5. /\ \A k \in Clients : k # i => got'[k] = got[k]
      /\ got'[i] = [ok |-> ok, roots |-> IF ok THEN Roots[i] ELSE <<>>] /\ DOMAIN got' = Clients
  BY <1>2, <1>4
<1>6. Ended' = Ended /\ i \notin Ended /\ Shards' = Shards
  BY <1>1, <1>3 DEF Ended, Shards
<1>7. EndedRoots' = EndedRoots /\ ChannelRoots' = ChannelRoots /\ \A k \in Ended : got'[k] = got[k]
  BY <1>1, <1>5, <1>6 DEF EndedRoots, ChannelRoots, Ended
<1>8. rootsPC \notin {"idle", "none"}
  BY <1>1 DEF IInv, RootsInv
<1>9. ASSUME NEW k \in Clients, getter'[k] \in {"send", "ended"}
      PROVE  /\ got'[k] \in [ok : BOOLEAN, roots : {Roots[k], <<>>}]
             /\ got'[k].ok => got'[k].roots = Roots[k]
  <2>1. CASE k = i
    BY <1>5, <2>1
  <2>2. CASE k # i
    BY <1>3, <1>5, <1>9, <2>2 DEF IInv, RootsInv
  <2> QED
    BY <2>1, <2>2
<1>10. ASSUME NEW k \in Clients, getter'[k] # "idle" PROVE intervals' # None /\ k \in Shards'
  BY <1>1, <1>3, <1>6, <1>10 DEF IInv, RootsInv
<1>11. RootsInv'
  BY <1>1, <1>5, <1>6, <1>7, <1>8, <1>9, <1>10 DEF IInv, RootsInv
<1> QED
  BY <1>1, <1>3, <1>11, RequestsSame DEF IInv, TypeOK

\* It sends its result.
LEMMA SendStep == ASSUME IInv, NEW i \in Clients, Send(i) PROVE IInv'
<1>1. /\ UNCHANGED <<jsonVars, fixed, got, allRoots, received, rootsPC>>
      /\ getter[i] = "send" /\ intervals' = intervals
      /\ getter' = [getter EXCEPT ![i] = "ended"] /\ results' = Append(results, got[i])
  BY DEF Send, fixed
<1>2. /\ getter'[i] = "ended" /\ \A k \in Clients : k # i => getter'[k] = getter[k]
      /\ getter' \in [Clients -> {"idle", "get", "send", "ended"}]
  BY <1>1 DEF IInv, TypeOK
<1>3. Ended' = Ended \cup {i} /\ i \notin Ended /\ Shards' = Shards
  BY <1>1, <1>2 DEF Ended, Shards
<1>4. rootsPC \notin {"idle", "none"}
  BY <1>1 DEF IInv, RootsInv
<1>5. /\ got[i] \in [ok : BOOLEAN, roots : Seq(RootCerts)]
      /\ results \in Seq([ok : BOOLEAN, roots : Seq(RootCerts)])
  <2>1. got[i] \in [ok : BOOLEAN, roots : {Roots[i], <<>>}]
    BY <1>1 DEF IInv, RootsInv
  <2>2. Roots[i] \in Seq(RootCerts) /\ <<>> \in Seq(RootCerts)
    BY TemporalLogAssumption
  <2>3. results \in Seq([ok : BOOLEAN, roots : Seq(RootCerts)])
    BY DEF IInv, RootsInv
  <2> QED
    BY <2>1, <2>2, <2>3
<1>6. /\ ToSet(results') = ToSet(results) \cup {got[i]} /\ Len(results') = Len(results) + 1
      /\ results' \in Seq([ok : BOOLEAN, roots : Seq(RootCerts)]) /\ Len(results) \in Nat
  <2>1. PICK C, q, e : C = [ok : BOOLEAN, roots : Seq(RootCerts)] /\ q = results /\ e = got[i]
    OBVIOUS
  <2>2. q \in Seq(C) /\ e \in C
    BY <1>5, <2>1
  <2>3. Append(q, e) \in Seq(C) /\ ToSet(Append(q, e)) = ToSet(q) \cup {e}
    BY <2>2, AppendFacts
  <2>4. Len(Append(q, e)) = Len(q) + 1 /\ Len(q) \in Nat
    BY <2>2
  <2> QED
    BY <1>1, <2>1, <2>3, <2>4
<1>7. EndedRoots' = EndedRoots \cup ToSet(got[i].roots)
  BY <1>1, <1>3 DEF EndedRoots
<1>8. ChannelRoots' = ChannelRoots \cup ToSet(got[i].roots)
  BY <1>6 DEF ChannelRoots
<1>9. Cardinality(Ended') = Cardinality(Ended) + 1 /\ Cardinality(Ended) \in Nat
  BY <1>3, EndedFinite, FS_AddElement, FS_CardinalityType
<1>10. ASSUME rootsPC \in {"read", "roots"}
       PROVE  /\ Cardinality(Ended') = received + Len(results')
              /\ ToSet(allRoots) \cup ChannelRoots' = EndedRoots'
              /\ \A k \in Ended' : got[k].ok \/ \E res \in ToSet(results') : ~res.ok
  <2>1. /\ Cardinality(Ended) = received + Len(results) /\ received \in Nat
        /\ ToSet(allRoots) \cup ChannelRoots = EndedRoots
        /\ \A k \in Ended : got[k].ok \/ \E res \in ToSet(results) : ~res.ok
    BY <1>10 DEF IInv, RootsInv, TypeOK
  <2>2. Cardinality(Ended') = received + Len(results')
    BY <1>6, <1>9, <2>1
  <2>3. ToSet(allRoots) \cup ChannelRoots' = EndedRoots'
    BY <1>7, <1>8, <2>1
  <2>4. \A k \in Ended' : got[k].ok \/ \E res \in ToSet(results') : ~res.ok
    BY <1>3, <1>6, <2>1
  <2> QED
    BY <2>2, <2>3, <2>4
<1>11. RootsInv'
  <2>1. \A k \in Clients : getter'[k] # "idle" => intervals' # None /\ k \in Shards'
    BY <1>1, <1>2, <1>3 DEF IInv, RootsInv
  <2>2. \A k \in Clients : getter'[k] \in {"send", "ended"} =>
          got'[k] \in [ok : BOOLEAN, roots : {Roots[k], <<>>}] /\ (got'[k].ok => got'[k].roots = Roots[k])
    BY <1>1, <1>2 DEF IInv, RootsInv
  <2>3. /\ DOMAIN got' = Clients /\ IsInjective(allRoots')
        /\ rootsPC' \in {"read", "roots"} => intervals' # None
        /\ rootsPC' = "roots" => received' = Len(intervals')
    BY <1>1 DEF IInv, RootsInv
  <2> QED
    BY <1>1, <1>4, <1>6, <1>10, <2>1, <2>2, <2>3 DEF RootsInv
<1> QED
  BY <1>1, <1>2, <1>11, RequestsSame DEF IInv, TypeOK
\* A result is read.
LEMMA ReadRootsStep == ASSUME IInv, ReadRoots PROVE IInv'
<1>1. /\ UNCHANGED <<jsonVars, fixed, getter, got>> /\ intervals' = intervals
      /\ rootsPC = "read" /\ results # <<>> /\ results' = Tail(results) /\ received' = received + 1
  BY DEF ReadRoots, fixed
<1>2. Ended' = Ended /\ Shards' = Shards /\ EndedRoots' = EndedRoots
  BY <1>1 DEF Ended, Shards, EndedRoots
<1>3. PICK C, q, e : C = [ok : BOOLEAN, roots : Seq(RootCerts)] /\ q = results /\ e = Head(results)
  OBVIOUS
<1>4. q \in Seq(C) /\ q # <<>> /\ e = Head(q)
  BY <1>1, <1>3 DEF IInv, RootsInv
<1>5. /\ e \in C /\ results' \in Seq(C) /\ ToSet(results) = {e} \cup ToSet(results')
      /\ Len(results) \in Nat /\ Len(results') = Len(results) - 1
  BY <1>1, <1>3, <1>4, HeadAndTail
<1>6. ChannelRoots = ToSet(e.roots) \cup ChannelRoots'
  BY <1>5 DEF ChannelRoots
<1>7. /\ intervals # None /\ Cardinality(Ended) = received + Len(results)
      /\ ToSet(allRoots) \cup ChannelRoots = EndedRoots
      /\ \A i \in Ended : got[i].ok \/ \E res \in ToSet(results) : ~res.ok
  BY <1>1 DEF IInv, RootsInv
<1>8. /\ DOMAIN got' = Clients
      /\ \A i \in Clients : getter'[i] # "idle" => intervals' # None /\ i \in Shards'
      /\ \A i \in Clients : getter'[i] \in {"send", "ended"} =>
           got'[i] \in [ok : BOOLEAN, roots : {Roots[i], <<>>}] /\ (got'[i].ok => got'[i].roots = Roots[i])
  BY <1>1, <1>2 DEF IInv, RootsInv
<1>9. received \in Nat /\ allRoots \in Seq(RootCerts) /\ IsInjective(allRoots)
  BY DEF IInv, TypeOK, RootsInv
<1>10. CASE e.ok
  <2>1. /\ allRoots' = Unseen(allRoots, e.roots)
        /\ rootsPC' = IF received' = Len(intervals) THEN "roots" ELSE "read"
    BY <1>3, <1>10 DEF ReadRoots
  <2>2. e.roots \in Seq(RootCerts)
    BY <1>3, <1>5
  <2>3. /\ allRoots' \in Seq(RootCerts) /\ IsInjective(allRoots')
        /\ ToSet(allRoots') = ToSet(allRoots) \cup ToSet(e.roots)
    BY <1>9, <2>1, <2>2, UnseenFacts
  <2>4. ToSet(allRoots') \cup ChannelRoots' = EndedRoots'
    BY <1>2, <1>6, <1>7, <2>3
  <2>5. Cardinality(Ended') = received' + Len(results')
    BY <1>1, <1>2, <1>5, <1>7, <1>9
  <2>6. \A i \in Ended' : got'[i].ok \/ \E res \in ToSet(results') : ~res.ok
    BY <1>1, <1>2, <1>5, <1>7, <1>10
  <2>7. rootsPC' \in {"read", "roots"} /\ (rootsPC' = "roots" => received' = Len(intervals'))
    BY <1>1, <2>1
  <2>8. RootsInv'
    BY <1>1, <1>3, <1>5, <1>7, <1>8, <2>3, <2>4, <2>5, <2>6, <2>7 DEF RootsInv
  <2> QED
    BY <1>1, <1>9, <2>3, <2>7, <2>8, RequestsSame DEF IInv, TypeOK
<1>11. CASE ~e.ok
  <2>1. rootsPC' = "error" /\ allRoots' = allRoots
    BY <1>3, <1>11 DEF ReadRoots
  <2>2. RootsInv'
    BY <1>3, <1>5, <1>8, <1>9, <2>1 DEF RootsInv
  <2> QED
    BY <1>1, <1>9, <2>1, <2>2, RequestsSame DEF IInv, TypeOK
<1> QED
  BY <1>10, <1>11

-----------------------------------------------------------------------------
(* The invariant, and what follows.                                         *)

\* It holds when the clients have been made.
LEMMA InitEstablishes == ASSUME Init PROVE IInv
<1>1. JSONInit /\ chain \in Chains /\ \E cfg \in Configs : intervals = IF ConfigValid(cfg) THEN cfg ELSE None
  BY DEF Init
<1>2. /\ getter = [i \in Clients |-> "idle"] /\ got = [i \in Clients |-> None] /\ results = <<>>
      /\ allRoots = <<>> /\ received = 0 /\ rootsPC \in {"idle", "none"}
  BY DEF Init
<1>3. TypeOK
  BY <1>1, <1>2 DEF JSONInit, TypeOK, Statuses
<1>4. ConfigInv
  BY <1>1 DEF ConfigInv
<1>5. RetryInv
  BY <1>1 DEF JSONInit, RetryInv, RetryFor
<1>6. RouteInv
  BY <1>1 DEF JSONInit, RouteInv, RouteFor
<1>7. RootsInv
  BY <1>2 DEF RootsInv, IsInjective
<1> QED
  BY <1>3, <1>4, <1>5, <1>6, <1>7 DEF IInv

\* Every step preserves it.
LEMMA InvariantStep == IInv /\ [Next]_vars => IInv'
<1> SUFFICES ASSUME IInv, [Next]_vars PROVE IInv'
  OBVIOUS
<1>1. CASE Clock \/ UNCHANGED vars
  BY <1>1, ClockStep
<1>2. CASE \E r \in Requests : AddChain(r) \/ Respond(r) \/ Proceed(r)
  BY <1>2, AddChainStep, RespondStep, ProceedStep
<1>3. CASE GetAcceptedRoots \/ ReadRoots
  BY <1>3, GetAcceptedRootsStep, ReadRootsStep
<1>4. CASE \E i \in Clients : GetRoots(i) \/ Send(i)
  BY <1>4, GetRootsStep, SendStep
<1> QED
  BY <1>1, <1>2, <1>3, <1>4 DEF Next

\* The inductive invariant holds of every behaviour.
THEOREM InvariantHolds == Spec => []IInv
<1>1. Init => IInv
  BY InitEstablishes
<1> QED
  BY <1>1, InvariantStep, PTL DEF Spec

\* The variables of the clients keep their types.
THEOREM TypeCorrect == Spec => []TypeOK
<1>1. IInv => TypeOK
  BY DEF IInv
<1> QED
  BY <1>1, InvariantHolds, PTL

\* No request is sent again before the time the log asked it to wait for.
THEOREM RetryAfterHonoured == Spec => []HonoursRetryAfter
<1>1. IInv => HonoursRetryAfter
  BY DEF IInv, RetryInv, RetryFor, HonoursRetryAfter
<1> QED
  BY <1>1, InvariantHolds, PTL

\* AddChain returns the SCT of the one shard that takes the chain's date.
LEMMA RouteIsRight == ASSUME IInv PROVE RightShardAnswers
<1> SUFFICES ASSUME intervals # None, NEW r \in Requests, pc[r] = "done"
             PROVE  LET takers == {i \in Shards : InInterval(intervals[i], chain[r].notAfter)}
                    IN  /\ result[r] = "noShard" => takers = {}
                        /\ result[r] = "refused" => ~chain[r].trusted
                        /\ HasSCT(r) => /\ takers = {client[r]}
                                        /\ Verifier => resp[r].sig = [by |-> client[r], of |-> r,
                                                                      timestamp |-> resp[r].timestamp]
  BY DEF RightShardAnswers
<1> DEFINE takers == {i \in Shards : InInterval(intervals[i], chain[r].notAfter)}
<1>1. RouteFor(r)
  BY DEF IInv, RouteInv
<1>2. /\ intervals \in Seq(ShardType) /\ ConfigValid(intervals) /\ chain[r].notAfter \in Int
      /\ Shards = 1 .. Len(intervals)
  BY TemporalLogAssumption DEF IInv, ConfigInv, Shards
<1>3. ASSUME HasSCT(r) PROVE takers = {client[r]}
  <2>1. client[r] \in Shards /\ InInterval(intervals[client[r]], chain[r].notAfter)
    BY <1>1, <1>3 DEF HasSCT, RouteFor, Routed
  <2>2. \A i \in takers : i = client[r]
    BY <1>2, <2>1, OneInterval
  <2> QED
    BY <2>1, <2>2
<1>4. result[r] = "noShard" => takers = {}
  BY <1>1 DEF RouteFor
<1>5. HasSCT(r) => (Verifier => resp[r].sig = [by |-> client[r], of |-> r, timestamp |-> resp[r].timestamp])
  BY DEF HasSCT, VerifySCTSignature
<1> QED
  BY <1>1, <1>3, <1>4, <1>5 DEF RouteFor

\* GetAcceptedRoots returns the roots of all shards, each once.
LEMMA RootsAreComplete == ASSUME IInv PROVE RootsComplete
<1> SUFFICES ASSUME rootsPC = "roots"
             PROVE  /\ ToSet(allRoots) = UNION {ToSet(Roots[i]) : i \in Shards}
                    /\ \A i, j \in 1 .. Len(allRoots) : i # j => allRoots[i] # allRoots[j]
  BY DEF RootsComplete
<1>1. /\ intervals # None /\ Cardinality(Ended) = received + Len(results)
      /\ ToSet(allRoots) \cup ChannelRoots = EndedRoots
      /\ \A i \in Ended : got[i].ok \/ \E res \in ToSet(results) : ~res.ok
      /\ received = Len(intervals) /\ Ended \subseteq Shards
      /\ \A i \in Ended : got[i].ok => got[i].roots = Roots[i]
  BY DEF IInv, RootsInv, Ended
<1>2. Shards = 1 .. Len(intervals) /\ Len(intervals) \in Nat
  BY <1>1, ShardFacts DEF IInv
<1>3. Len(results) \in Nat /\ (Len(results) = 0 => results = <<>>)
  BY DEF IInv, RootsInv
<1>4. Cardinality(Ended) <= Len(intervals)
  BY <1>1, EndedFinite
<1>5. results = <<>> /\ Cardinality(Ended) = Len(intervals)
  BY <1>1, <1>2, <1>3, <1>4
<1>6. Ended = Shards
  <2>1. IsFiniteSet(1 .. Len(intervals)) /\ Cardinality(1 .. Len(intervals)) = Len(intervals)
    BY <1>2, FS_Interval
  <2> QED
    BY <1>1, <1>2, <1>5, <2>1, FS_Subset
<1>7. ToSet(results) = {} /\ ChannelRoots = {}
  BY <1>5 DEF ToSet, ChannelRoots
<1>8. \A i \in Shards : got[i].roots = Roots[i]
  BY <1>1, <1>6, <1>7
<1>9. ToSet(allRoots) = UNION {ToSet(Roots[i]) : i \in Shards}
  BY <1>1, <1>6, <1>7, <1>8 DEF EndedRoots
<1>10. IsInjective(allRoots) /\ DOMAIN allRoots = 1 .. Len(allRoots)
  BY DEF IInv, RootsInv, TypeOK
<1> QED
  BY <1>9, <1>10 DEF IsInjective

\* The TemporalLogClient answers as one log would.
THEOREM OneLog == Spec => []AnswersAsOneLog
<1>1. IInv => AnswersAsOneLog
  BY RouteIsRight, RootsAreComplete DEF AnswersAsOneLog
<1> QED
  BY <1>1, InvariantHolds, PTL

-----------------------------------------------------------------------------
(* The range tracker.                                                       *)

LEMMA RangeMin ==
  ASSUME NEW S \in SUBSET Nat, S # {}
  PROVE  Min(S) \in S /\ \A y \in S : Min(S) <= y
<1>1. \E x \in S : \A y \in S : x <= y
  BY LeastElement
<1> QED
  BY <1>1 DEF Min

LEMMA RangeMax ==
  ASSUME NEW n \in Nat, NEW S \in SUBSET (0 .. n), S # {}
  PROVE  Max(S) \in S /\ \A y \in S : y <= Max(S)
<1> DEFINE T == {n - x : x \in S}
<1>1. T \in SUBSET Nat /\ T # {}
  <2>1. \A x \in S : x \in Nat /\ x <= n /\ n - x \in Nat
    OBVIOUS
  <2>2. PICK x \in S : TRUE
    OBVIOUS
  <2>3. n - x \in T
    OBVIOUS
  <2> QED
    BY <2>1, <2>3
<1>2. PICK d \in T : \A e \in T : d <= e
  <2> HIDE DEF T
  <2> QED
    BY <1>1, LeastElement
<1>3. PICK x \in S : d = n - x
  BY <1>2
<1>4. \A y \in S : x >= y
  <2> SUFFICES ASSUME NEW y \in S PROVE x >= y
    OBVIOUS
  <2>1. n - y \in T
    OBVIOUS
  <2>2. d <= n - y
    BY <1>2, <2>1
  <2> QED
    BY <1>3, <2>2
<1>5. \E z \in S : \A y \in S : z >= y
  BY <1>4
<1>6. Max(S) \in S /\ \A y \in S : Max(S) >= y
  BY <1>5 DEF Max
<1> QED
  BY <1>6

\* The recursion of the second loop of watermarks.update.
ReachStep(g, srs, lo, i) == IF i = 0 THEN [mid |-> -1, next |-> lo] ELSE Reach(g[i - 1], srs[i])
IsReached(g, srs, lo, n) == g = [i \in 0 .. n |-> ReachStep(g, srs, lo, i)]

LEMMA ReachedExists ==
  ASSUME NEW srs, NEW lo, NEW n \in Nat
  PROVE  \E g : IsReached(g, srs, lo, n)
<1> DEFINE S == {m \in Nat : \E g : IsReached(g, srs, lo, m)}
<1>1. 0 \in S
  <2> DEFINE g == [i \in 0 .. 0 |-> [mid |-> -1, next |-> lo]]
  <2>1. \A i \in 0 .. 0 : ReachStep(g, srs, lo, i) = [mid |-> -1, next |-> lo]
    BY DEF ReachStep
  <2>2. IsReached(g, srs, lo, 0)
    BY <2>1 DEF IsReached
  <2> QED
    BY <2>2
<1>2. ASSUME NEW m \in S PROVE m + 1 \in S
  <2>1. PICK g : IsReached(g, srs, lo, m)
    BY <1>2
  <2>2. PICK x : x = Reach(g[m], srs[m + 1])
    OBVIOUS
  <2>3. PICK h : h = [i \in 0 .. m + 1 |-> IF i = m + 1 THEN x ELSE g[i]]
    OBVIOUS
  <2>4. \A i \in 0 .. m : h[i] = g[i] /\ g[i] = ReachStep(g, srs, lo, i)
    <3>1. \A i \in 0 .. m : g[i] = ReachStep(g, srs, lo, i)
      BY <2>1 DEF IsReached
    <3>2. ASSUME NEW i \in 0 .. m PROVE h[i] = g[i]
      <4>1. i \in 0 .. m + 1 /\ i # m + 1
        OBVIOUS
      <4> QED
        BY <2>3, <4>1
    <3> QED
      BY <3>1, <3>2
  <2>5. ASSUME NEW i \in 0 .. m + 1 PROVE h[i] = ReachStep(h, srs, lo, i)
    <3>1. CASE i = m + 1
      <4>1. h[i] = x /\ i # 0 /\ i - 1 = m /\ h[m] = g[m]
        BY <2>3, <2>4, <3>1
      <4> QED
        BY <2>2, <3>1, <4>1 DEF ReachStep
    <3>2. CASE i = 0
      BY <2>4, <3>2 DEF ReachStep
    <3>3. CASE i \in 1 .. m
      <4>1. i - 1 \in 0 .. m /\ i \in 0 .. m
        BY <3>3
      <4>2. h[i - 1] = g[i - 1] /\ h[i] = ReachStep(g, srs, lo, i)
        BY <2>4, <4>1
      <4> QED
        BY <4>2 DEF ReachStep
    <3> QED
      BY <3>1, <3>2, <3>3
  <2>6. h = [i \in 0 .. m + 1 |-> ReachStep(h, srs, lo, i)]
    BY <2>3, <2>5
  <2> QED
    BY <2>6 DEF IsReached
<1>3. S = Nat
  <2>1. S \in SUBSET Nat /\ \A m \in S : m + 1 \in S
    BY <1>2
  <2> HIDE DEF S
  <2> QED
    BY <1>1, <2>1, SetInduction
<1> QED
  BY <1>3

LEMMA ReachedUnfold ==
  ASSUME NEW srs, NEW lo, Len(srs) \in Nat
  PROVE  /\ Reached(srs, lo)[0] = [mid |-> -1, next |-> lo]
         /\ \A i \in 1 .. Len(srs) : Reached(srs, lo)[i] = Reach(Reached(srs, lo)[i - 1], srs[i])
<1>1. Reached(srs, lo) = CHOOSE g : IsReached(g, srs, lo, Len(srs))
  BY DEF Reached, IsReached, ReachStep
<1>2. PICK n \in Nat : n = Len(srs)
  OBVIOUS
<1>3. PICK g : g = Reached(srs, lo) /\ IsReached(g, srs, lo, n)
  BY <1>1, <1>2, ReachedExists
<1>4. \A i \in 0 .. n : g[i] = ReachStep(g, srs, lo, i)
  BY <1>3 DEF IsReached
<1>5. g[0] = [mid |-> -1, next |-> lo]
  BY <1>4 DEF ReachStep
<1>6. ASSUME NEW i \in 1 .. n PROVE g[i] = Reach(g[i - 1], srs[i])
  <2>1. i \in 0 .. n /\ i # 0
    OBVIOUS
  <2> QED
    BY <1>4, <2>1 DEF ReachStep
<1> QED
  BY <1>2, <1>3, <1>5, <1>6

\* What the loop knows after i sub-ranges: those that it took cover all below
\* next, and of the first i none begins at next or goes on beyond it from below.
LoopInv(acc, i) ==
  /\ acc.next \in start .. end + 1
  /\ acc.mid = IF acc.next = start THEN -1 ELSE acc.next - 1
  /\ \A x \in start .. acc.next - 1 : \E k \in 1 .. i :
       subRanges[k].first <= x /\ x <= subRanges[k].last /\ subRanges[k].last < acc.next
  /\ \A k \in 1 .. i : /\ subRanges[k].first < acc.next => subRanges[k].last < acc.next
                       /\ subRanges[k].first # acc.next

\* A sub-range, and what the invariant says of it.
LEMMA SubRangeFacts ==
  ASSUME TrackerInv
  PROVE  /\ Len(subRanges) \in Nat /\ DOMAIN subRanges = 1 .. Len(subRanges)
         /\ start \in Nat /\ end \in Nat /\ start <= end /\ end <= MaxIndex
         /\ \A k \in 1 .. Len(subRanges) :
              /\ subRanges[k] \in [first : start .. end, last : start .. end]
              /\ subRanges[k].first \in start .. end /\ subRanges[k].last \in start .. end
              /\ subRanges[k].first <= subRanges[k].last
<1>1. /\ Len(subRanges) \in Nat /\ DOMAIN subRanges = 1 .. Len(subRanges)
      /\ start \in Nat /\ end \in Nat /\ start <= end /\ end <= MaxIndex
  BY TrackerAssumption DEF TrackerInv
<1>2. \A k \in 1 .. Len(subRanges) : subRanges[k] \in [first : start .. end, last : start .. end]
  <2>1. PICK R : R = [first : start .. end, last : start .. end]
    OBVIOUS
  <2>2. subRanges \in Seq(R)
    BY <2>1 DEF TrackerInv
  <2>3. \A k \in 1 .. Len(subRanges) : subRanges[k] \in R
    BY <2>2
  <2> QED
    BY <2>1, <2>3
<1> QED
  BY <1>1, <1>2 DEF TrackerInv

LEMMA LoopStep ==
  ASSUME TrackerInv, NEW i \in Nat, i + 1 <= Len(subRanges), NEW acc, LoopInv(acc, i)
  PROVE  LoopInv(Reach(acc, subRanges[i + 1]), i + 1)
<1> USE SubRangeFacts
<1>1. PICK sr : sr = subRanges[i + 1]
  OBVIOUS
<1>2. i + 1 \in 1 .. Len(subRanges) /\ \A k \in 1 .. i : k \in 1 .. Len(subRanges) /\ k < i + 1
  OBVIOUS
<1>3. sr.first \in start .. end /\ sr.last \in start .. end /\ sr.first <= sr.last
  BY <1>1, <1>2
<1>4. \A k \in 1 .. i : /\ subRanges[k].first < sr.first
                        /\ subRanges[k].last < sr.first \/ sr.last < subRanges[k].last
  BY <1>1, <1>2 DEF TrackerInv, Sorted, Nested, Inside
<1>5. \A k \in 1 .. i : subRanges[k].first \in Int /\ subRanges[k].last \in Int
  BY <1>2
<1>6. CASE sr.first = acc.next
  <2>1. PICK new : new = [mid |-> sr.last, next |-> sr.last + 1]
    OBVIOUS
  <2>2. Reach(acc, sr) = new /\ new.mid = sr.last /\ new.next = sr.last + 1
    BY <1>6, <2>1 DEF Reach
  <2>3. new.next \in start .. end + 1 /\ new.mid = (IF new.next = start THEN -1 ELSE new.next - 1)
    BY <1>3, <2>2
  <2>4. ASSUME NEW x \in start .. new.next - 1
        PROVE  \E k \in 1 .. i + 1 :
                 subRanges[k].first <= x /\ x <= subRanges[k].last /\ subRanges[k].last < new.next
    <3>1. CASE x < acc.next
      <4>1. x \in start .. acc.next - 1
        BY <1>3, <1>6, <3>1
      <4>2. PICK k \in 1 .. i : subRanges[k].first <= x /\ x <= subRanges[k].last /\ subRanges[k].last < acc.next
        BY <4>1 DEF LoopInv
      <4>3. k \in 1 .. i + 1 /\ subRanges[k].last < new.next
        BY <1>3, <1>5, <1>6, <2>2, <4>2
      <4> QED
        BY <4>2, <4>3
    <3>2. CASE ~(x < acc.next)
      <4>1. i + 1 \in 1 .. i + 1 /\ sr.first <= x /\ x <= sr.last /\ sr.last < new.next
        BY <1>3, <1>6, <2>2, <3>2
      <4> QED
        BY <1>1, <4>1
    <3> QED
      BY <3>1, <3>2
  <2>5. ASSUME NEW k \in 1 .. i + 1
        PROVE  /\ subRanges[k].first < new.next => subRanges[k].last < new.next
               /\ subRanges[k].first # new.next
    <3>1. CASE k = i + 1
      BY <1>1, <1>3, <2>2, <3>1
    <3>2. CASE k \in 1 .. i
      <4>1. subRanges[k].first < acc.next /\ subRanges[k].last < acc.next
        BY <1>4, <1>6, <3>2 DEF LoopInv
      <4> QED
        BY <1>3, <1>5, <1>6, <2>2, <3>2, <4>1
    <3> QED
      BY <3>1, <3>2
  <2> QED
    BY <1>1, <2>2, <2>3, <2>4, <2>5 DEF LoopInv
<1>7. CASE sr.first # acc.next
  <2>1. Reach(acc, sr) = acc
    BY <1>7 DEF Reach
  <2>2. acc.next \in Nat
    BY DEF LoopInv
  <2>3. sr.first < acc.next => sr.last < acc.next
    <3> SUFFICES ASSUME sr.first < acc.next PROVE sr.last < acc.next
      OBVIOUS
    <3>1. sr.first \in start .. acc.next - 1
      BY <1>3, <2>2
    <3>2. PICK k \in 1 .. i : subRanges[k].first <= sr.first /\ sr.first <= subRanges[k].last
                              /\ subRanges[k].last < acc.next
      BY <3>1 DEF LoopInv
    <3>3. sr.last < subRanges[k].last
      <4>1. subRanges[k].last < sr.first \/ sr.last < subRanges[k].last
        BY <1>4
      <4>2. sr.first \in Int /\ subRanges[k].last \in Int
        BY <1>3, <1>5
      <4> QED
        BY <3>2, <4>1, <4>2
    <3> QED
      BY <1>3, <1>5, <2>2, <3>2, <3>3
  <2>4. ASSUME NEW k \in 1 .. i + 1
        PROVE  /\ subRanges[k].first < acc.next => subRanges[k].last < acc.next
               /\ subRanges[k].first # acc.next
    <3>1. CASE k = i + 1
      BY <1>1, <1>7, <2>3, <3>1
    <3>2. CASE k \in 1 .. i
      BY <3>2 DEF LoopInv
    <3> QED
      BY <3>1, <3>2
  <2>5. ASSUME NEW x \in start .. acc.next - 1
        PROVE  \E k \in 1 .. i + 1 :
                 subRanges[k].first <= x /\ x <= subRanges[k].last /\ subRanges[k].last < acc.next
    <3>1. PICK k \in 1 .. i : subRanges[k].first <= x /\ x <= subRanges[k].last /\ subRanges[k].last < acc.next
      BY DEF LoopInv
    <3>2. k \in 1 .. i + 1
      OBVIOUS
    <3> QED
      BY <3>1, <3>2
  <2>6. acc.next \in start .. end + 1 /\ acc.mid = IF acc.next = start THEN -1 ELSE acc.next - 1
    BY DEF LoopInv
  <2> QED
    BY <1>1, <2>1, <2>4, <2>5, <2>6 DEF LoopInv
<1> QED
  BY <1>6, <1>7

LEMMA LoopFacts ==
  ASSUME TrackerInv
  PROVE  LoopInv(Reached(subRanges, start)[Len(subRanges)], Len(subRanges))
<1> DEFINE r == Reached(subRanges, start)
           S == {n \in Nat : n <= Len(subRanges) => LoopInv(r[n], n)}
<1> USE SubRangeFacts
<1>1. r[0] = [mid |-> -1, next |-> start]
  BY ReachedUnfold
<1>2. \A n \in 1 .. Len(subRanges) : r[n] = Reach(r[n - 1], subRanges[n])
  BY ReachedUnfold
<1> HIDE DEF r
<1>3. 0 \in S
  <2>1. r[0].next = start /\ r[0].mid = -1
    BY <1>1
  <2>2. start \in start .. end + 1
    OBVIOUS
  <2>3. start .. start - 1 = {}
    OBVIOUS
  <2>4. LoopInv(r[0], 0)
    BY <2>1, <2>2, <2>3 DEF LoopInv
  <2> QED
    BY <2>4
<1>4. ASSUME NEW n \in S PROVE n + 1 \in S
  <2> SUFFICES ASSUME n + 1 <= Len(subRanges) PROVE LoopInv(r[n + 1], n + 1)
    OBVIOUS
  <2>1. n \in Nat /\ LoopInv(r[n], n)
    BY <1>4
  <2>2. n + 1 \in 1 .. Len(subRanges) /\ (n + 1) - 1 = n
    BY <2>1
  <2>3. r[n + 1] = Reach(r[n], subRanges[n + 1])
    BY <1>2, <2>2
  <2> QED
    BY <2>1, <2>3, LoopStep
<1>5. S = Nat
  <2>1. S \in SUBSET Nat /\ \A n \in S : n + 1 \in S
    BY <1>4
  <2> HIDE DEF S
  <2> QED
    BY <1>3, <2>1, SetInduction
<1>6. Len(subRanges) \in S
  BY <1>5
<1> QED
  BY <1>6 DEF r

\* The recorded sub-ranges cover an index.
LEMMA CoveredFacts ==
  ASSUME TrackerInv, NEW x \in Int
  PROVE  x \in Covered <=> \E k \in 1 .. Len(subRanges) : subRanges[k].first <= x /\ x <= subRanges[k].last
<1> USE SubRangeFacts
<1>1. x \in Covered <=> \E k \in 1 .. Len(subRanges) : x \in subRanges[k].first .. subRanges[k].last
  BY DEF Covered
<1> QED
  BY <1>1

\* The marks that update computes.
LEMMA MarkFacts ==
  ASSUME TrackerInv, subRanges # <<>>
  PROVE  /\ wm.lo \in start .. end /\ wm.hi \in start .. end
         /\ \E k \in 1 .. Len(subRanges) : subRanges[k].first = wm.lo
         /\ \E k \in 1 .. Len(subRanges) : subRanges[k].last = wm.hi
         /\ \A k \in 1 .. Len(subRanges) : wm.lo <= subRanges[k].first /\ subRanges[k].last <= wm.hi
         /\ wm.mid = IF wm.lo = start THEN Reached(subRanges, start)[Len(subRanges)].mid ELSE -1
         /\ wm = [lo |-> wm.lo, hi |-> wm.hi, mid |-> wm.mid]
<1> USE SubRangeFacts
<1>1. PICK F : F = {subRanges[k].first : k \in DOMAIN subRanges}
  OBVIOUS
<1>2. PICK L : L = {subRanges[k].last : k \in DOMAIN subRanges}
  OBVIOUS
<1>3. 1 \in 1 .. Len(subRanges)
  BY DEF TrackerInv
<1>4. F \subseteq start .. end /\ F # {} /\ \A k \in 1 .. Len(subRanges) : subRanges[k].first \in F
  BY <1>1, <1>3
<1>5. L \subseteq start .. end /\ L # {} /\ \A k \in 1 .. Len(subRanges) : subRanges[k].last \in L
  BY <1>2, <1>3
<1>6. wm = [lo |-> Min(F), hi |-> Max(L),
            mid |-> IF Min(F) = start THEN Reached(subRanges, Min(F))[Len(subRanges)].mid ELSE -1]
  BY <1>1, <1>2 DEF TrackerInv, Update
<1>7. wm.lo = Min(F) /\ wm.hi = Max(L)
      /\ wm.mid = (IF Min(F) = start THEN Reached(subRanges, Min(F))[Len(subRanges)].mid ELSE -1)
  BY <1>6
<1>8. Min(F) \in F /\ \A y \in F : Min(F) <= y
  <2>1. F \in SUBSET Nat
    BY <1>4
  <2> QED
    BY <1>4, <2>1, RangeMin
<1>9. Max(L) \in L /\ \A y \in L : y <= Max(L)
  <2>1. L \in SUBSET (0 .. end)
    BY <1>5
  <2> QED
    BY <1>5, <2>1, RangeMax
<1>10. wm.lo \in start .. end /\ wm.hi \in start .. end
  BY <1>4, <1>5, <1>7, <1>8, <1>9
<1>11. (\E k \in 1 .. Len(subRanges) : subRanges[k].first = wm.lo)
       /\ \E k \in 1 .. Len(subRanges) : subRanges[k].last = wm.hi
  BY <1>1, <1>2, <1>7, <1>8, <1>9
<1>12. \A k \in 1 .. Len(subRanges) : wm.lo <= subRanges[k].first /\ subRanges[k].last <= wm.hi
  BY <1>4, <1>5, <1>7, <1>8, <1>9
<1>13. wm.mid = IF wm.lo = start THEN Reached(subRanges, start)[Len(subRanges)].mid ELSE -1
  BY <1>7
<1>14. wm = [lo |-> wm.lo, hi |-> wm.hi, mid |-> wm.mid]
  BY <1>6
<1> QED
  BY <1>10, <1>11, <1>12, <1>13, <1>14

\* The invariant gives the exactness of the watermarks.
LEMMA TrackerInvExact == TrackerInv => TrackerExact
<1> SUFFICES ASSUME TrackerInv PROVE TrackerExact
  OBVIOUS
<1> USE SubRangeFacts
<1>1. CASE subRanges = <<>>
  <2>1. wm = [lo |-> -1, mid |-> -1, hi |-> -1] /\ wm.mid = -1
    BY <1>1 DEF TrackerInv, NoMarks
  <2>2. Covered = {}
    BY <1>1 DEF Covered
  <2>3. TrackerTypeOK
    <3>1. wm \in [lo : -1 .. MaxIndex, mid : -1 .. MaxIndex, hi : -1 .. MaxIndex]
      BY <2>1, TrackerAssumption
    <3> QED
      BY <1>1, <3>1 DEF TrackerTypeOK, TrackerInv
  <2>4. start \in start .. end
    OBVIOUS
  <2>5. CompleteExact
    BY <2>1, <2>2, <2>4 DEF CompleteExact, IsComplete
  <2>6. UptoExact
    BY <2>1, <2>2 DEF UptoExact
  <2> QED
    BY <2>3, <2>5, <2>6 DEF TrackerExact
<1>2. CASE subRanges # <<>> /\ wm.lo # start
  <2>1. wm.mid = -1
    BY <1>2, MarkFacts
  <2>2. start \notin Covered
    <3>1. \A k \in 1 .. Len(subRanges) : wm.lo <= subRanges[k].first /\ wm.lo \in start .. end
      BY <1>2, MarkFacts
    <3>2. \A k \in 1 .. Len(subRanges) : start < subRanges[k].first
      BY <1>2, <3>1
    <3> QED
      BY <3>2, CoveredFacts
  <2>3. TrackerTypeOK
    <3>1. wm.lo \in start .. end /\ wm.hi \in start .. end /\ wm = [lo |-> wm.lo, hi |-> wm.hi, mid |-> wm.mid]
      BY <1>2, MarkFacts
    <3>2. wm.lo \in -1 .. MaxIndex /\ wm.hi \in -1 .. MaxIndex /\ wm.mid \in -1 .. MaxIndex
      BY <2>1, <3>1, TrackerAssumption
    <3>3. wm \in [lo : -1 .. MaxIndex, mid : -1 .. MaxIndex, hi : -1 .. MaxIndex]
      BY <3>1, <3>2
    <3> QED
      <4>1. start \in 0 .. MaxIndex /\ end \in start .. MaxIndex
        BY DEF TrackerInv
      <4> QED
        BY <3>3, <4>1 DEF TrackerTypeOK
  <2>4. start \in start .. end
    OBVIOUS
  <2>5. CompleteExact
    BY <2>1, <2>2, <2>4 DEF CompleteExact, IsComplete
  <2>6. UptoExact
    BY <2>1, <2>2 DEF UptoExact
  <2> QED
    BY <2>3, <2>5, <2>6 DEF TrackerExact
<1>3. CASE subRanges # <<>> /\ wm.lo = start
  <2>1. PICK acc : acc = Reached(subRanges, start)[Len(subRanges)]
    OBVIOUS
  <2>2. LoopInv(acc, Len(subRanges)) /\ wm.mid = acc.mid
    BY <1>3, <2>1, LoopFacts, MarkFacts
  <2>3. PICK next : next = acc.next
    OBVIOUS
  <2>4. next \in start .. end + 1 /\ next # start /\ wm.mid = next - 1
    <3>1. PICK k \in 1 .. Len(subRanges) : subRanges[k].first = start
      BY <1>3, MarkFacts
    <3> QED
      BY <2>2, <2>3, <3>1 DEF LoopInv
  <2>5. next \notin Covered
    <3>1. \A k \in 1 .. Len(subRanges) : subRanges[k].first \in Int /\ subRanges[k].last \in Int /\
            (subRanges[k].first < next => subRanges[k].last < next) /\ subRanges[k].first # next
      BY <2>2, <2>3 DEF LoopInv
    <3>2. next \in Int
      BY <2>4
    <3>3. ASSUME NEW k \in 1 .. Len(subRanges)
          PROVE  ~(subRanges[k].first <= next /\ next <= subRanges[k].last)
      <4>1. PICK f \in Int, l \in Int : f = subRanges[k].first /\ l = subRanges[k].last
        BY <3>1
      <4>2. (f < next => l < next) /\ f # next
        BY <3>1, <4>1
      <4> HIDE SubRangeFacts
      <4> QED
        BY <3>2, <4>1, <4>2
    <3> QED
      BY <3>2, <3>3, CoveredFacts
  <2>6. ASSUME NEW x \in start .. next - 1 PROVE x \in Covered
    <3>1. PICK k \in 1 .. Len(subRanges) : subRanges[k].first <= x /\ x <= subRanges[k].last
      BY <2>2, <2>3 DEF LoopInv
    <3> QED
      BY <3>1, CoveredFacts
  <2>7. Covered \subseteq start .. end
    <3>1. \A k \in 1 .. Len(subRanges) : subRanges[k].first .. subRanges[k].last \subseteq start .. end
      OBVIOUS
    <3> QED
      BY <3>1 DEF Covered
  <2>8. TrackerTypeOK
    <3>1. wm.lo \in start .. end /\ wm.hi \in start .. end /\ wm = [lo |-> wm.lo, hi |-> wm.hi, mid |-> wm.mid]
      BY <1>3, MarkFacts
    <3>2. wm.lo \in -1 .. MaxIndex /\ wm.hi \in -1 .. MaxIndex /\ wm.mid \in -1 .. MaxIndex
      BY <2>4, <3>1, TrackerAssumption
    <3>3. wm \in [lo : -1 .. MaxIndex, mid : -1 .. MaxIndex, hi : -1 .. MaxIndex]
      BY <3>1, <3>2
    <3> QED
      <4>1. start \in 0 .. MaxIndex /\ end \in start .. MaxIndex
        BY DEF TrackerInv
      <4> QED
        BY <3>3, <4>1 DEF TrackerTypeOK
  <2>9. CompleteExact
    <3>1. ASSUME IsComplete PROVE Covered = start .. end
      <4>1. next = end + 1
        BY <2>4, <3>1 DEF IsComplete
      <4>2. next - 1 = end
        BY <4>1
      <4>3. start .. end \subseteq Covered
        BY <2>6, <4>2
      <4> QED
        BY <2>7, <4>3
    <3>2. ASSUME Covered = start .. end PROVE IsComplete
      <4>1. next = end + 1
        BY <2>4, <2>5, <3>2
      <4>2. PICK k \in 1 .. Len(subRanges) : subRanges[k].first <= end /\ end <= subRanges[k].last
        <5>1. end \in Covered
          BY <3>2
        <5> QED
          BY <5>1, CoveredFacts
      <4>3. wm.hi = end
        <5>1. subRanges[k].last <= wm.hi /\ wm.hi \in start .. end
          BY <1>3, MarkFacts
        <5> QED
          BY <4>2, <5>1
      <4> QED
        BY <2>4, <4>1, <4>3 DEF IsComplete
    <3> QED
      BY <3>1, <3>2 DEF CompleteExact
  <2>10. UptoExact
    <3>1. PICK S : S = {m \in start .. end : start .. m \subseteq Covered}
      OBVIOUS
    <3>2. next - 1 \in S
      <4>1. next - 1 \in start .. end
        BY <2>4
      <4> QED
        BY <2>6, <3>1, <4>1
    <3>3. ASSUME NEW m \in S PROVE m <= next - 1
      <4>1. m \in start .. end /\ start .. m \subseteq Covered
        BY <3>1
      <4>2. next \notin start .. m
        BY <2>5, <4>1
      <4> QED
        BY <2>4, <4>1, <4>2
    <3>4. Max(S) = next - 1
      <4>1. S \in SUBSET (0 .. end)
        BY <3>1
      <4>2. Max(S) \in S /\ next - 1 <= Max(S)
        BY <3>2, <4>1, RangeMax
      <4>3. Max(S) <= next - 1
        BY <3>3, <4>2
      <4>4. next - 1 \in Nat
        BY <2>4
      <4>5. Max(S) \in 0 .. end
        BY <4>1, <4>2, Zenon
      <4> QED
        BY <4>2, <4>3, <4>4, <4>5
    <3>5. start \in Covered
      BY <2>4, <2>6
    <3> QED
      BY <2>4, <3>1, <3>4, <3>5 DEF UptoExact
  <2> QED
    BY <2>8, <2>9, <2>10 DEF TrackerExact
<1> QED
  BY <1>1, <1>2, <1>3

LEMMA TrackerInitInv == TrackerInit => TrackerInv
<1> SUFFICES ASSUME TrackerInit PROVE TrackerInv
  OBVIOUS
<1>1. subRanges = <<>> /\ DOMAIN subRanges = {}
  BY DEF TrackerInit
<1>2. subRanges \in Seq([first : start .. end, last : start .. end])
  BY <1>1
<1>3. Sorted /\ Nested
  BY <1>1 DEF Sorted, Nested
<1> QED
  BY <1>1, <1>2, <1>3 DEF TrackerInit, TrackerInv

\* A new sub-range has a place among the sorted ones.
LEMMA PlaceFacts ==
  ASSUME TrackerInv, NEW first \in Int, \A k \in 1 .. Len(subRanges) : subRanges[k].first # first
  PROVE  /\ Place(first) \in 1 .. Len(subRanges) + 1
         /\ \A i \in 1 .. Place(first) - 1 : subRanges[i].first < first
         /\ \A i \in Place(first) .. Len(subRanges) : first < subRanges[i].first
<1> USE SubRangeFacts
<1>1. PICK T : T = {i \in 1 .. Len(subRanges) : first < subRanges[i].first} \cup {Len(subRanges) + 1}
  OBVIOUS
<1>2. T \in SUBSET Nat /\ T # {}
  BY <1>1
<1>3. PICK p \in T : \A i \in T : p <= i
  BY <1>2, LeastElement
<1>4. p \in 1 .. Len(subRanges) + 1
  BY <1>1
<1>5. ASSUME NEW i \in 1 .. p - 1 PROVE subRanges[i].first < first
  <2>1. i \in 1 .. Len(subRanges) /\ i \in Nat /\ i < p
    BY <1>4
  <2>2. i \notin T
    BY <1>3, <1>4, <2>1
  <2>3. ~(first < subRanges[i].first) /\ subRanges[i].first # first /\ subRanges[i].first \in Int
    BY <1>1, <2>1, <2>2
  <2> QED
    BY <2>3
<1>6. ASSUME NEW i \in p .. Len(subRanges) PROVE first < subRanges[i].first
  <2>1. p \in 1 .. Len(subRanges) /\ i \in 1 .. Len(subRanges) /\ p <= i
    BY <1>4
  <2>2. first < subRanges[p].first
    BY <1>1, <1>3, <2>1
  <2>3. subRanges[p].first <= subRanges[i].first
    <3>1. CASE p = i
      BY <2>1, <3>1
    <3>2. CASE p # i
      <4>1. p < i
        BY <2>1, <3>2
      <4>2. subRanges[p].first < subRanges[i].first
        BY <2>1, <4>1 DEF TrackerInv, Sorted
      <4> QED
        BY <2>1, <4>2
    <3> QED
      BY <3>1, <3>2
  <2>4. subRanges[p].first \in Int /\ subRanges[i].first \in Int
    BY <2>1
  <2> QED
    BY <2>2, <2>3, <2>4
<1>7. \E q \in 1 .. Len(subRanges) + 1 :
        /\ \A i \in 1 .. q - 1 : subRanges[i].first < first
        /\ \A i \in q .. Len(subRanges) : first < subRanges[i].first
  BY <1>4, <1>5, <1>6
<1> QED
  BY <1>7 DEF Place

\* Inserting into a sequence.
LEMMA InsertAtFacts ==
  ASSUME NEW S, NEW s \in Seq(S), NEW p \in 1 .. Len(s) + 1, NEW e \in S
  PROVE  /\ InsertAt(s, p, e) \in Seq(S)
         /\ Len(InsertAt(s, p, e)) = Len(s) + 1
         /\ \A i \in 1 .. Len(s) + 1 :
              InsertAt(s, p, e)[i] = IF i < p THEN s[i] ELSE IF i = p THEN e ELSE s[i - 1]
<1>1. PICK a : a = SubSeq(s, 1, p - 1)
  OBVIOUS
<1>2. PICK b : b = SubSeq(s, p, Len(s))
  OBVIOUS
<1>3. Len(s) \in Nat /\ p \in Nat
  OBVIOUS
<1>4. a \in Seq(S) /\ Len(a) = p - 1 /\ \A i \in 1 .. p - 1 : a[i] = s[i]
  BY <1>1, <1>3
<1>5. b \in Seq(S) /\ Len(b) = Len(s) - p + 1 /\ \A i \in 1 .. Len(s) - p + 1 : b[i] = s[p + i - 1]
  BY <1>2, <1>3
<1>6. PICK c : c = a \o <<e>>
  OBVIOUS
<1>7. c \in Seq(S) /\ Len(c) = p /\ c[p] = e /\ \A i \in 1 .. p - 1 : c[i] = s[i]
  BY <1>3, <1>4, <1>6
<1>8. PICK d : d = c \o b
  OBVIOUS
<1>9. InsertAt(s, p, e) = d
  BY <1>1, <1>2, <1>6, <1>8 DEF InsertAt
<1>10. d \in Seq(S) /\ Len(d) = Len(s) + 1
  BY <1>3, <1>5, <1>7, <1>8
<1>11. ASSUME NEW i \in 1 .. Len(s) + 1
       PROVE  d[i] = IF i < p THEN s[i] ELSE IF i = p THEN e ELSE s[i - 1]
  <2>1. CASE i <= p
    <3>1. d[i] = c[i]
      BY <1>3, <1>5, <1>7, <1>8, <2>1
    <3>2. CASE i = p
      BY <1>3, <1>7, <3>1, <3>2
    <3>3. CASE i < p
      <4>1. i \in 1 .. p - 1
        BY <1>3, <3>3
      <4> QED
        BY <1>7, <3>1, <3>3, <4>1
    <3> QED
      BY <1>3, <2>1, <3>2, <3>3
  <2>2. CASE i > p
    <3>1. d[i] = b[i - p] /\ i - p \in 1 .. Len(s) - p + 1
      BY <1>3, <1>5, <1>7, <1>8, <2>2
    <3>2. b[i - p] = s[p + (i - p) - 1] /\ p + (i - p) - 1 = i - 1
      BY <1>3, <1>5, <3>1
    <3> QED
      BY <1>3, <2>2, <3>1, <3>2
  <2> QED
    BY <1>3, <2>1, <2>2
<1> QED
  BY <1>9, <1>10, <1>11

\* The element at index i after e was inserted at p.
Inserted(s, p, e, i) == IF i < p THEN s[i] ELSE IF i = p THEN e ELSE s[i - 1]

\* The same, element by element.
LEMMA InsertAtIndex ==
  ASSUME NEW S, NEW s \in Seq(S), NEW p \in 1 .. Len(s) + 1, NEW e \in S,
         NEW i \in 1 .. Len(s) + 1
  PROVE  InsertAt(s, p, e)[i] = Inserted(s, p, e, i)
  BY InsertAtFacts DEF Inserted

\* AddSubRange keeps the sub-ranges sorted, and apart or nested.
LEMMA AddStep ==
  ASSUME TrackerInv, NEW first \in Nat, NEW last \in Nat, AddSubRange(first, last)
  PROVE  TrackerInv'
<1> USE SubRangeFacts
<1>0. /\ first <= last /\ start <= first /\ last <= end /\ UNCHANGED <<start, end>>
      /\ wm' = Update(subRanges)'
  <2>1. /\ first <= last /\ start <= first /\ last <= end /\ UNCHANGED <<start, end>>
        /\ wm' = Update(subRanges')
    BY DEF AddSubRange
  <2>2. Update(subRanges') = Update(subRanges)'
    BY <2>1 DEF Update
  <2> QED
    BY <2>1, <2>2
<1>1. PICK sr : sr = [first |-> first, last |-> last]
  OBVIOUS
<1>2. PICK R : R = [first : start .. end, last : start .. end]
  OBVIOUS
<1>3. sr \in R /\ sr.first = first /\ sr.last = last
  BY <1>0, <1>1, <1>2
<1>4. ASSUME NEW k \in 1 .. Len(subRanges)
      PROVE  /\ ~(subRanges[k].first <= first /\ first <= subRanges[k].last)
             /\ ~(subRanges[k].first <= last /\ last <= subRanges[k].last)
             /\ subRanges[k].first # first
  BY DEF AddSubRange, Collides
<1>5. PICK p : p = Place(first)
  OBVIOUS
<1>6. /\ p \in 1 .. Len(subRanges) + 1
      /\ \A k \in 1 .. p - 1 : subRanges[k].first < first
      /\ \A k \in p .. Len(subRanges) : first < subRanges[k].first
  <2>1. first \in Int /\ \A k \in 1 .. Len(subRanges) : subRanges[k].first # first
    BY <1>4
  <2> HIDE SubRangeFacts
  <2> QED
    BY <1>5, <2>1, PlaceFacts
<1>7. subRanges' = InsertAt(subRanges, p, sr)
  BY <1>1, <1>5 DEF AddSubRange
<1>8. subRanges \in Seq(R)
  BY <1>2 DEF TrackerInv
<1>9. subRanges' \in Seq(R) /\ Len(subRanges') = Len(subRanges) + 1
  BY <1>3, <1>6, <1>7, <1>8, InsertAtFacts
<1>10. \A k \in 1 .. Len(subRanges) + 1 :
         subRanges'[k] = IF k < p THEN subRanges[k] ELSE IF k = p THEN sr ELSE subRanges[k - 1]
  <2>1. p \in 1 .. Len(subRanges) + 1 /\ sr \in R
    BY <1>3, <1>6
  <2>2. ASSUME NEW k \in 1 .. Len(subRanges) + 1
        PROVE  InsertAt(subRanges, p, sr)[k] = Inserted(subRanges, p, sr, k)
    <3> HIDE SubRangeFacts
    <3> QED
      BY <1>8, <2>1, InsertAtIndex, Zenon
  <2> HIDE SubRangeFacts
  <2> QED
    BY <1>7, <2>2 DEF Inserted
<1>11. DOMAIN subRanges' = 1 .. Len(subRanges) + 1
  BY <1>9
<1>12. \A k \in DOMAIN subRanges' : subRanges'[k].first <= subRanges'[k].last
  <2> SUFFICES ASSUME NEW k \in 1 .. Len(subRanges) + 1 PROVE subRanges'[k].first <= subRanges'[k].last
    BY <1>11
  <2>1. CASE k < p
    <3>1. k \in 1 .. Len(subRanges) /\ subRanges'[k] = subRanges[k]
      BY <1>6, <1>10, <2>1
    <3> QED
      BY <3>1
  <2>2. CASE k = p
    BY <1>0, <1>3, <1>10, <2>2
  <2>3. CASE k > p
    <3>1. k - 1 \in 1 .. Len(subRanges) /\ subRanges'[k] = subRanges[k - 1]
      BY <1>6, <1>10, <2>3
    <3> QED
      BY <3>1
  <2> QED
    BY <1>6, <2>1, <2>2, <2>3
<1>13. ASSUME NEW i \in 1 .. Len(subRanges) + 1, NEW j \in 1 .. Len(subRanges) + 1, i < j
       PROVE  /\ subRanges'[i].first < subRanges'[j].first
              /\ subRanges'[i].last < subRanges'[j].first \/ Inside(subRanges'[i], subRanges'[j])
  <2>1. CASE i # p /\ j # p
    <3>1. PICK a \in 1 .. Len(subRanges), b \in 1 .. Len(subRanges) :
            a < b /\ subRanges'[i] = subRanges[a] /\ subRanges'[j] = subRanges[b]
      <4>1. CASE j < p
        <5>1. i \in 1 .. Len(subRanges) /\ j \in 1 .. Len(subRanges) /\ i < p
          BY <1>6, <1>13, <4>1
        <5> QED
          BY <1>10, <1>13, <4>1, <5>1
      <4>2. CASE i < p /\ p < j
        <5>1. i \in 1 .. Len(subRanges) /\ j - 1 \in 1 .. Len(subRanges) /\ i < j - 1 /\ ~(j < p)
          BY <1>6, <1>13, <4>2
        <5> QED
          BY <1>10, <2>1, <4>2, <5>1
      <4>3. CASE p < i
        <5>1. i - 1 \in 1 .. Len(subRanges) /\ j - 1 \in 1 .. Len(subRanges) /\ i - 1 < j - 1 /\ ~(i < p) /\ ~(j < p)
          BY <1>6, <1>13, <4>3
        <5> QED
          BY <1>10, <2>1, <5>1
      <4> QED
        BY <1>6, <1>13, <2>1, <4>1, <4>2, <4>3
    <3> QED
      BY <3>1 DEF TrackerInv, Sorted, Nested
  <2>2. CASE i = p
    <3>1. j - 1 \in p .. Len(subRanges) /\ j - 1 \in 1 .. Len(subRanges) /\ ~(j < p) /\ j # p
      BY <1>6, <1>13, <2>2
    <3>2. subRanges'[i] = sr /\ subRanges'[j] = subRanges[j - 1]
      BY <1>10, <2>2, <3>1
    <3>3. first < subRanges[j - 1].first
      BY <1>6, <3>1
    <3>4. last < subRanges[j - 1].first \/ subRanges[j - 1].last < last
      BY <1>4, <3>1
    <3> QED
      BY <1>3, <3>2, <3>3, <3>4 DEF Inside
  <2>3. CASE j = p
    <3>1. i \in 1 .. p - 1 /\ i \in 1 .. Len(subRanges) /\ i < p
      BY <1>6, <1>13, <2>3
    <3>2. subRanges'[i] = subRanges[i] /\ subRanges'[j] = sr
      BY <1>10, <2>3, <3>1
    <3>3. subRanges[i].first < first
      BY <1>6, <3>1
    <3>4. subRanges[i].last < first
      BY <1>4, <3>1, <3>3
    <3> QED
      BY <1>3, <3>2, <3>3, <3>4
  <2> QED
    BY <2>1, <2>2, <2>3
<1>14. Sorted' /\ Nested'
  BY <1>11, <1>13 DEF Sorted, Nested
<1>15. subRanges' # <<>>
  BY <1>9
<1>16. subRanges' \in Seq([first : start' .. end', last : start' .. end'])
  BY <1>0, <1>2, <1>9
<1>17. start' \in 0 .. MaxIndex /\ end' \in start' .. MaxIndex
  BY <1>0 DEF TrackerInv
<1> QED
  BY <1>0, <1>12, <1>14, <1>15, <1>16, <1>17 DEF TrackerInv

LEMMA TrackerStep ==
  ASSUME TrackerInv, [TrackerNext]_trackerVars
  PROVE  TrackerInv'
<1>1. CASE TrackerNext
  <2>1. PICK first \in 0 .. MaxIndex, last \in 0 .. MaxIndex : AddSubRange(first, last)
    BY <1>1 DEF TrackerNext
  <2>2. first \in Nat /\ last \in Nat
    BY TrackerAssumption
  <2> QED
    BY <2>1, <2>2, AddStep
<1>2. CASE UNCHANGED trackerVars
  <2>1. UNCHANGED <<start, end, subRanges, wm>>
    BY <1>2 DEF trackerVars
  <2>2. Update(subRanges)' = Update(subRanges)
    BY <2>1 DEF Update
  <2> QED
    BY <2>1, <2>2 DEF TrackerInv, Sorted, Nested
<1> QED
  BY <1>1, <1>2

\* The invariant of a Tracker: sub-ranges sorted by first, any two apart or one
\* inside the other, and the watermarks those of update.
THEOREM TrackerInductive == TrackerSpec => []TrackerInv
<1>1. TrackerInv /\ [TrackerNext]_trackerVars => TrackerInv'
  BY TrackerStep
<1> QED
  BY <1>1, TrackerInitInv, PTL DEF TrackerSpec

\* IsComplete and PartiallyCompleteUpto are exact for a tracker of any range,
\* after any number of calls of AddSubRange in any order.
THEOREM TrackerExactAlways == TrackerSpec => []TrackerExact
  BY TrackerInductive, TrackerInvExact, PTL
=============================================================================
