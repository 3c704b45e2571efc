--------------------------- MODULE FixAndLogProofs ---------------------------
(***************************************************************************)
(* Proofs about FixAndLog: for every number of callers, Fixer and Logger   *)
(* workers, whatever is queued, found and refused.                         *)
(***************************************************************************)
EXTENDS FixAndLog, FiniteSetTheorems, WellFoundedInduction, TLAPS

CallerState == [pc : {"idle", "set", "certs", "send"}, calls : Seq(AllCalls),
                todo : Seq(Certificates), dchain : Seq(Certificates)]
FixerState == [pc : {"idle", "fix", "send", "done"}, cert : Certificates \cup {None},
               dchain : Seq(Certificates), chains : Seq(Chains)]
PosterState == [pc : {"idle", "check", "add", "cache"}, chain : Seq(Certificates)]

\* What every variable may hold.
TypeOK ==
  /\ caller \in [Callers -> CallerState]
  /\ fixer \in [Fixers -> FixerState]
  /\ forwarder \in [pc : {"idle", "queue", "post", "done"}, chain : Seq(Certificates)]
  /\ poster \in [Posters -> PosterState]
  /\ waiter \in {"callers", "fixers", "forwarder", "logger", "returned"}
  /\ done \subseteq SUBSET Certificates
  /\ postChainCache \subseteq Chains
  /\ wg \in Int
  /\ logged \subseteq Chains

\* A call under way has certificates left, all of them its own.
CallOf(r) == Head(r.calls)
Consistent(r) ==
  r.pc # "idle" =>
    /\ r.calls # <<>> /\ r.todo # <<>>
    /\ ToSet(r.todo) \subseteq Wanted(CallOf(r))
    /\ r.dchain = NewDedupedChain(CallOf(r).chain)
    /\ r.pc = "set" => CallOf(r).all /\ r.todo = r.dchain
CallerInv == \A c \in Callers : Consistent(caller[c])

\* What the goroutines behind the callers hold at each control state.
WorkerInv ==
  /\ \A w \in Fixers :
       /\ fixer[w].pc = "fix" => \E call \in AllCalls : /\ fixer[w].cert \in Wanted(call)
                                                        /\ fixer[w].dchain = NewDedupedChain(call.chain)
       /\ fixer[w].pc = "send" <=> fixer[w].chains # <<>>
  /\ forwarder.pc \in {"queue", "post"} => forwarder.chain # <<>>
  /\ \A p \in Posters : poster[p].pc # "idle" => poster[p].chain # <<>>

\* wg counts the chain the forwarder offers and those the posters work on.
Busy == {p \in Posters : poster[p].pc # "idle"}
WaitGroupInv == wg = Cardinality(Busy) + (IF forwarder.pc = "post" THEN 1 ELSE 0)

\* Wait goes on only when the goroutines before it are over.
WaitInv ==
  /\ ToFixClosed => \A c \in Callers : caller[c].pc = "idle" /\ caller[c].calls = <<>>
  /\ ChainsClosed => \A w \in Fixers : fixer[w].pc = "done"
  /\ waiter \in {"logger", "returned"} => forwarder.pc = "done"
  /\ ErrorsClosed => \A p \in Posters : poster[p].pc = "idle"

\* A chain that is about to be posted was not posted, and is about to be posted
\* in one place only: it was put into postChainCache on the way.
ToPost(p) == poster[p].pc \in {"check", "add"}
PostingInv ==
  /\ \A ch \in DOMAIN posted : posted[ch] = 1 /\ ch \in postChainCache
  /\ forwarder.pc = "post" =>
       /\ forwarder.chain \in postChainCache \ DOMAIN posted
       /\ \A p \in Posters : ToPost(p) => poster[p].chain # forwarder.chain
  /\ \A p \in Posters : ToPost(p) =>
       /\ poster[p].chain \in postChainCache \ DOMAIN posted
       /\ \A q \in Posters \ {p} : ToPost(q) => poster[q].chain # poster[p].chain

IInv == TypeOK /\ CallerInv /\ WorkerInv /\ WaitGroupInv /\ WaitInv /\ PostingInv

\* Where a certificate is: dealt with, with the Logger, or on its way there.
Resolved(cert) ==
  \/ \E ch \in logged : Hash(ch[1]) = Hash(cert)
  \/ \E e \in reported : e[1] \in {"FixFailed", "LogPostFailed"} /\ e[2] = cert
Posting(cert) ==
  \/ forwarder.pc = "post" /\ forwarder.chain[1] = cert
  \/ \E p \in Posters : poster[p].pc # "idle" /\ poster[p].chain[1] = cert
  \/ Resolved(cert)
InWork(cert) ==
  \/ \E c \in Callers : caller[c].pc # "idle" /\ cert \in ToSet(caller[c].todo)
  \/ \E w \in Fixers : fixer[w].pc = "fix" /\ fixer[w].cert = cert
  \/ \E w \in Fixers : \E ch \in ToSet(fixer[w].chains) : ch[1] = cert
  \/ forwarder.pc = "queue" /\ forwarder.chain[1] = cert
  \/ Posting(cert)

\* The calls a caller has not begun.
Rest(c) == IF caller[c].pc = "idle" THEN caller[c].calls ELSE Tail(caller[c].calls)
Remaining(cert) == \E c \in Callers : \E call \in ToSet(Rest(c)) : cert \in Wanted(call)

\* Each cache only names what is in work or dealt with, and no certificate that
\* was queued is anywhere else.
KeptInv ==
  /\ \A h \in postCertCache : \E ch \in logged : Hash(ch[1]) = h
  /\ \A p \in Posters : poster[p].pc = "cache" => poster[p].chain \in logged
  /\ \A ch \in postChainCache : Posting(ch[1])
  /\ \A certs \in done : \A cert \in certs : InWork(cert)
  /\ \A cert \in QueuedCerts : Remaining(cert) \/ InWork(cert)

-----------------------------------------------------------------------------
(* Induction, and newDedupedChain: it keeps every certificate of a chain.   *)

\* A nonempty set of naturals has a least element.
LEMMA LeastElement ==
  ASSUME NEW T \in SUBSET Nat, T # {}
  PROVE  \E x \in T : \A y \in T : x <= y
<1>1. PICK x \in T : \A y \in T : ~(<<y, x>> \in OpToRel(<, Nat))
  BY NatLessThanWellFounded, WFMin, Zenon
<1>2. \A y \in T : ~(y < x)
  BY <1>1 DEF OpToRel
<1> QED
  BY <1>2

\* Induction over the naturals for a set instead of a predicate.
LEMMA SetInduction ==
  ASSUME NEW S \in SUBSET Nat, 0 \in S, \A n \in S : n + 1 \in S
  PROVE  S = Nat
<1> SUFFICES ASSUME Nat \ S # {} PROVE FALSE
  OBVIOUS
<1>1. PICK x \in Nat \ S : \A y \in Nat \ S : x <= y
  BY LeastElement
<1>2. x # 0 /\ x - 1 \in Nat
  BY <1>1
<1> QED
  BY <1>1, <1>2

\* Max of a nonempty bounded set of naturals is its largest element.
LEMMA MaxFacts ==
  ASSUME NEW n \in Nat, NEW s \in SUBSET (1 .. n), s # {}
  PROVE  Max(s) \in s /\ \A i \in s : i <= Max(s)
<1> DEFINE T == {b \in Nat : \A i \in s : i <= b}
<1>1. PICK b \in T : \A y \in T : b <= y
  <2>1. n \in T
    OBVIOUS
  <2>2. T \in SUBSET Nat /\ T # {}
    BY <2>1
  <2> HIDE DEF T
  <2> QED
    BY <2>2, LeastElement
<1>2. b \in s
  <2> SUFFICES ASSUME b \notin s PROVE FALSE
    OBVIOUS
  <2>1. \A i \in s : i <= b - 1
    BY <1>1
  <2>2. PICK i \in s : i \in 1 .. n
    OBVIOUS
  <2>3. b - 1 \in T
    BY <1>1, <2>1, <2>2
  <2> QED
    BY <1>1, <2>3
<1>3. \E x \in s : \A y \in s : x >= y
  BY <1>1, <1>2
<1>4. Max(s) \in s /\ \A y \in s : Max(s) >= y
  BY <1>3 DEF Max
<1> QED
  BY <1>4

\* The recursion of the fold in NewDedupedChain, over subsets of the positions.
DedupStep(g, chain, s) ==
  IF s = {} THEN <<>>
  ELSE IF chain[Max(s)] \in ToSet(g[s \ {Max(s)}]) THEN g[s \ {Max(s)}]
  ELSE Append(g[s \ {Max(s)}], chain[Max(s)])
IsDedup(g, chain, n) == g = [s \in SUBSET (1 .. n) |-> DedupStep(g, chain, s)]

\* NewDedupedChain is a value of the function the recursion defines.
LEMMA DedupUnfold ==
  ASSUME NEW chain
  PROVE  NewDedupedChain(chain) =
           (CHOOSE g : g = [s \in SUBSET (DOMAIN chain) |-> DedupStep(g, chain, s)])[DOMAIN chain]
  BY DEF NewDedupedChain, FoldLeft, MapThenFoldSet, DedupStep

\* There is such a function.
LEMMA DedupExists ==
  ASSUME NEW chain, NEW n \in Nat
  PROVE  \E g : IsDedup(g, chain, n)
<1> DEFINE S == {m \in Nat : \E g : IsDedup(g, chain, m)}
<1>1. 0 \in S
  <2> DEFINE g == [s \in SUBSET (1 .. 0) |-> <<>>]
  <2>1. \A s \in SUBSET (1 .. 0) : s = {}
    OBVIOUS
  <2>2. IsDedup(g, chain, 0)
    BY <2>1 DEF IsDedup, DedupStep
  <2> QED
    BY <2>2
<1>2. ASSUME NEW m \in S PROVE m + 1 \in S
  <2>1. m \in Nat /\ \E g : IsDedup(g, chain, m)
    OBVIOUS
  <2>2. PICK g : IsDedup(g, chain, m)
    BY <2>1
  <2> DEFINE h == [s \in SUBSET (1 .. m + 1) |->
                     IF m + 1 \in s THEN DedupStep(g, chain, s) ELSE g[s]]
  <2>3. ASSUME NEW s \in SUBSET (1 .. m + 1) PROVE h[s] = DedupStep(h, chain, s)
    <3>1. CASE m + 1 \in s
      <4>1. m + 1 \in Nat /\ s # {}
        BY <2>1, <3>1
      <4>3. PICK x : x = Max(s)
        OBVIOUS
      <4>5. x \in s /\ \A i \in s : i <= x
        BY <4>1, <4>3, MaxFacts
      <4>4. Max(s) = m + 1
        BY <2>1, <3>1, <4>3, <4>5
      <4>2. s \ {m + 1} \in SUBSET (1 .. m + 1) /\ h[s \ {m + 1}] = g[s \ {m + 1}]
        OBVIOUS
      <4> QED
        BY <3>1, <4>4, <4>2 DEF DedupStep
    <3>2. CASE m + 1 \notin s
      <4>1. s \in SUBSET (1 .. m)
        BY <2>1, <3>2
      <4>2. s \ {Max(s)} \in SUBSET (1 .. m + 1) /\ h[s \ {Max(s)}] = g[s \ {Max(s)}]
        BY <3>2
      <4>3. g[s] = DedupStep(g, chain, s)
        BY <2>2, <4>1 DEF IsDedup
      <4> QED
        BY <3>2, <4>2, <4>3 DEF DedupStep
    <3> QED
      BY <3>1, <3>2
  <2>4. IsDedup(h, chain, m + 1)
    <3>1. h = [s \in SUBSET (1 .. m + 1) |-> h[s]]
      OBVIOUS
    <3> HIDE DEF h
    <3> QED
      BY <2>3, <3>1 DEF IsDedup
  <2> QED
    BY <2>1, <2>4
<1>3. S \in SUBSET Nat
  OBVIOUS
<1>4. S = Nat
  <2> HIDE DEF S
  <2> QED
    BY <1>1, <1>2, <1>3, SetInduction
<1> QED
  BY <1>4

\* Append adds one element.
LEMMA AppendToSet ==
  ASSUME NEW C, NEW q \in Seq(C), NEW e \in C
  PROVE  ToSet(Append(q, e)) = ToSet(q) \cup {e}
<1> DEFINE a == Append(q, e)
<1>1. /\ Len(a) = Len(q) + 1 /\ Len(q) \in Nat /\ a[Len(q) + 1] = e
      /\ DOMAIN a = 1 .. Len(q) + 1 /\ DOMAIN q = 1 .. Len(q)
  OBVIOUS
<1>2. \A i \in 1 .. Len(q) : a[i] = q[i]
  OBVIOUS
<1> HIDE DEF a
<1>3. ToSet(a) \subseteq ToSet(q) \cup {e}
  BY <1>1, <1>2 DEF ToSet
<1>4. ToSet(q) \cup {e} \subseteq ToSet(a)
  BY <1>1, <1>2 DEF ToSet
<1> QED
  BY <1>3, <1>4 DEF a

\* It yields the certificates at the positions it was given.
LEMMA DedupContents ==
  ASSUME NEW C, NEW chain \in Seq(C), NEW g, NEW n \in Nat, n = Len(chain), IsDedup(g, chain, n)
  PROVE  g[1 .. n] \in Seq(C) /\ ToSet(g[1 .. n]) = ToSet(chain)
<1> DEFINE Good(s) == g[s] \in Seq(C) /\ ToSet(g[s]) = {chain[i] : i \in s}
           S == {m \in Nat : m <= n => \A s \in SUBSET (1 .. m) : Good(s)}
<1>0. Good({})
  <2>1. {} \in SUBSET (1 .. n)
    OBVIOUS
  <2>2. g[{}] = <<>>
    BY <2>1 DEF IsDedup, DedupStep
  <2> QED
    BY <2>2 DEF ToSet
<1>1. 0 \in S
  <2>1. \A s \in SUBSET (1 .. 0) : s = {}
    OBVIOUS
  <2> QED
    BY <2>1, <1>0
<1>2. ASSUME NEW m \in S PROVE m + 1 \in S
  <2>1. m \in Nat /\ m + 1 \in Nat /\ (m <= n => \A t \in SUBSET (1 .. m) : Good(t))
    OBVIOUS
  <2>2. ASSUME m + 1 <= n, NEW s \in SUBSET (1 .. m + 1), s # {} PROVE Good(s)
    <3>1. PICK x : x = Max(s)
      OBVIOUS
    <3>2. x \in s /\ \A i \in s : i <= x
      BY <2>1, <2>2, <3>1, MaxFacts
    <3>3. PICK t : t = s \ {x}
      OBVIOUS
    <3>4. s \in SUBSET (1 .. n) /\ t \in SUBSET (1 .. m)
      BY <2>1, <2>2, <3>2, <3>3
    <3>5. g[t] \in Seq(C) /\ ToSet(g[t]) = {chain[i] : i \in t}
      <4>1. Good(t)
        <5> HIDE DEF Good
        <5> QED
          BY <2>1, <2>2, <3>4
      <4> QED
        BY <4>1
    <3>6. g[s] = IF chain[x] \in ToSet(g[t]) THEN g[t] ELSE Append(g[t], chain[x])
      BY <2>2, <3>1, <3>3, <3>4 DEF IsDedup, DedupStep
    <3>7. chain[x] \in C
      BY <3>2, <3>4
    <3>8. {chain[i] : i \in s} = {chain[i] : i \in t} \cup {chain[x]}
      BY <3>2, <3>3
    <3>9. CASE chain[x] \in ToSet(g[t])
      BY <3>5, <3>6, <3>8, <3>9
    <3>10. CASE chain[x] \notin ToSet(g[t])
      <4>1. g[s] = Append(g[t], chain[x])
        BY <3>6, <3>10
      <4>2. g[s] \in Seq(C)
        BY <3>5, <3>7, <4>1
      <4>3. ToSet(g[s]) = ToSet(g[t]) \cup {chain[x]}
        BY <3>5, <3>7, <4>1, AppendToSet
      <4> QED
        BY <3>5, <3>8, <4>2, <4>3
    <3> QED
      BY <3>9, <3>10
  <2> HIDE DEF Good
  <2> QED
    BY <1>0, <2>1, <2>2
<1>3. S \in SUBSET Nat
  OBVIOUS
<1>4. S = Nat
  <2> HIDE DEF S
  <2> QED
    BY <1>1, <1>2, <1>3, SetInduction
<1>5. Good(1 .. n)
  <2> HIDE DEF Good
  <2>1. n \in S
    BY <1>4
  <2> QED
    BY <2>1
<1>6. ToSet(chain) = {chain[i] : i \in 1 .. n}
  BY DEF ToSet
<1> QED
  BY <1>5, <1>6

\* newDedupedChain drops repetitions and nothing else.
LEMMA DedupKeeps ==
  ASSUME NEW C, NEW chain \in Seq(C)
  PROVE  NewDedupedChain(chain) \in Seq(C) /\ ToSet(NewDedupedChain(chain)) = ToSet(chain)
<1> DEFINE g == CHOOSE g : g = [s \in SUBSET (DOMAIN chain) |-> DedupStep(g, chain, s)]
<1>1. DOMAIN chain = 1 .. Len(chain) /\ Len(chain) \in Nat
  OBVIOUS
<1>2. IsDedup(g, chain, Len(chain))
  <2>1. PICK f : IsDedup(f, chain, Len(chain))
    BY <1>1, DedupExists
  <2>2. f = [s \in SUBSET (DOMAIN chain) |-> DedupStep(f, chain, s)]
    BY <1>1, <2>1 DEF IsDedup
  <2>3. g = [s \in SUBSET (DOMAIN chain) |-> DedupStep(g, chain, s)]
    BY <2>2
  <2> QED
    BY <1>1, <2>3 DEF IsDedup
<1>3. NewDedupedChain(chain) = g[1 .. Len(chain)]
  BY <1>1, DedupUnfold
<1> HIDE DEF g
<1> QED
  BY <1>1, <1>2, <1>3, DedupContents

-----------------------------------------------------------------------------
(* What the actions' operators yield.                                       *)

\* The first element of a sequence and the others.
LEMMA HeadAndTail ==
  ASSUME NEW S, NEW q \in Seq(S), q # <<>>
  PROVE  /\ Head(q) \in S /\ Head(q) = q[1] /\ Tail(q) \in Seq(S)
         /\ ToSet(q) = {Head(q)} \cup ToSet(Tail(q))
         /\ Len(q) = 1 <=> Tail(q) = <<>>
<1>1. /\ Len(q) \in Nat /\ Len(q) >= 1 /\ DOMAIN q = 1 .. Len(q)
      /\ Head(q) = q[1] /\ Tail(q) \in Seq(S) /\ Len(Tail(q)) = Len(q) - 1
      /\ DOMAIN Tail(q) = 1 .. Len(q) - 1
  OBVIOUS
<1>2. \A i \in 1 .. Len(q) - 1 : Tail(q)[i] = q[i + 1]
  OBVIOUS
<1>3. ToSet(q) \subseteq {Head(q)} \cup ToSet(Tail(q))
  <2> SUFFICES ASSUME NEW i \in 1 .. Len(q), i # 1 PROVE q[i] \in ToSet(Tail(q))
    BY <1>1 DEF ToSet
  <2>1. i - 1 \in 1 .. Len(q) - 1 /\ (i - 1) + 1 = i
    BY <1>1
  <2>2. Tail(q)[i - 1] = q[i]
    BY <1>2, <2>1
  <2> QED
    BY <1>1, <2>1, <2>2 DEF ToSet
<1>4. {Head(q)} \cup ToSet(Tail(q)) \subseteq ToSet(q)
  <2>1. \A i \in 1 .. Len(q) - 1 : i + 1 \in 1 .. Len(q)
    BY <1>1
  <2> QED
    BY <1>1, <1>2, <2>1 DEF ToSet
<1>5. Len(q) = 1 <=> Tail(q) = <<>>
  <2>1. PICK t : t = Tail(q)
    OBVIOUS
  <2>2. t \in Seq(S) /\ Len(t) = Len(q) - 1
    BY <1>1, <2>1
  <2>3. Len(t) = 0 <=> t = <<>>
    BY <2>2
  <2>4. Len(q) = 1 <=> Len(t) = 0
    BY <1>1, <2>2
  <2> QED
    BY <2>1, <2>3, <2>4
<1> QED
  BY <1>1, <1>3, <1>4, <1>5

\* The elements of a sequence over a set are in the set.
LEMMA ElementsIn ==
  ASSUME NEW S, NEW q \in Seq(S), NEW x \in ToSet(q)
  PROVE  x \in S
  BY DEF ToSet

\* A call names certificates, and asks for some of its chain.
LEMMA CallFacts ==
  ASSUME NEW call \in AllCalls
  PROVE  /\ call \in [all : BOOLEAN, chain : Chains]
         /\ Wanted(call) \subseteq ToSet(call.chain) /\ Wanted(call) \subseteq Certificates
         /\ Head(call.chain) \in Certificates /\ (~call.all => Wanted(call) = {Head(call.chain)})
         /\ NewDedupedChain(call.chain) \in Seq(Certificates) \ {<<>>}
         /\ ToSet(NewDedupedChain(call.chain)) = ToSet(call.chain)
<1>1. call \in [all : BOOLEAN, chain : Chains]
  <2>1. PICK c \in Callers : call \in ToSet(Input[c])
    BY DEF AllCalls
  <2>2. Input[c] \in Seq([all : BOOLEAN, chain : Chains])
    BY FixAndLogAssumption
  <2> QED
    BY <2>1, <2>2, ElementsIn, Zenon
<1>2. call.chain \in Seq(Certificates) /\ call.chain # <<>>
  BY <1>1 DEF Chains
<1>3. /\ NewDedupedChain(call.chain) \in Seq(Certificates)
      /\ ToSet(NewDedupedChain(call.chain)) = ToSet(call.chain)
  BY <1>2, DedupKeeps
<1>4. /\ call.chain[1] = Head(call.chain) /\ Head(call.chain) \in ToSet(call.chain)
      /\ ToSet(call.chain) \subseteq Certificates
  BY <1>2, HeadAndTail DEF ToSet
<1>5. NewDedupedChain(call.chain) # <<>>
  <2>1. ToSet(<<>>) = {}
    BY DEF ToSet
  <2> QED
    BY <1>3, <1>4, <2>1
<1> QED
  BY <1>1, <1>3, <1>4, <1>5 DEF Wanted

\* A caller goes on to its next certificate, or its call returns.
LEMMA NextCertFacts ==
  ASSUME TypeOK, CallerInv, NEW c \in Callers, caller[c].pc \in {"certs", "send"}
  PROVE  /\ NextCert(c) \in CallerState
         /\ \/ /\ NextCert(c).pc = "idle" /\ NextCert(c).calls = Tail(caller[c].calls)
               /\ ToSet(caller[c].todo) = {Head(caller[c].todo)}
            \/ /\ NextCert(c).pc = "certs" /\ NextCert(c).calls = caller[c].calls
               /\ NextCert(c).dchain = caller[c].dchain /\ NextCert(c).todo # <<>>
               /\ NextCert(c).todo = Tail(caller[c].todo)
<1>1. caller[c] \in CallerState /\ caller[c].calls # <<>> /\ caller[c].todo # <<>>
  BY DEF TypeOK, CallerInv, Consistent
<1>2. caller[c].calls \in Seq(AllCalls) /\ caller[c].todo \in Seq(Certificates)
  BY <1>1 DEF CallerState
<1>3. /\ Tail(caller[c].calls) \in Seq(AllCalls) /\ Tail(caller[c].todo) \in Seq(Certificates)
      /\ Len(caller[c].todo) = 1 <=> Tail(caller[c].todo) = <<>>
      /\ ToSet(caller[c].todo) = {Head(caller[c].todo)} \cup ToSet(Tail(caller[c].todo))
  BY <1>1, <1>2, HeadAndTail
<1>4. CASE Len(caller[c].todo) = 1
  <2>1. ToSet(<<>>) = {}
    BY DEF ToSet
  <2> QED
    BY <1>1, <1>3, <1>4, <2>1 DEF NextCert, Returned, CallerState
<1>5. CASE Len(caller[c].todo) # 1
  BY <1>1, <1>3, <1>5 DEF NextCert, CallerState
<1> QED
  BY <1>4, <1>5

\* A search for a certificate finds chains that begin with it, or says that
\* it failed.
Answers(fix, cert) ==
  /\ fix.chains \in Seq({ch \in Chains : ch[1] = cert})
  /\ fix.chains = <<>> => \E e \in ToSet(fix.errors) : e[1] = "FixFailed" /\ e[2] = cert

\* The assumption on FixResult, for one search.
LEMMA SearchFacts ==
  ASSUME NEW call \in AllCalls, NEW cert \in Wanted(call), NEW down \in SUBSET URLs
  PROVE  Answers(FixResult[<<cert, NewDedupedChain(call.chain), down>>], cert)
  BY FixAndLogAssumption DEF Answers

\* The same, in terms of what a worker holds.
LEMMA FixFacts ==
  ASSUME NEW cert, NEW dchain, NEW down \in SUBSET URLs,
         \E call \in AllCalls : cert \in Wanted(call) /\ dchain = NewDedupedChain(call.chain)
  PROVE  LET fix == FixResult[<<cert, dchain, down>>]
         IN  /\ fix.chains \in Seq(Chains)
             /\ \A ch \in ToSet(fix.chains) : ch[1] = cert
             /\ fix.chains = <<>> => \E e \in ToSet(fix.errors) : e[1] = "FixFailed" /\ e[2] = cert
<1>1. PICK call \in AllCalls : cert \in Wanted(call) /\ dchain = NewDedupedChain(call.chain)
  OBVIOUS
<1>2. Answers(FixResult[<<cert, NewDedupedChain(call.chain), down>>], cert)
  BY <1>1, SearchFacts
<1>3. PICK fix : fix = FixResult[<<cert, dchain, down>>]
  OBVIOUS
<1>4. Answers(fix, cert)
  BY <1>1, <1>2, <1>3, Zenon
<1>5. fix.chains \in Seq(Chains)
  BY <1>4 DEF Answers
<1>6. \A ch \in ToSet(fix.chains) : ch \in {x \in Chains : x[1] = cert}
  BY <1>4, ElementsIn, Zenon DEF Answers
<1> QED
  BY <1>3, <1>4, <1>5, <1>6 DEF Answers

\* A worker of the Fixer with chains to send.
LEMMA SendingFacts ==
  ASSUME NEW chains \in Seq(Chains)
  PROVE  /\ Sending(chains) \in FixerState /\ Sending(chains).chains = chains
         /\ Sending(chains).pc = IF chains = <<>> THEN "idle" ELSE "send"
<1>1. IdleFixer \in FixerState
  BY DEF IdleFixer, FixerState
<1>2. CASE chains = <<>>
  <2>1. Sending(chains) = [IdleFixer EXCEPT !.pc = "idle", !.chains = chains]
    BY <1>2 DEF Sending
  <2> QED
    BY <1>1, <1>2, <2>1 DEF FixerState
<1>3. CASE chains # <<>>
  <2>1. Sending(chains) = [IdleFixer EXCEPT !.pc = "send", !.chains = chains]
    BY <1>3 DEF Sending
  <2> QED
    BY <1>1, <1>3, <2>1 DEF FixerState
<1> QED
  BY <1>2, <1>3

\* The records the actions put together have their types.
LEMMA RecordFacts ==
  /\ \A f \in FixerState : [f EXCEPT !.pc = "done"] \in FixerState
  /\ \A f \in FixerState, cert \in Certificates, d \in Seq(Certificates) :
       [f EXCEPT !.pc = "fix", !.cert = cert, !.dchain = d] \in FixerState
  /\ \A r \in CallerState, calls \in Seq(AllCalls), t, d \in Seq(Certificates) :
       [r EXCEPT !.pc = "idle", !.calls = calls, !.todo = t, !.dchain = d] \in CallerState
  /\ \A r \in CallerState, t, d \in Seq(Certificates), pc \in {"set", "certs"} :
       [r EXCEPT !.pc = pc, !.todo = t, !.dchain = d] \in CallerState
<1>1. \A f \in FixerState : [f EXCEPT !.pc = "done"] \in FixerState
  BY DEF FixerState
<1>2. \A f \in FixerState, cert \in Certificates, d \in Seq(Certificates) :
        [f EXCEPT !.pc = "fix", !.cert = cert, !.dchain = d] \in FixerState
  BY DEF FixerState
<1>3. \A r \in CallerState, calls \in Seq(AllCalls), t, d \in Seq(Certificates) :
        [r EXCEPT !.pc = "idle", !.calls = calls, !.todo = t, !.dchain = d] \in CallerState
  BY DEF CallerState
<1>4. \A r \in CallerState, t, d \in Seq(Certificates), pc \in {"set", "certs"} :
        [r EXCEPT !.pc = pc, !.todo = t, !.dchain = d] \in CallerState
  BY DEF CallerState
<1> QED
  BY <1>1, <1>2, <1>3, <1>4

-----------------------------------------------------------------------------
(* The inductive invariant, one lemma per conjunct.                         *)

\* The pipeline before the first call satisfies the invariant.
LEMMA InitEstablishes == Init => IInv /\ KeptInv
<1> SUFFICES ASSUME Init PROVE IInv /\ KeptInv
  OBVIOUS
<1>1. \A c \in Callers : Input[c] \in Seq(AllCalls)
  <2> SUFFICES ASSUME NEW c \in Callers PROVE Input[c] \in Seq(AllCalls)
    OBVIOUS
  <2>1. Input[c] \in Seq([all : BOOLEAN, chain : Chains])
    BY FixAndLogAssumption
  <2>2. \A i \in 1 .. Len(Input[c]) : Input[c][i] \in AllCalls
    BY <2>1 DEF AllCalls, ToSet
  <2> QED
    BY <2>1, <2>2
<1>2. TypeOK
  BY <1>1 DEF Init, TypeOK, CallerState, FixerState, PosterState, IdleFixer, Idle
<1>3. CallerInv /\ WorkerInv /\ WaitInv /\ PostingInv
  BY DEF Init, CallerInv, Consistent, WorkerInv, WaitInv, PostingInv, IdleFixer, Idle, ToPost,
         ToFixClosed, ChainsClosed, ErrorsClosed
<1>4. WaitGroupInv
  <2>1. Busy = {} /\ forwarder.pc # "post"
    BY DEF Init, Busy, Idle
  <2> QED
    BY <2>1, FS_EmptySet DEF Init, WaitGroupInv
<1>5. KeptInv
  <2>1. \A cert \in QueuedCerts : Remaining(cert)
    BY DEF Init, QueuedCerts, AllCalls, Remaining, Rest
  <2> QED
    BY <2>1 DEF Init, KeptInv, Idle
<1> QED
  BY <1>2, <1>3, <1>4, <1>5 DEF IInv

\* Every step keeps the types.
LEMMA TypeStep == IInv /\ [Next]_vars => TypeOK'
<1> SUFFICES ASSUME IInv, [Next]_vars PROVE TypeOK'
  OBVIOUS
<1> USE DEF IInv, TypeOK
<1>1. ASSUME NEW c \in Callers, QueueAllCertsInChain(c) \/ QueueChain(c) PROVE TypeOK'
  <2>1. /\ Call(c) \in AllCalls /\ Tail(caller[c].calls) \in Seq(AllCalls)
        /\ caller[c] \in CallerState
    BY <1>1, HeadAndTail DEF QueueAllCertsInChain, QueueChain, CallerState, Call
  <2>2. /\ NewDedupedChain(Call(c).chain) \in Seq(Certificates)
        /\ <<Head(Call(c).chain)>> \in Seq(Certificates)
    BY <2>1, CallFacts
  <2>3. CASE QueueAllCertsInChain(c)
    <3> DEFINE d == NewDedupedChain(Call(c).chain)
    <3>1. /\ Returned(c) \in CallerState
          /\ [caller[c] EXCEPT !.pc = "set", !.todo = d, !.dchain = d] \in CallerState
      <4>1. <<>> \in Seq(Certificates)
        OBVIOUS
      <4> QED
        BY <2>1, <2>2, <4>1, RecordFacts, Zenon DEF Returned
    <3>2. caller' = [caller EXCEPT ![c] = IF HashBag(d) \in done THEN Returned(c)
                       ELSE [caller[c] EXCEPT !.pc = "set", !.dchain = d, !.todo = d]]
      BY <2>3 DEF QueueAllCertsInChain
    <3>3. [caller[c] EXCEPT !.pc = "set", !.dchain = d, !.todo = d]
            = [caller[c] EXCEPT !.pc = "set", !.todo = d, !.dchain = d]
      BY <2>1 DEF CallerState
    <3> QED
      BY <2>3, <3>1, <3>2, <3>3 DEF QueueAllCertsInChain, pipeline
  <2>4. CASE QueueChain(c)
    <3>1. [caller[c] EXCEPT !.pc = "certs", !.todo = <<Head(Call(c).chain)>>,
                            !.dchain = NewDedupedChain(Call(c).chain)] \in CallerState
      BY <2>1, <2>2, RecordFacts
    <3>2. caller' = [caller EXCEPT ![c] =
                       [caller[c] EXCEPT !.pc = "certs", !.todo = <<Head(Call(c).chain)>>,
                                         !.dchain = NewDedupedChain(Call(c).chain)]]
      BY <2>4 DEF QueueChain
    <3> QED
      BY <2>4, <3>1, <3>2 DEF QueueChain, pipeline
  <2> QED
    BY <1>1, <2>3, <2>4
<1>2. ASSUME NEW c \in Callers, MarkDone(c) PROVE TypeOK'
  <2>1. caller' \in [Callers -> CallerState]
    BY <1>2 DEF MarkDone, CallerState
  <2>2. HashBag(caller[c].dchain) \in SUBSET Certificates
    BY DEF HashBag, CallerState, ToSet
  <2> QED
    BY <1>2, <2>1, <2>2 DEF MarkDone, pipeline
<1>3. ASSUME NEW c \in Callers, IsPosted(c) PROVE TypeOK'
  <2>1. NextCert(c) \in CallerState /\ [caller[c] EXCEPT !.pc = "send"] \in CallerState
    BY <1>3, NextCertFacts DEF IsPosted, CallerState
  <2> QED
    BY <1>3, <2>1 DEF IsPosted, pipeline
<1>4. ASSUME NEW c \in Callers, NEW w \in Fixers, SendToFix(c, w) PROVE TypeOK'
  <2>1. NextCert(c) \in CallerState
    BY <1>4, NextCertFacts DEF SendToFix
  <2>2. Head(caller[c].todo) \in Certificates /\ caller[c].dchain \in Seq(Certificates)
    BY <1>4, HeadAndTail DEF SendToFix, CallerInv, Consistent, CallerState
  <2>3. fixer' \in [Fixers -> FixerState]
    <3>1. [fixer[w] EXCEPT !.pc = "fix", !.cert = Head(caller[c].todo),
                           !.dchain = caller[c].dchain] \in FixerState
      BY <2>2, RecordFacts
    <3>2. fixer' = [fixer EXCEPT ![w] = [fixer[w] EXCEPT !.pc = "fix", !.cert = Head(caller[c].todo),
                                                         !.dchain = caller[c].dchain]]
      BY <1>4 DEF SendToFix
    <3> QED
      BY <3>1, <3>2
  <2> QED
    BY <1>4, <2>1, <2>3 DEF SendToFix
<1>5. ASSUME NEW w \in Fixers, Fix(w) PROVE TypeOK'
  <2>1. PICK down \in SUBSET URLs :
          fixer' = [fixer EXCEPT ![w] =
                      Sending(FixResult[<<fixer[w].cert, fixer[w].dchain, down>>].chains)]
    BY <1>5 DEF Fix
  <2>2. FixResult[<<fixer[w].cert, fixer[w].dchain, down>>].chains \in Seq(Chains)
    BY <1>5, FixFacts DEF Fix, WorkerInv
  <2>3. fixer' \in [Fixers -> FixerState]
    BY <2>1, <2>2, SendingFacts
  <2> QED
    BY <1>5, <2>3 DEF Fix, logger
<1>6. ASSUME NEW w \in Fixers, SendChain(w) PROVE TypeOK'
  <2>1. fixer[w].chains \in Seq(Chains) /\ fixer[w].chains # <<>>
    BY <1>6 DEF SendChain, WorkerInv, FixerState
  <2>2. Head(fixer[w].chains) \in Chains /\ Tail(fixer[w].chains) \in Seq(Chains)
    BY <2>1, HeadAndTail
  <2>3. fixer' \in [Fixers -> FixerState]
    BY <1>6, <2>2, SendingFacts DEF SendChain
  <2> QED
    BY <1>6, <2>2, <2>3 DEF SendChain, logger, Chains
<1>7. ASSUME NEW w \in Fixers, FixerEnds(w) PROVE TypeOK'
  <2>1. fixer' \in [Fixers -> FixerState]
    <3>1. [fixer[w] EXCEPT !.pc = "done"] \in FixerState
      BY RecordFacts
    <3> QED
      BY <1>7, <3>1 DEF FixerEnds
  <2> QED
    BY <1>7, <2>1 DEF FixerEnds, logger
<1>8. CASE QueueForPost
  <2>1. forwarder.chain \in Chains
    BY <1>8 DEF QueueForPost, WorkerInv, Chains
  <2> QED
    BY <1>8, <2>1 DEF QueueForPost, workers, Idle
<1>9. CASE ForwarderEnds \/ Wait
  BY <1>9 DEF ForwarderEnds, Wait, workers, logger
<1>10. ASSUME NEW p \in Posters,
              SendToPost(p) \/ PostCheck(p) \/ PostFails(p) \/ PostSucceeds(p) \/ PostCache(p)
       PROVE  TypeOK'
  <2>1. poster' \in [Posters -> PosterState]
    <3>1. /\ Idle \in PosterState /\ [pc |-> "check", chain |-> forwarder.chain] \in PosterState
          /\ [poster[p] EXCEPT !.pc = "add"] \in PosterState
          /\ [poster[p] EXCEPT !.pc = "cache"] \in PosterState
      BY DEF PosterState, Idle
    <3> QED
      BY <1>10, <3>1 DEF SendToPost, PostCheck, PostFails, PostSucceeds, PostCache
  <2>2. PostSucceeds(p) => poster[p].chain \in Chains
    BY DEF PostSucceeds, WorkerInv, PosterState, Chains
  <2>3. forwarder' \in [pc : {"idle", "queue", "post", "done"}, chain : Seq(Certificates)]
    <3>1. Idle \in [pc : {"idle", "queue", "post", "done"}, chain : Seq(Certificates)]
      BY DEF Idle
    <3> QED
      BY <1>10, <3>1 DEF SendToPost, PostCheck, PostFails, PostSucceeds, PostCache
  <2>4. wg' \in Int /\ logged' \subseteq Chains
    BY <1>10, <2>2 DEF SendToPost, PostCheck, PostFails, PostSucceeds, PostCache
  <2>5. UNCHANGED <<caller, fixer, waiter, done, postChainCache>>
    BY <1>10 DEF SendToPost, PostCheck, PostFails, PostSucceeds, PostCache, workers
  <2> QED
    BY <2>1, <2>3, <2>4, <2>5
<1>11. CASE UNCHANGED vars
  BY <1>11 DEF vars
<1> QED
  BY <1>1, <1>2, <1>3, <1>4, <1>5, <1>6, <1>7, <1>8, <1>9, <1>10, <1>11 DEF Next

\* A call goes through its certificates in order.
LEMMA CallerStep == IInv /\ [Next]_vars => CallerInv'
<1> SUFFICES ASSUME IInv, [Next]_vars PROVE CallerInv'
  OBVIOUS
<1> USE DEF IInv
<1>1. ASSUME NEW c \in Callers, NEW r, caller' = [caller EXCEPT ![c] = r], Consistent(r)
      PROVE  CallerInv'
  BY <1>1 DEF CallerInv, TypeOK
<1>2. ASSUME NEW c \in Callers, QueueAllCertsInChain(c) PROVE CallerInv'
  <2>1. PICK d : d = NewDedupedChain(Call(c).chain)
    OBVIOUS
  <2>2. PICK r : r = IF HashBag(d) \in done THEN Returned(c)
                     ELSE [caller[c] EXCEPT !.pc = "set", !.dchain = d, !.todo = d]
    OBVIOUS
  <2>3. caller' = [caller EXCEPT ![c] = r]
    BY <1>2, <2>1, <2>2 DEF QueueAllCertsInChain
  <2>4. caller[c] \in CallerState /\ caller[c].calls # <<>> /\ Call(c) \in AllCalls /\ Call(c).all
    BY <1>2, HeadAndTail DEF QueueAllCertsInChain, TypeOK, CallerState, Call
  <2>5. d # <<>> /\ ToSet(d) = Wanted(Call(c))
    BY <2>1, <2>4, CallFacts DEF Wanted
  <2>6. ASSUME HashBag(d) \in done PROVE Consistent(r)
    BY <2>2, <2>4, <2>6 DEF Consistent, Returned, CallerState
  <2>7. ASSUME HashBag(d) \notin done PROVE Consistent(r)
    <3>1. /\ r.pc = "set" /\ r.calls = caller[c].calls /\ r.todo = d /\ r.dchain = d
      BY <2>2, <2>4, <2>7 DEF CallerState
    <3> QED
      BY <2>1, <2>4, <2>5, <3>1 DEF Consistent, CallOf, Call
  <2>8. Consistent(r)
    BY <2>6, <2>7
  <2> QED
    BY <1>1, <2>3, <2>8
<1>3. ASSUME NEW c \in Callers, MarkDone(c) PROVE CallerInv'
  <2>1. PICK r : r = [caller[c] EXCEPT !.pc = "certs"]
    OBVIOUS
  <2>2. caller[c] \in CallerState /\ Consistent(caller[c]) /\ caller[c].pc = "set"
    BY <1>3 DEF MarkDone, CallerInv, TypeOK
  <2>3. r.pc = "certs" /\ r.calls = caller[c].calls /\ r.todo = caller[c].todo /\ r.dchain = caller[c].dchain
    BY <2>1, <2>2 DEF CallerState
  <2>4. Consistent(r)
    BY <2>2, <2>3 DEF Consistent, CallOf
  <2> QED
    BY <1>1, <1>3, <2>1, <2>4 DEF MarkDone
<1>4. ASSUME NEW c \in Callers, QueueChain(c) PROVE CallerInv'
  <2>1. PICK r : r = [caller[c] EXCEPT !.pc = "certs", !.todo = <<Head(Call(c).chain)>>,
                                       !.dchain = NewDedupedChain(Call(c).chain)]
    OBVIOUS
  <2>2. /\ caller[c] \in CallerState /\ caller[c].calls # <<>>
        /\ Call(c) \in AllCalls /\ ~Call(c).all
    BY <1>4, HeadAndTail DEF QueueChain, TypeOK, CallerState, Call
  <2>3. /\ r.pc = "certs" /\ r.calls = caller[c].calls /\ r.todo = <<Head(Call(c).chain)>>
        /\ r.dchain = NewDedupedChain(Call(c).chain)
    BY <2>1, <2>2 DEF CallerState
  <2>4. Wanted(Call(c)) = {Head(Call(c).chain)}
    BY <2>2, CallFacts
  <2>5. r.todo # <<>> /\ ToSet(r.todo) = {Head(Call(c).chain)}
    BY <2>3 DEF ToSet
  <2>6. Consistent(r)
    BY <2>2, <2>3, <2>4, <2>5 DEF Consistent, CallOf, Call
  <2>7. caller' = [caller EXCEPT ![c] = r]
    BY <1>4, <2>1 DEF QueueChain
  <2> QED
    BY <1>1, <2>6, <2>7
<1>5. ASSUME NEW c \in Callers, caller[c].pc \in {"certs", "send"} PROVE Consistent(NextCert(c))
  <2>1. Consistent(caller[c]) /\ caller[c].todo \in Seq(Certificates)
    BY DEF CallerInv, TypeOK, CallerState
  <2>2. ToSet(Tail(caller[c].todo)) \subseteq ToSet(caller[c].todo)
    BY <1>5, <2>1, HeadAndTail DEF Consistent
  <2>3. PICK r : r = NextCert(c)
    OBVIOUS
  <2>4. \/ r.pc = "idle"
        \/ /\ r.pc = "certs" /\ r.calls = caller[c].calls /\ r.dchain = caller[c].dchain
           /\ r.todo # <<>> /\ r.todo = Tail(caller[c].todo)
    BY <1>5, <2>3, NextCertFacts
  <2>5. Consistent(r)
    BY <1>5, <2>1, <2>2, <2>4 DEF Consistent, CallOf
  <2> QED
    BY <2>3, <2>5
<1>6. ASSUME NEW c \in Callers, IsPosted(c) PROVE CallerInv'
  <2>1. PICK r : r = IF Hash(Head(caller[c].todo)) \in postCertCache THEN NextCert(c)
                     ELSE [caller[c] EXCEPT !.pc = "send"]
    OBVIOUS
  <2>2. caller[c] \in CallerState /\ Consistent(caller[c]) /\ caller[c].pc = "certs"
    BY <1>6 DEF IsPosted, CallerInv, TypeOK
  <2>3. ASSUME r = [caller[c] EXCEPT !.pc = "send"] PROVE Consistent(r)
    <3>1. /\ r.pc = "send" /\ r.calls = caller[c].calls /\ r.todo = caller[c].todo
          /\ r.dchain = caller[c].dchain
      BY <2>2, <2>3 DEF CallerState
    <3> QED
      BY <2>2, <3>1 DEF Consistent, CallOf
  <2>4. Consistent(r)
    BY <1>5, <2>1, <2>2, <2>3
  <2>5. caller' = [caller EXCEPT ![c] = r]
    BY <1>6, <2>1 DEF IsPosted
  <2> QED
    BY <1>1, <2>4, <2>5
<1>7. ASSUME NEW c \in Callers, NEW w \in Fixers, SendToFix(c, w) PROVE CallerInv'
  BY <1>1, <1>5, <1>7 DEF SendToFix
<1>8. CASE UNCHANGED caller
  BY <1>8 DEF CallerInv
<1>9. ASSUME NEW w \in Fixers, Fix(w) \/ SendChain(w) \/ FixerEnds(w) PROVE UNCHANGED caller
  BY <1>9 DEF Fix, SendChain, FixerEnds
<1>10. ASSUME NEW p \in Posters,
              SendToPost(p) \/ PostCheck(p) \/ PostFails(p) \/ PostSucceeds(p) \/ PostCache(p)
       PROVE  UNCHANGED caller
  BY <1>10 DEF SendToPost, PostCheck, PostFails, PostSucceeds, PostCache, workers
<1>11. QueueForPost \/ ForwarderEnds \/ Wait \/ UNCHANGED vars => UNCHANGED caller
  BY DEF QueueForPost, ForwarderEnds, Wait, workers, vars
<1> QED
  BY <1>2, <1>3, <1>4, <1>6, <1>7, <1>8, <1>9, <1>10, <1>11 DEF Next

\* A worker holds a certificate of a call, or chains that begin with one.
LEMMA WorkerStep == IInv /\ [Next]_vars => WorkerInv'
<1> SUFFICES ASSUME IInv, [Next]_vars PROVE WorkerInv'
  OBVIOUS
<1> DEFINE Ready(f) == /\ f.pc = "fix" => \E call \in AllCalls : /\ f.cert \in Wanted(call)
                                                                /\ f.dchain = NewDedupedChain(call.chain)
                       /\ f.pc = "send" <=> f.chains # <<>>
<1> USE DEF IInv
<1>1. ASSUME NEW w \in Fixers, NEW f, fixer' = [fixer EXCEPT ![w] = f], Ready(f),
             UNCHANGED poster,
             forwarder'.pc \in {"queue", "post"} => forwarder'.chain # <<>>
      PROVE  WorkerInv'
  <2>1. \A v \in Fixers : Ready(fixer[v])
    BY DEF WorkerInv
  <2>2. \A v \in Fixers : Ready(fixer'[v])
    <3> HIDE DEF Ready
    <3> QED
      BY <1>1, <2>1 DEF TypeOK
  <2> QED
    BY <1>1, <2>2 DEF WorkerInv
<1>2. ASSUME NEW c \in Callers, NEW w \in Fixers, SendToFix(c, w) PROVE WorkerInv'
  <2>1. PICK f : f = [fixer[w] EXCEPT !.pc = "fix", !.cert = Head(caller[c].todo),
                                      !.dchain = caller[c].dchain]
    OBVIOUS
  <2>2. fixer[w] \in FixerState /\ fixer[w].chains = <<>>
    BY <1>2 DEF SendToFix, TypeOK, WorkerInv
  <2>3. /\ f.pc = "fix" /\ f.cert = Head(caller[c].todo) /\ f.dchain = caller[c].dchain
        /\ f.chains = <<>>
    BY <2>1, <2>2 DEF FixerState
  <2>4. /\ caller[c].calls \in Seq(AllCalls) /\ caller[c].calls # <<>>
        /\ caller[c].todo \in Seq(Certificates) /\ caller[c].todo # <<>>
        /\ ToSet(caller[c].todo) \subseteq Wanted(CallOf(caller[c]))
        /\ caller[c].dchain = NewDedupedChain(CallOf(caller[c]).chain)
    BY <1>2 DEF SendToFix, TypeOK, CallerState, CallerInv, Consistent
  <2>5. CallOf(caller[c]) \in AllCalls /\ Head(caller[c].todo) \in Wanted(CallOf(caller[c]))
    BY <2>4, HeadAndTail DEF CallOf
  <2>6. Ready(f)
    BY <2>3, <2>4, <2>5
  <2>7. fixer' = [fixer EXCEPT ![w] = f] /\ UNCHANGED <<poster, forwarder>>
    BY <1>2, <2>1 DEF SendToFix
  <2> QED
    BY <1>1, <2>6, <2>7 DEF WorkerInv
<1>3. ASSUME NEW w \in Fixers, Fix(w) PROVE WorkerInv'
  <2>1. PICK down \in SUBSET URLs :
          fixer' = [fixer EXCEPT ![w] =
                      Sending(FixResult[<<fixer[w].cert, fixer[w].dchain, down>>].chains)]
    BY <1>3 DEF Fix
  <2>2. PICK chains : chains = FixResult[<<fixer[w].cert, fixer[w].dchain, down>>].chains
    OBVIOUS
  <2>3. chains \in Seq(Chains)
    BY <1>3, <2>2, FixFacts DEF Fix, WorkerInv
  <2>4. Ready(Sending(chains))
    BY <2>3, SendingFacts
  <2>5. UNCHANGED <<poster, forwarder>>
    BY <1>3 DEF Fix, logger
  <2> HIDE DEF Ready
  <2> QED
    BY <1>1, <2>1, <2>2, <2>4, <2>5 DEF WorkerInv
<1>4. ASSUME NEW w \in Fixers, SendChain(w) PROVE WorkerInv'
  <2>1. fixer[w].chains \in Seq(Chains) /\ fixer[w].chains # <<>>
    BY <1>4 DEF SendChain, WorkerInv, TypeOK, FixerState
  <2>2. Head(fixer[w].chains) \in Chains /\ Tail(fixer[w].chains) \in Seq(Chains)
    BY <2>1, HeadAndTail
  <2>3. Ready(Sending(Tail(fixer[w].chains)))
    BY <2>2, SendingFacts
  <2>4. forwarder'.chain # <<>> /\ UNCHANGED poster
    BY <1>4, <2>2 DEF SendChain, logger, Chains
  <2>5. fixer' = [fixer EXCEPT ![w] = Sending(Tail(fixer[w].chains))]
    BY <1>4 DEF SendChain
  <2> HIDE DEF Ready
  <2> QED
    BY <1>1, <2>3, <2>4, <2>5
<1>5. ASSUME NEW w \in Fixers, FixerEnds(w) PROVE WorkerInv'
  <2>1. PICK f : f = [fixer[w] EXCEPT !.pc = "done"]
    OBVIOUS
  <2>2. f.pc = "done" /\ f.chains = <<>>
    BY <1>5, <2>1 DEF FixerEnds, WorkerInv, TypeOK, FixerState
  <2>3. fixer' = [fixer EXCEPT ![w] = f] /\ UNCHANGED <<poster, forwarder>>
    BY <1>5, <2>1 DEF FixerEnds, logger
  <2> QED
    BY <1>1, <2>2, <2>3 DEF WorkerInv
<1>6. CASE QueueForPost \/ ForwarderEnds
  BY <1>6 DEF QueueForPost, ForwarderEnds, WorkerInv, workers, logger, Idle, TypeOK
<1>7. ASSUME NEW p \in Posters,
             SendToPost(p) \/ PostCheck(p) \/ PostFails(p) \/ PostSucceeds(p) \/ PostCache(p)
      PROVE  WorkerInv'
  <2>1. UNCHANGED fixer /\ (UNCHANGED forwarder \/ forwarder'.pc = "idle")
    BY <1>7 DEF SendToPost, PostCheck, PostFails, PostSucceeds, PostCache, workers, Idle
  <2>2. \/ poster' = [poster EXCEPT ![p] = Idle]
        \/ /\ poster' = [poster EXCEPT ![p] = [pc |-> "check", chain |-> forwarder.chain]]
           /\ forwarder.pc = "post"
        \/ /\ poster[p].pc # "idle"
           /\ \E pc \in {"add", "cache"} :
                poster' = [poster EXCEPT ![p] = [poster[p] EXCEPT !.pc = pc]]
    BY <1>7 DEF SendToPost, PostCheck, PostFails, PostSucceeds, PostCache
  <2>3. \A pc \in {"add", "cache"} : [poster[p] EXCEPT !.pc = pc].chain = poster[p].chain
    BY DEF TypeOK, PosterState
  <2>4. PICK r : poster' = [poster EXCEPT ![p] = r] /\ (r.pc # "idle" => r.chain # <<>>)
    BY <2>2, <2>3 DEF WorkerInv, Idle
  <2>5. \A q \in Posters : poster'[q].pc # "idle" => poster'[q].chain # <<>>
    BY <2>4 DEF WorkerInv, TypeOK
  <2> QED
    BY <2>1, <2>5 DEF WorkerInv
<1>8. CASE UNCHANGED <<fixer, forwarder, poster>>
  BY <1>8 DEF WorkerInv
<1>9. ASSUME NEW c \in Callers,
             QueueAllCertsInChain(c) \/ MarkDone(c) \/ QueueChain(c) \/ IsPosted(c)
      PROVE  UNCHANGED <<fixer, forwarder, poster>>
  BY <1>9 DEF QueueAllCertsInChain, MarkDone, QueueChain, IsPosted, pipeline
<1>10. Wait \/ UNCHANGED vars => UNCHANGED <<fixer, forwarder, poster>>
  BY DEF Wait, logger, vars
<1> HIDE DEF Ready
<1> QED
  BY <1>2, <1>3, <1>4, <1>5, <1>6, <1>7, <1>8, <1>9, <1>10 DEF Next

\* wg.Add before a chain is offered, wg.Done after it was dealt with.
LEMMA WaitGroupStep == IInv /\ [Next]_vars => WaitGroupInv'
<1> SUFFICES ASSUME IInv, [Next]_vars PROVE WaitGroupInv'
  OBVIOUS
<1> USE DEF IInv
<1>1. IsFiniteSet(Busy) /\ Cardinality(Busy) \in Nat
  <2>1. Busy \in SUBSET Posters
    BY DEF Busy
  <2> QED
    BY <2>1, FixAndLogAssumption, FS_Subset, FS_CardinalityType
<1>2. CASE QueueForPost
  <2>1. Busy' = Busy
    BY <1>2 DEF QueueForPost, Busy
  <2> QED
    BY <1>1, <1>2, <2>1 DEF QueueForPost, WaitGroupInv, Idle, TypeOK
<1>3. CASE ForwarderEnds
  <2>1. Busy' = Busy /\ UNCHANGED wg
    BY <1>3 DEF ForwarderEnds, Busy, logger
  <2> QED
    BY <1>3, <2>1 DEF ForwarderEnds, WaitGroupInv, TypeOK
<1>4. ASSUME NEW p \in Posters, SendToPost(p) PROVE WaitGroupInv'
  <2>1. p \notin Busy /\ Busy' = Busy \cup {p}
    BY <1>4 DEF SendToPost, Busy, TypeOK, PosterState
  <2>2. Cardinality(Busy') = Cardinality(Busy) + 1
    BY <1>1, <2>1, FS_AddElement
  <2> QED
    BY <1>1, <1>4, <2>2 DEF SendToPost, WaitGroupInv, Idle
<1>5. ASSUME NEW p \in Posters, poster[p].pc # "idle", poster' = [poster EXCEPT ![p] = Idle],
             wg' = wg - 1, UNCHANGED forwarder
      PROVE  WaitGroupInv'
  <2>1. p \in Busy /\ Busy' = Busy \ {p}
    BY <1>5 DEF Busy, TypeOK, Idle
  <2>2. Cardinality(Busy') = Cardinality(Busy) - 1
    BY <1>1, <2>1, FS_RemoveElement
  <2> QED
    BY <1>1, <1>5, <2>2 DEF WaitGroupInv
<1>6. ASSUME NEW p \in Posters, NEW pc \in {"add", "cache"}, poster[p].pc # "idle",
             poster' = [poster EXCEPT ![p].pc = pc], UNCHANGED <<wg, forwarder>>
      PROVE  WaitGroupInv'
  <2>1. Busy' = Busy
    BY <1>6 DEF Busy, TypeOK, PosterState
  <2> QED
    BY <1>6, <2>1 DEF WaitGroupInv
<1>7. ASSUME NEW p \in Posters, PostCheck(p) PROVE WaitGroupInv'
  <2>1. CASE Hash(poster[p].chain[1]) \in postCertCache
    BY <1>5, <1>7, <2>1 DEF PostCheck
  <2>2. CASE Hash(poster[p].chain[1]) \notin postCertCache
    <3>1. poster' = [poster EXCEPT ![p].pc = "add"] /\ UNCHANGED <<wg, forwarder>>
      BY <1>7, <2>2 DEF PostCheck
    <3> QED
      BY <1>6, <1>7, <3>1 DEF PostCheck
  <2> QED
    BY <2>1, <2>2
<1>8. ASSUME NEW p \in Posters, PostFails(p) \/ PostCache(p) PROVE WaitGroupInv'
  BY <1>5, <1>8 DEF PostFails, PostCache
<1>9. ASSUME NEW p \in Posters, PostSucceeds(p) PROVE WaitGroupInv'
  BY <1>6, <1>9 DEF PostSucceeds
<1>10. CASE UNCHANGED <<wg, forwarder, poster>>
  BY <1>10 DEF WaitGroupInv, Busy
<1>11. ASSUME NEW c \in Callers,
              \/ QueueAllCertsInChain(c) \/ MarkDone(c) \/ QueueChain(c) \/ IsPosted(c)
              \/ \E w \in Fixers : SendToFix(c, w)
       PROVE  UNCHANGED <<wg, forwarder, poster>>
  BY <1>11 DEF QueueAllCertsInChain, MarkDone, QueueChain, IsPosted, SendToFix, pipeline
<1>12. ASSUME NEW w \in Fixers, Fix(w) \/ FixerEnds(w) PROVE UNCHANGED <<wg, forwarder, poster>>
  BY <1>12 DEF Fix, FixerEnds, logger
<1>13. ASSUME NEW w \in Fixers, SendChain(w) PROVE WaitGroupInv'
  <2>1. UNCHANGED wg /\ Busy' = Busy
    BY <1>13 DEF SendChain, logger, Busy
  <2> QED
    BY <1>13, <2>1 DEF SendChain, WaitGroupInv
<1>14. Wait \/ UNCHANGED vars => UNCHANGED <<wg, forwarder, poster>>
  BY DEF Wait, logger, vars
<1> QED
  BY <1>2, <1>3, <1>4, <1>7, <1>8, <1>9, <1>10, <1>11, <1>12, <1>13, <1>14 DEF Next

\* Wait closes each channel behind its last sender.
LEMMA WaitStep == IInv /\ [Next]_vars => WaitInv'
<1> SUFFICES ASSUME IInv, [Next]_vars PROVE WaitInv'
  OBVIOUS
<1> USE DEF IInv, WaitInv, ToFixClosed, ChainsClosed, ErrorsClosed
<1>1. ASSUME NEW c \in Callers,
             \/ QueueAllCertsInChain(c) \/ MarkDone(c) \/ QueueChain(c) \/ IsPosted(c)
             \/ \E w \in Fixers : SendToFix(c, w)
      PROVE  WaitInv'
  <2>1. waiter = "callers"
    BY <1>1 DEF QueueAllCertsInChain, MarkDone, QueueChain, IsPosted, SendToFix, TypeOK
  <2>2. UNCHANGED waiter
    BY <1>1 DEF QueueAllCertsInChain, MarkDone, QueueChain, IsPosted, SendToFix, pipeline
  <2> QED
    BY <2>1, <2>2
<1>2. ASSUME NEW w \in Fixers, Fix(w) \/ SendChain(w) \/ FixerEnds(w) PROVE WaitInv'
  <2>1. ~ChainsClosed \/ (\A v \in Fixers : fixer[v].pc = "done")
    OBVIOUS
  <2>2. waiter \in {"callers", "fixers"}
    BY <1>2, <2>1 DEF Fix, SendChain, FixerEnds, TypeOK
  <2>3. UNCHANGED <<waiter, caller>>
    BY <1>2 DEF Fix, SendChain, FixerEnds
  <2> QED
    BY <2>2, <2>3
<1>3. CASE QueueForPost \/ ForwarderEnds
  <2>1. UNCHANGED <<waiter, caller, fixer, poster>> /\ forwarder.pc # "done"
    BY <1>3 DEF QueueForPost, ForwarderEnds, workers, logger
  <2> QED
    BY <2>1
<1>4. ASSUME NEW p \in Posters,
             SendToPost(p) \/ PostCheck(p) \/ PostFails(p) \/ PostSucceeds(p) \/ PostCache(p)
      PROVE  WaitInv'
  <2>1. UNCHANGED <<waiter, caller, fixer>>
    BY <1>4 DEF SendToPost, PostCheck, PostFails, PostSucceeds, PostCache, workers
  <2>2. waiter # "returned"
    BY <1>4 DEF SendToPost, PostCheck, PostFails, PostSucceeds, PostCache
  <2>3. waiter = "logger" => forwarder'.pc = "done"
    BY <1>4 DEF SendToPost, PostCheck, PostFails, PostSucceeds, PostCache
  <2> QED
    BY <2>1, <2>2, <2>3
<1>5. CASE Wait
  <2>1. UNCHANGED <<caller, fixer, forwarder, poster>>
    BY <1>5 DEF Wait, logger
  <2>2. ASSUME waiter' = "returned" PROVE \A p \in Posters : poster[p].pc = "idle"
    <3>1. wg = 0 /\ forwarder.pc = "done"
      BY <1>5, <2>2 DEF Wait
    <3>2. IsFiniteSet(Busy) /\ Cardinality(Busy) = 0
      <4>1. Busy \in SUBSET Posters
        BY DEF Busy
      <4>2. IsFiniteSet(Busy) /\ Cardinality(Busy) \in Nat
        BY <4>1, FixAndLogAssumption, FS_Subset, FS_CardinalityType
      <4> QED
        BY <3>1, <4>2 DEF WaitGroupInv
    <3>3. Busy = {}
      BY <3>2, FS_EmptySet
    <3> QED
      BY <3>3 DEF Busy
  <2> QED
    BY <1>5, <2>1, <2>2 DEF Wait
<1>6. CASE UNCHANGED vars
  BY <1>6 DEF vars
<1> QED
  BY <1>1, <1>2, <1>3, <1>4, <1>5, <1>6 DEF Next

\* postChainCache lets a chain pass once, and it is posted at most once.
LEMMA PostingStep == IInv /\ [Next]_vars => PostingInv'
<1> SUFFICES ASSUME IInv, [Next]_vars PROVE PostingInv'
  OBVIOUS
<1> USE DEF IInv, PostingInv, ToPost
<1>1. CASE QueueForPost
  <2>1. UNCHANGED <<poster, posted>>
    BY <1>1 DEF QueueForPost
  <2>2. CASE forwarder' = Idle /\ postChainCache \subseteq postChainCache'
    BY <2>1, <2>2 DEF Idle
  <2>3. CASE /\ forwarder'.pc = "post" /\ forwarder'.chain = forwarder.chain
             /\ forwarder.chain \notin postChainCache
             /\ postChainCache' = postChainCache \cup {forwarder.chain}
    BY <2>1, <2>3
  <2> QED
    BY <1>1, <2>2, <2>3 DEF QueueForPost, TypeOK
<1>2. ASSUME NEW p \in Posters, SendToPost(p) PROVE PostingInv'
  <2>1. /\ forwarder.pc = "post" /\ forwarder'.pc = "idle" /\ ~ToPost(p)
        /\ poster' = [poster EXCEPT ![p] = [pc |-> "check", chain |-> forwarder.chain]]
        /\ UNCHANGED <<posted, postChainCache>>
    BY <1>2 DEF SendToPost, Idle
  <2>2. poster'[p].chain = forwarder.chain /\ \A q \in Posters \ {p} : poster'[q] = poster[q]
    BY <2>1 DEF TypeOK
  <2> QED
    BY <2>1, <2>2
<1>3. ASSUME NEW p \in Posters, PostCheck(p) PROVE PostingInv'
  <2>1. /\ ToPost(p)' => poster'[p].chain = poster[p].chain /\ ToPost(p)
        /\ \A q \in Posters \ {p} : poster'[q] = poster[q]
    BY <1>3 DEF PostCheck, TypeOK, PosterState, Idle
  <2>2. UNCHANGED <<forwarder, posted, postChainCache>>
    BY <1>3 DEF PostCheck
  <2> QED
    BY <2>1, <2>2
<1>4. ASSUME NEW p \in Posters, PostFails(p) \/ PostSucceeds(p) PROVE PostingInv'
  <2>1. PICK chain : chain = poster[p].chain
    OBVIOUS
  <2>2. /\ ToPost(p) /\ ~ToPost(p)' /\ \A q \in Posters \ {p} : poster'[q] = poster[q]
        /\ UNCHANGED <<forwarder, postChainCache>>
    BY <1>4 DEF PostFails, PostSucceeds, TypeOK, PosterState, Idle
  <2>3. posted' = Sent(chain)
    BY <1>4, <2>1 DEF PostFails, PostSucceeds
  <2>4. chain \in postChainCache \ DOMAIN posted
    BY <2>1, <2>2
  <2>5. DOMAIN posted' = DOMAIN posted \cup {chain}
    BY <2>3 DEF Sent
  <2>6. \A ch \in DOMAIN posted' : posted'[ch] = 1
    BY <2>3, <2>4 DEF Sent
  <2>7. \A q \in Posters \ {p} : ToPost(q) => poster[q].chain # chain
    BY <2>1, <2>2
  <2>8. forwarder.pc = "post" => forwarder.chain # chain
    BY <2>1, <2>2
  <2> QED
    BY <2>2, <2>4, <2>5, <2>6, <2>7, <2>8
<1>5. ASSUME NEW p \in Posters, PostCache(p) PROVE PostingInv'
  <2>1. ~ToPost(p)' /\ \A q \in Posters \ {p} : poster'[q] = poster[q]
    BY <1>5 DEF PostCache, TypeOK, Idle
  <2>2. UNCHANGED <<forwarder, posted, postChainCache>>
    BY <1>5 DEF PostCache
  <2> QED
    BY <2>1, <2>2
<1>6. CASE /\ UNCHANGED <<poster, posted, postChainCache>>
           /\ UNCHANGED forwarder \/ forwarder'.pc # "post"
  BY <1>6
<1>7. ASSUME NEW c \in Callers,
             \/ QueueAllCertsInChain(c) \/ MarkDone(c) \/ QueueChain(c) \/ IsPosted(c)
             \/ \E w \in Fixers : SendToFix(c, w)
      PROVE  UNCHANGED <<poster, posted, postChainCache, forwarder>>
  BY <1>7 DEF QueueAllCertsInChain, MarkDone, QueueChain, IsPosted, SendToFix, pipeline
<1>8. ASSUME NEW w \in Fixers, Fix(w) \/ SendChain(w) \/ FixerEnds(w)
      PROVE  /\ UNCHANGED <<poster, posted, postChainCache>>
             /\ UNCHANGED forwarder \/ forwarder'.pc # "post"
  BY <1>8 DEF Fix, SendChain, FixerEnds, logger
<1>9. ForwarderEnds \/ Wait \/ UNCHANGED vars =>
        /\ UNCHANGED <<poster, posted, postChainCache>>
        /\ UNCHANGED forwarder \/ forwarder'.pc # "post"
  BY DEF ForwarderEnds, Wait, logger, vars, TypeOK
<1> QED
  BY <1>1, <1>2, <1>3, <1>4, <1>5, <1>6, <1>7, <1>8, <1>9 DEF Next

\* The inductive step without the conjuncts about certificates.
LEMMA InvariantStep == IInv /\ [Next]_vars => IInv'
  BY TypeStep, CallerStep, WorkerStep, WaitGroupStep, WaitStep, PostingStep DEF IInv

-----------------------------------------------------------------------------
(* No certificate is lost.                                                  *)

\* A certificate whose hash is in the cache of posted ones goes by a chain
\* that is in the log.
LEMMA CacheFacts ==
  ASSUME KeptInv, NEW cert, Hash(cert) \in postCertCache
  PROVE  Resolved(cert)
  BY DEF KeptInv, Resolved

\* What the log has and what was reported stays.
LEMMA ResolvedStays ==
  ASSUME [Next]_vars, NEW cert, Resolved(cert)
  PROVE  Resolved(cert)'
<1>1. logged \subseteq logged' /\ reported \subseteq reported'
  <2>1. ASSUME NEW c \in Callers,
               \/ QueueAllCertsInChain(c) \/ MarkDone(c) \/ QueueChain(c) \/ IsPosted(c)
               \/ \E w \in Fixers : SendToFix(c, w)
        PROVE  UNCHANGED <<logged, reported>>
    BY <2>1 DEF QueueAllCertsInChain, MarkDone, QueueChain, IsPosted, SendToFix, pipeline
  <2>2. ASSUME NEW w \in Fixers, Fix(w) \/ SendChain(w) \/ FixerEnds(w)
        PROVE  logged \subseteq logged' /\ reported \subseteq reported'
    BY <2>2 DEF Fix, SendChain, FixerEnds, logger
  <2>3. ASSUME NEW p \in Posters,
               SendToPost(p) \/ PostCheck(p) \/ PostFails(p) \/ PostSucceeds(p) \/ PostCache(p)
        PROVE  logged \subseteq logged' /\ reported \subseteq reported'
    BY <2>3 DEF SendToPost, PostCheck, PostFails, PostSucceeds, PostCache
  <2>4. QueueForPost \/ ForwarderEnds \/ Wait \/ UNCHANGED vars => UNCHANGED <<logged, reported>>
    BY DEF QueueForPost, ForwarderEnds, Wait, logger, vars
  <2> QED
    BY <2>1, <2>2, <2>3, <2>4 DEF Next
<1> QED
  BY <1>1 DEF Resolved

\* A certificate with the Logger stays there until it is dealt with.
LEMMA PostingStays ==
  ASSUME IInv, KeptInv, [Next]_vars, NEW cert, Posting(cert)
  PROVE  Posting(cert)'
<1> USE DEF IInv
<1>1. CASE Resolved(cert)
  BY <1>1, ResolvedStays DEF Posting
<1>2. CASE forwarder.pc = "post" /\ forwarder.chain[1] = cert
  <2>1. CASE UNCHANGED forwarder
    BY <1>2, <2>1 DEF Posting
  <2>2. ASSUME NEW p \in Posters, SendToPost(p) PROVE Posting(cert)'
    <3>1. poster'[p] = [pc |-> "check", chain |-> forwarder.chain]
      BY <2>2 DEF SendToPost, TypeOK
    <3> QED
      BY <1>2, <3>1 DEF Posting
  <2>3. ASSUME NEW c \in Callers,
               \/ QueueAllCertsInChain(c) \/ MarkDone(c) \/ QueueChain(c) \/ IsPosted(c)
               \/ \E w \in Fixers : SendToFix(c, w)
        PROVE  UNCHANGED forwarder
    BY <2>3 DEF QueueAllCertsInChain, MarkDone, QueueChain, IsPosted, SendToFix, pipeline
  <2>4. ASSUME NEW w \in Fixers, Fix(w) \/ SendChain(w) \/ FixerEnds(w) PROVE UNCHANGED forwarder
    BY <1>2, <2>4 DEF Fix, SendChain, FixerEnds
  <2>5. ASSUME NEW p \in Posters, PostCheck(p) \/ PostFails(p) \/ PostSucceeds(p) \/ PostCache(p)
        PROVE  UNCHANGED forwarder
    BY <2>5 DEF PostCheck, PostFails, PostSucceeds, PostCache
  <2>6. QueueForPost \/ ForwarderEnds \/ Wait \/ UNCHANGED vars => UNCHANGED forwarder
    BY <1>2 DEF QueueForPost, ForwarderEnds, Wait, vars
  <2> QED
    BY <2>1, <2>2, <2>3, <2>4, <2>5, <2>6 DEF Next
<1>3. ASSUME NEW p \in Posters, poster[p].pc # "idle", poster[p].chain[1] = cert
      PROVE  Posting(cert)'
  <2>1. CASE poster'[p] = poster[p]
    BY <1>3, <2>1 DEF Posting
  <2>2. CASE PostCheck(p)
    <3>1. CASE Hash(cert) \in postCertCache
      BY <3>1, CacheFacts, ResolvedStays DEF Posting
    <3>2. CASE Hash(cert) \notin postCertCache
      <4>1. poster'[p].pc = "add" /\ poster'[p].chain = poster[p].chain
        BY <1>3, <2>2, <3>2 DEF PostCheck, TypeOK, PosterState
      <4> QED
        BY <1>3, <4>1 DEF Posting
    <3> QED
      BY <3>1, <3>2
  <2>3. CASE PostFails(p)
    <3>1. <<"LogPostFailed", poster[p].chain[1], poster[p].chain>> \in reported'
      BY <2>3 DEF PostFails
    <3> QED
      BY <1>3, <3>1 DEF Posting, Resolved
  <2>4. CASE PostSucceeds(p)
    BY <1>3, <2>4 DEF PostSucceeds, Posting, Resolved
  <2>5. CASE PostCache(p)
    BY <1>3, <2>5, ResolvedStays DEF PostCache, KeptInv, Posting, Resolved
  <2>6. ASSUME NEW q \in Posters,
               SendToPost(q) \/ PostCheck(q) \/ PostFails(q) \/ PostSucceeds(q) \/ PostCache(q),
               q # p \/ SendToPost(q)
        PROVE  poster'[p] = poster[p]
    BY <1>3, <2>6 DEF SendToPost, PostCheck, PostFails, PostSucceeds, PostCache, TypeOK
  <2>7. CASE UNCHANGED poster
    BY <2>1, <2>7
  <2>8. ASSUME NEW c \in Callers,
               \/ QueueAllCertsInChain(c) \/ MarkDone(c) \/ QueueChain(c) \/ IsPosted(c)
               \/ \E w \in Fixers : SendToFix(c, w)
        PROVE  UNCHANGED poster
    BY <2>8 DEF QueueAllCertsInChain, MarkDone, QueueChain, IsPosted, SendToFix, pipeline
  <2>9. ASSUME NEW w \in Fixers, Fix(w) \/ SendChain(w) \/ FixerEnds(w) PROVE UNCHANGED poster
    BY <2>9 DEF Fix, SendChain, FixerEnds, logger
  <2>10. QueueForPost \/ ForwarderEnds \/ Wait \/ UNCHANGED vars => UNCHANGED poster
    BY DEF QueueForPost, ForwarderEnds, Wait, logger, vars
  <2> QED
    BY <2>1, <2>2, <2>3, <2>4, <2>5, <2>6, <2>7, <2>8, <2>9, <2>10 DEF Next
<1> QED
  BY <1>1, <1>2, <1>3 DEF Posting

\* A certificate in a caller's list is sent to the Fixer, unless it is in the log.
LEMMA TodoStays ==
  ASSUME IInv, KeptInv, [Next]_vars, NEW cert,
         NEW c \in Callers, caller[c].pc # "idle", cert \in ToSet(caller[c].todo)
  PROVE  InWork(cert)'
<1> USE DEF IInv
<1>1. /\ caller[c] \in CallerState /\ caller[c].todo \in Seq(Certificates) /\ caller[c].todo # <<>>
      /\ cert \in Certificates /\ cert \in {Head(caller[c].todo)} \cup ToSet(Tail(caller[c].todo))
  <2>1. caller[c] \in CallerState /\ caller[c].todo \in Seq(Certificates) /\ caller[c].todo # <<>>
    BY DEF TypeOK, CallerState, CallerInv, Consistent
  <2> QED
    BY <2>1, HeadAndTail, ElementsIn
<1>2. CASE caller'[c] = caller[c]
  BY <1>2 DEF InWork
<1>3. ASSUME caller[c].pc \in {"certs", "send"}, caller'[c] = NextCert(c),
             cert # Head(caller[c].todo)
      PROVE  InWork(cert)'
  <2>1. PICK r : r = NextCert(c)
    OBVIOUS
  <2>2. r.pc = "certs" /\ r.todo = Tail(caller[c].todo)
    BY <1>1, <1>3, <2>1, NextCertFacts
  <2> QED
    BY <1>1, <1>3, <2>1, <2>2 DEF InWork
<1>4. CASE MarkDone(c)
  <2>1. caller'[c].pc = "certs" /\ caller'[c].todo = caller[c].todo
    BY <1>1, <1>4 DEF MarkDone, TypeOK, CallerState
  <2> QED
    BY <2>1 DEF InWork
<1>5. CASE IsPosted(c)
  <2>1. CASE Hash(Head(caller[c].todo)) \in postCertCache
    <3>1. caller'[c] = NextCert(c)
      BY <1>5, <2>1 DEF IsPosted, TypeOK
    <3>2. CASE cert = Head(caller[c].todo)
      BY <1>1, <2>1, <3>2, CacheFacts, ResolvedStays DEF InWork, Posting
    <3> QED
      BY <1>3, <1>5, <3>1, <3>2 DEF IsPosted
  <2>2. CASE Hash(Head(caller[c].todo)) \notin postCertCache
    <3>1. caller'[c].pc = "send" /\ caller'[c].todo = caller[c].todo
      BY <1>1, <1>5, <2>2 DEF IsPosted, TypeOK, CallerState
    <3> QED
      BY <3>1 DEF InWork
  <2> QED
    BY <2>1, <2>2
<1>6. ASSUME NEW w \in Fixers, SendToFix(c, w) PROVE InWork(cert)'
  <2>1. caller'[c] = NextCert(c)
    BY <1>6 DEF SendToFix, TypeOK
  <2>2. fixer'[w].pc = "fix" /\ fixer'[w].cert = Head(caller[c].todo)
    BY <1>6 DEF SendToFix, TypeOK, FixerState
  <2>3. CASE cert = Head(caller[c].todo)
    BY <2>2, <2>3 DEF InWork
  <2> QED
    BY <1>3, <1>6, <2>1, <2>3 DEF SendToFix
<1>7. ~QueueAllCertsInChain(c) /\ ~QueueChain(c)
  BY DEF QueueAllCertsInChain, QueueChain
<1>8. ASSUME NEW d \in Callers \ {c},
             \/ QueueAllCertsInChain(d) \/ MarkDone(d) \/ QueueChain(d) \/ IsPosted(d)
             \/ \E w \in Fixers : SendToFix(d, w)
      PROVE  caller'[c] = caller[c]
  BY <1>8 DEF QueueAllCertsInChain, MarkDone, QueueChain, IsPosted, SendToFix, TypeOK
<1>9. ASSUME NEW w \in Fixers, Fix(w) \/ SendChain(w) \/ FixerEnds(w) PROVE UNCHANGED caller
  BY <1>9 DEF Fix, SendChain, FixerEnds
<1>10. ASSUME NEW p \in Posters,
              SendToPost(p) \/ PostCheck(p) \/ PostFails(p) \/ PostSucceeds(p) \/ PostCache(p)
       PROVE  UNCHANGED caller
  BY <1>10 DEF SendToPost, PostCheck, PostFails, PostSucceeds, PostCache, workers
<1>11. QueueForPost \/ ForwarderEnds \/ Wait \/ UNCHANGED vars => UNCHANGED caller
  BY DEF QueueForPost, ForwarderEnds, Wait, workers, vars
<1> QED
  BY <1>2, <1>4, <1>5, <1>6, <1>7, <1>8, <1>9, <1>10, <1>11 DEF Next

\* A certificate with the Fixer leaves it as a chain or with an error.
LEMMA FixingStays ==
  ASSUME IInv, [Next]_vars, NEW cert, NEW w \in Fixers,
         \/ fixer[w].pc = "fix" /\ fixer[w].cert = cert
         \/ \E ch \in ToSet(fixer[w].chains) : ch[1] = cert
  PROVE  InWork(cert)'
<1> USE DEF IInv
<1>1. CASE fixer'[w] = fixer[w]
  BY <1>1 DEF InWork
<1>2. ToSet(<<>>) = {}
  BY DEF ToSet
<1>3. fixer[w].pc \in {"fix", "send"} /\ (fixer[w].pc = "fix" => fixer[w].cert = cert)
  <2>1. fixer[w].pc = "send" <=> fixer[w].chains # <<>>
    BY DEF WorkerInv
  <2> QED
    BY <1>2, <2>1
<1>4. CASE Fix(w)
  <2>1. PICK down \in SUBSET URLs :
          LET fix == FixResult[<<fixer[w].cert, fixer[w].dchain, down>>]
          IN  /\ fixer' = [fixer EXCEPT ![w] = Sending(fix.chains)]
              /\ reported' = reported \cup ToSet(fix.errors)
    BY <1>4 DEF Fix
  <2>2. PICK fix : fix = FixResult[<<fixer[w].cert, fixer[w].dchain, down>>]
    OBVIOUS
  <2>3. fixer[w].pc = "fix" /\ fixer[w].cert = cert
    BY <1>3, <1>4 DEF Fix
  <2>4. /\ fix.chains \in Seq(Chains) /\ \A ch \in ToSet(fix.chains) : ch[1] = cert
        /\ fix.chains = <<>> => \E e \in ToSet(fix.errors) : e[1] = "FixFailed" /\ e[2] = cert
    BY <2>2, <2>3, FixFacts DEF WorkerInv
  <2>5. CASE fix.chains = <<>>
    BY <2>1, <2>2, <2>4, <2>5 DEF InWork, Posting, Resolved
  <2>6. CASE fix.chains # <<>>
    <3>1. Head(fix.chains) \in ToSet(fix.chains)
      BY <2>4, <2>6, HeadAndTail
    <3>2. fixer'[w].chains = fix.chains
      BY <2>1, <2>2, <2>4, SendingFacts DEF TypeOK
    <3> QED
      BY <2>4, <3>1, <3>2 DEF InWork
  <2> QED
    BY <2>5, <2>6
<1>5. CASE SendChain(w)
  <2>1. fixer[w].chains \in Seq(Chains) /\ fixer[w].chains # <<>>
    BY <1>5 DEF SendChain, WorkerInv, TypeOK, FixerState
  <2>2. /\ Tail(fixer[w].chains) \in Seq(Chains)
        /\ ToSet(fixer[w].chains) = {Head(fixer[w].chains)} \cup ToSet(Tail(fixer[w].chains))
    BY <2>1, HeadAndTail
  <2>3. fixer'[w].chains = Tail(fixer[w].chains)
    BY <1>5, <2>2, SendingFacts DEF SendChain, TypeOK
  <2>4. forwarder'.pc = "queue" /\ forwarder'.chain = Head(fixer[w].chains)
    BY <1>5 DEF SendChain
  <2>5. \E ch \in ToSet(fixer[w].chains) : ch[1] = cert
    BY <1>5 DEF SendChain
  <2> QED
    BY <2>2, <2>3, <2>4, <2>5 DEF InWork
<1>6. ASSUME NEW v \in Fixers,
             \/ (Fix(v) \/ SendChain(v)) /\ v # w
             \/ FixerEnds(v)
             \/ \E c \in Callers : SendToFix(c, v)
      PROVE  fixer'[w] = fixer[w]
  <2>1. v # w
    BY <1>3, <1>6 DEF FixerEnds, SendToFix
  <2> QED
    BY <1>6, <2>1 DEF Fix, SendChain, FixerEnds, SendToFix, TypeOK
<1>7. ASSUME NEW c \in Callers,
             QueueAllCertsInChain(c) \/ MarkDone(c) \/ QueueChain(c) \/ IsPosted(c)
      PROVE  fixer'[w] = fixer[w]
  BY <1>7 DEF QueueAllCertsInChain, MarkDone, QueueChain, IsPosted, pipeline
<1>8. ASSUME NEW p \in Posters,
             SendToPost(p) \/ PostCheck(p) \/ PostFails(p) \/ PostSucceeds(p) \/ PostCache(p)
      PROVE  fixer'[w] = fixer[w]
  BY <1>8 DEF SendToPost, PostCheck, PostFails, PostSucceeds, PostCache, workers
<1>9. QueueForPost \/ ForwarderEnds \/ Wait \/ UNCHANGED vars => fixer'[w] = fixer[w]
  BY DEF QueueForPost, ForwarderEnds, Wait, workers, vars
<1> QED
  BY <1>1, <1>4, <1>5, <1>6, <1>7, <1>8, <1>9 DEF Next

\* The goroutine between Fixer and Logger drops a chain only if the Logger
\* has or had one for its certificate.
LEMMA ForwardingStays ==
  ASSUME IInv, KeptInv, [Next]_vars, NEW cert,
         forwarder.pc = "queue", forwarder.chain[1] = cert
  PROVE  InWork(cert)'
<1> USE DEF IInv
<1>1. CASE UNCHANGED forwarder
  BY <1>1 DEF InWork
<1>2. CASE QueueForPost
  <2>1. CASE Hash(cert) \in postCertCache
    BY <2>1, CacheFacts, ResolvedStays DEF InWork, Posting
  <2>2. CASE forwarder.chain \in postChainCache
    <3>1. Posting(cert)
      BY <2>2 DEF KeptInv
    <3> QED
      BY <3>1, PostingStays DEF InWork
  <2>3. CASE forwarder'.pc = "post" /\ forwarder'.chain = forwarder.chain
    BY <2>3 DEF InWork, Posting
  <2> QED
    BY <1>2, <2>1, <2>2, <2>3 DEF QueueForPost, TypeOK
<1>3. ASSUME NEW c \in Callers,
             \/ QueueAllCertsInChain(c) \/ MarkDone(c) \/ QueueChain(c) \/ IsPosted(c)
             \/ \E w \in Fixers : SendToFix(c, w)
      PROVE  UNCHANGED forwarder
  BY <1>3 DEF QueueAllCertsInChain, MarkDone, QueueChain, IsPosted, SendToFix, pipeline
<1>4. ASSUME NEW w \in Fixers, Fix(w) \/ SendChain(w) \/ FixerEnds(w) PROVE UNCHANGED forwarder
  BY <1>4 DEF Fix, SendChain, FixerEnds
<1>5. ASSUME NEW p \in Posters,
             SendToPost(p) \/ PostCheck(p) \/ PostFails(p) \/ PostSucceeds(p) \/ PostCache(p)
      PROVE  UNCHANGED forwarder
  BY <1>5 DEF SendToPost, PostCheck, PostFails, PostSucceeds, PostCache
<1>6. ForwarderEnds \/ Wait \/ UNCHANGED vars => UNCHANGED forwarder
  BY DEF ForwarderEnds, Wait, vars
<1> QED
  BY <1>1, <1>2, <1>3, <1>4, <1>5, <1>6 DEF Next

\* A certificate in work stays in work until it is dealt with, and after.
LEMMA InWorkStays ==
  ASSUME IInv, KeptInv, [Next]_vars, NEW cert, InWork(cert)
  PROVE  InWork(cert)'
<1>1. ASSUME NEW c \in Callers, caller[c].pc # "idle", cert \in ToSet(caller[c].todo)
      PROVE  InWork(cert)'
  BY <1>1, TodoStays
<1>2. ASSUME NEW w \in Fixers,
             \/ fixer[w].pc = "fix" /\ fixer[w].cert = cert
             \/ \E ch \in ToSet(fixer[w].chains) : ch[1] = cert
      PROVE  InWork(cert)'
  BY <1>2, FixingStays
<1>3. CASE forwarder.pc = "queue" /\ forwarder.chain[1] = cert
  BY <1>3, ForwardingStays
<1>4. CASE Posting(cert)
  BY <1>4, PostingStays DEF InWork
<1> QED
  BY <1>1, <1>2, <1>3, <1>4 DEF InWork

\* A call that a caller begins is put in work, or was in work already.
LEMMA RemainingStays ==
  ASSUME IInv, KeptInv, [Next]_vars, NEW cert, Remaining(cert)
  PROVE  Remaining(cert)' \/ InWork(cert)'
<1> USE DEF IInv
<1>1. PICK c \in Callers : \E call \in ToSet(Rest(c)) : cert \in Wanted(call)
  BY DEF Remaining
<1>2. caller[c] \in CallerState /\ caller[c].calls \in Seq(AllCalls)
  BY DEF TypeOK, CallerState
<1>3. CASE Rest(c)' = Rest(c)
  BY <1>1, <1>3 DEF Remaining
<1>4. ASSUME QueueAllCertsInChain(c) \/ QueueChain(c)
      PROVE  /\ Call(c) \in AllCalls
             /\ ToSet(Rest(c)) = {Call(c)} \cup ToSet(Tail(caller[c].calls))
  BY <1>2, <1>4, HeadAndTail DEF QueueAllCertsInChain, QueueChain, Rest, Call
<1>5. CASE QueueAllCertsInChain(c)
  <2>1. PICK d : d = NewDedupedChain(Call(c).chain)
    OBVIOUS
  <2>2. ToSet(d) = Wanted(Call(c))
    BY <1>4, <1>5, <2>1, CallFacts DEF Wanted, QueueAllCertsInChain
  <2>3. CASE HashBag(d) \in done
    <3>1. caller'[c] = Returned(c)
      BY <1>5, <2>1, <2>3 DEF QueueAllCertsInChain, TypeOK
    <3>2. Rest(c)' = Tail(caller[c].calls)
      BY <1>2, <3>1 DEF Rest, Returned, CallerState
    <3>3. cert \in Wanted(Call(c)) => InWork(cert)
      BY <2>2, <2>3 DEF KeptInv, HashBag
    <3> QED
      BY <1>1, <1>4, <1>5, <3>2, <3>3, InWorkStays DEF Remaining
  <2>4. CASE HashBag(d) \notin done
    <3>1. caller'[c] = [caller[c] EXCEPT !.pc = "set", !.dchain = d, !.todo = d]
      BY <1>5, <2>1, <2>4 DEF QueueAllCertsInChain, TypeOK
    <3>2. caller'[c].pc = "set" /\ caller'[c].todo = d /\ caller'[c].calls = caller[c].calls
      BY <1>2, <3>1 DEF CallerState
    <3> QED
      BY <1>1, <1>4, <1>5, <2>2, <3>2 DEF Remaining, Rest, InWork
  <2> QED
    BY <2>3, <2>4
<1>6. CASE QueueChain(c)
  <2>1. /\ caller'[c].pc = "certs" /\ caller'[c].todo = <<Head(Call(c).chain)>>
        /\ caller'[c].calls = caller[c].calls
    BY <1>2, <1>6 DEF QueueChain, TypeOK, CallerState
  <2>2. Wanted(Call(c)) = {Head(Call(c).chain)}
    BY <1>4, <1>6, CallFacts DEF QueueChain
  <2>3. ToSet(caller'[c].todo) = {Head(Call(c).chain)}
    BY <2>1 DEF ToSet
  <2> QED
    BY <1>1, <1>4, <1>6, <2>1, <2>2, <2>3 DEF Remaining, Rest, InWork
<1>7. ASSUME caller[c].pc \in {"certs", "send"}, caller'[c] = NextCert(c) PROVE Rest(c)' = Rest(c)
  <2>1. PICK r : r = NextCert(c)
    OBVIOUS
  <2>2. \/ r.pc = "idle" /\ r.calls = Tail(caller[c].calls)
        \/ r.pc = "certs" /\ r.calls = caller[c].calls
    BY <1>7, <2>1, NextCertFacts
  <2> QED
    BY <1>7, <2>1, <2>2 DEF Rest
<1>8. ASSUME MarkDone(c) PROVE Rest(c)' = Rest(c)
  <2>1. caller[c].pc = "set" /\ caller'[c].pc = "certs" /\ caller'[c].calls = caller[c].calls
    BY <1>2, <1>8 DEF MarkDone, TypeOK, CallerState
  <2> QED
    BY <2>1 DEF Rest
<1>9. ASSUME IsPosted(c) PROVE Rest(c)' = Rest(c)
  <2>1. CASE Hash(Head(caller[c].todo)) \in postCertCache
    BY <1>7, <1>9, <2>1 DEF IsPosted, TypeOK
  <2>2. CASE Hash(Head(caller[c].todo)) \notin postCertCache
    <3>1. caller[c].pc = "certs" /\ caller'[c].pc = "send" /\ caller'[c].calls = caller[c].calls
      BY <1>2, <1>9, <2>2 DEF IsPosted, TypeOK, CallerState
    <3> QED
      BY <3>1 DEF Rest
  <2> QED
    BY <2>1, <2>2
<1>10. ASSUME NEW w \in Fixers, SendToFix(c, w) PROVE Rest(c)' = Rest(c)
  BY <1>7, <1>10 DEF SendToFix, TypeOK
<1>11. ASSUME NEW d \in Callers \ {c},
              \/ QueueAllCertsInChain(d) \/ MarkDone(d) \/ QueueChain(d) \/ IsPosted(d)
              \/ \E w \in Fixers : SendToFix(d, w)
       PROVE  caller'[c] = caller[c]
  BY <1>11 DEF QueueAllCertsInChain, MarkDone, QueueChain, IsPosted, SendToFix, TypeOK
<1>12. ASSUME NEW w \in Fixers, Fix(w) \/ SendChain(w) \/ FixerEnds(w) PROVE UNCHANGED caller
  BY <1>12 DEF Fix, SendChain, FixerEnds
<1>13. ASSUME NEW p \in Posters,
              SendToPost(p) \/ PostCheck(p) \/ PostFails(p) \/ PostSucceeds(p) \/ PostCache(p)
       PROVE  UNCHANGED caller
  BY <1>13 DEF SendToPost, PostCheck, PostFails, PostSucceeds, PostCache, workers
<1>14. QueueForPost \/ ForwarderEnds \/ Wait \/ UNCHANGED vars => UNCHANGED caller
  BY DEF QueueForPost, ForwarderEnds, Wait, workers, vars
<1>15. caller'[c] = caller[c] => Rest(c)' = Rest(c)
  BY DEF Rest
<1> QED
  BY <1>3, <1>5, <1>6, <1>8, <1>9, <1>10, <1>11, <1>12, <1>13, <1>14, <1>15 DEF Next

\* The hashes remembered are of chains in the log, and a worker remembers one
\* only after the log has the chain.
LEMMA RememberedStep ==
  ASSUME IInv, KeptInv, [Next]_vars
  PROVE  /\ \A h \in postCertCache' : \E ch \in logged' : Hash(ch[1]) = h
         /\ \A p \in Posters : poster'[p].pc = "cache" => poster'[p].chain \in logged'
<1> USE DEF IInv
<1>1. /\ \A h \in postCertCache : \E ch \in logged : Hash(ch[1]) = h
      /\ \A p \in Posters : poster[p].pc = "cache" => poster[p].chain \in logged
      /\ poster \in [Posters -> PosterState]
  BY DEF KeptInv, TypeOK
<1>2. CASE UNCHANGED <<poster, postCertCache, logged>>
  BY <1>1, <1>2
<1>3. ASSUME NEW q \in Posters, SendToPost(q) \/ PostCheck(q) \/ PostFails(q)
      PROVE  /\ UNCHANGED <<postCertCache, logged>> /\ poster'[q].pc # "cache"
             /\ \A p \in Posters \ {q} : poster'[p] = poster[p]
  <2>1. CASE SendToPost(q)
    BY <1>1, <2>1 DEF SendToPost, PosterState
  <2>2. CASE PostCheck(q)
    BY <1>1, <2>2 DEF PostCheck, PosterState, Idle
  <2>3. CASE PostFails(q)
    BY <1>1, <2>3 DEF PostFails, PosterState, Idle
  <2> QED
    BY <1>3, <2>1, <2>2, <2>3
<1>4. ASSUME NEW q \in Posters, PostSucceeds(q)
      PROVE  /\ UNCHANGED postCertCache /\ logged' = logged \cup {poster'[q].chain}
             /\ \A p \in Posters \ {q} : poster'[p] = poster[p]
  BY <1>1, <1>4 DEF PostSucceeds, PosterState
<1>5. ASSUME NEW q \in Posters, PostCache(q)
      PROVE  /\ postCertCache' = postCertCache \cup {Hash(poster[q].chain[1])}
             /\ poster[q].chain \in logged /\ UNCHANGED logged /\ poster'[q].pc # "cache"
             /\ \A p \in Posters \ {q} : poster'[p] = poster[p]
  BY <1>1, <1>5 DEF PostCache, PosterState, Idle
<1>6. ASSUME NEW c \in Callers,
             \/ QueueAllCertsInChain(c) \/ MarkDone(c) \/ QueueChain(c) \/ IsPosted(c)
             \/ \E w \in Fixers : SendToFix(c, w)
      PROVE  UNCHANGED <<poster, postCertCache, logged>>
  BY <1>6 DEF QueueAllCertsInChain, MarkDone, QueueChain, IsPosted, SendToFix, pipeline
<1>7. ASSUME NEW w \in Fixers, Fix(w) \/ SendChain(w) \/ FixerEnds(w)
      PROVE  UNCHANGED <<poster, postCertCache, logged>>
  BY <1>7 DEF Fix, SendChain, FixerEnds, logger
<1>8. QueueForPost \/ ForwarderEnds \/ Wait \/ UNCHANGED vars
        => UNCHANGED <<poster, postCertCache, logged>>
  BY DEF QueueForPost, ForwarderEnds, Wait, logger, vars
<1>9. ASSUME NEW q \in Posters, SendToPost(q) \/ PostCheck(q) \/ PostFails(q)
      PROVE  /\ \A h \in postCertCache' : \E ch \in logged' : Hash(ch[1]) = h
             /\ \A p \in Posters : poster'[p].pc = "cache" => poster'[p].chain \in logged'
  BY <1>1, <1>3, <1>9
<1>10. ASSUME NEW q \in Posters, PostSucceeds(q)
       PROVE  /\ \A h \in postCertCache' : \E ch \in logged' : Hash(ch[1]) = h
              /\ \A p \in Posters : poster'[p].pc = "cache" => poster'[p].chain \in logged'
  BY <1>1, <1>4, <1>10
<1>11. ASSUME NEW q \in Posters, PostCache(q)
       PROVE  /\ \A h \in postCertCache' : \E ch \in logged' : Hash(ch[1]) = h
              /\ \A p \in Posters : poster'[p].pc = "cache" => poster'[p].chain \in logged'
  BY <1>1, <1>5, <1>11
<1> QED
  BY <1>2, <1>6, <1>7, <1>8, <1>9, <1>10, <1>11 DEF Next

\* What a step adds to the caches is in work, so that nothing is lost by them.
LEMMA KeptStep ==
  ASSUME IInv, KeptInv, [Next]_vars
  PROVE  KeptInv'
<1>1. ASSUME NEW ch \in postChainCache' PROVE Posting(ch[1])'
  <2>1. CASE ch \in postChainCache
    BY <2>1, PostingStays DEF KeptInv
  <2>2. CASE ch \notin postChainCache
    <3>1. QueueForPost
      <4>1. ASSUME NEW c \in Callers,
                   \/ QueueAllCertsInChain(c) \/ MarkDone(c) \/ QueueChain(c) \/ IsPosted(c)
                   \/ \E w \in Fixers : SendToFix(c, w)
            PROVE  UNCHANGED postChainCache
        BY <4>1 DEF QueueAllCertsInChain, MarkDone, QueueChain, IsPosted, SendToFix, pipeline
      <4>2. ASSUME NEW w \in Fixers, Fix(w) \/ SendChain(w) \/ FixerEnds(w)
            PROVE  UNCHANGED postChainCache
        BY <4>2 DEF Fix, SendChain, FixerEnds
      <4>3. ASSUME NEW p \in Posters,
                   SendToPost(p) \/ PostCheck(p) \/ PostFails(p) \/ PostSucceeds(p) \/ PostCache(p)
            PROVE  UNCHANGED postChainCache
        BY <4>3 DEF SendToPost, PostCheck, PostFails, PostSucceeds, PostCache
      <4>4. ForwarderEnds \/ Wait \/ UNCHANGED vars => UNCHANGED postChainCache
        BY DEF ForwarderEnds, Wait, vars
      <4> QED
        BY <1>1, <2>2, <4>1, <4>2, <4>3, <4>4 DEF Next
    <3>2. ch = forwarder.chain /\ forwarder' = [forwarder EXCEPT !.pc = "post"]
      BY <1>1, <2>2, <3>1 DEF QueueForPost
    <3>3. forwarder'.pc = "post" /\ forwarder'.chain = ch
      BY <3>2 DEF IInv, TypeOK
    <3> QED
      BY <3>3 DEF Posting
  <2> QED
    BY <2>1, <2>2
<1>2. ASSUME NEW certs \in done', NEW cert \in certs PROVE InWork(cert)'
  <2>1. CASE certs \in done
    BY <1>2, <2>1, InWorkStays DEF KeptInv
  <2>2. CASE certs \notin done
    <3>1. PICK c \in Callers : MarkDone(c)
      <4>1. ASSUME NEW c \in Callers,
                   \/ QueueAllCertsInChain(c) \/ QueueChain(c) \/ IsPosted(c)
                   \/ \E w \in Fixers : SendToFix(c, w)
            PROVE  UNCHANGED done
        BY <4>1 DEF QueueAllCertsInChain, QueueChain, IsPosted, SendToFix
      <4>2. ASSUME NEW w \in Fixers, Fix(w) \/ SendChain(w) \/ FixerEnds(w)
            PROVE  UNCHANGED done
        BY <4>2 DEF Fix, SendChain, FixerEnds
      <4>3. ASSUME NEW p \in Posters,
                   SendToPost(p) \/ PostCheck(p) \/ PostFails(p) \/ PostSucceeds(p) \/ PostCache(p)
            PROVE  UNCHANGED done
        BY <4>3 DEF SendToPost, PostCheck, PostFails, PostSucceeds, PostCache, workers
      <4>4. QueueForPost \/ ForwarderEnds \/ Wait \/ UNCHANGED vars => UNCHANGED done
        BY DEF QueueForPost, ForwarderEnds, Wait, workers, vars
      <4> QED
        BY <1>2, <2>2, <4>1, <4>2, <4>3, <4>4 DEF Next
    <3>2. caller[c].pc = "set" /\ certs = ToSet(caller[c].todo)
      BY <1>2, <2>2, <3>1 DEF MarkDone, HashBag, IInv, CallerInv, Consistent
    <3>3. InWork(cert)
      BY <1>2, <3>2 DEF InWork
    <3> QED
      BY <3>3, InWorkStays
  <2> QED
    BY <2>1, <2>2
<1>3. ASSUME NEW cert \in QueuedCerts PROVE Remaining(cert)' \/ InWork(cert)'
  BY <1>3, RemainingStays, InWorkStays DEF KeptInv
<1>4. QueuedCerts' = QueuedCerts
  BY DEF QueuedCerts
<1> QED
  BY <1>1, <1>2, <1>3, <1>4, RememberedStep DEF KeptInv

-----------------------------------------------------------------------------
(* The theorems.                                                            *)

\* The inductive invariant holds: what each goroutine of FixAndLog holds, the
\* count of Logger.wg, the order in which Wait closes, and postChainCache.
THEOREM InvariantHolds == Spec => []IInv
  BY InitEstablishes, InvariantStep, PTL DEF Spec

\* Every variable of FixAndLog has its type.
THEOREM TypeCorrect == Spec => []TypeOK
<1>1. IInv => TypeOK
  BY DEF IInv
<1> QED
  BY <1>1, InvariantHolds, PTL

\* Wait closes a channel only after the last goroutine that sends on it: no
\* caller, Fixer worker or Logger worker ever sends on a closed channel.
THEOREM ClosesInOrder == Spec => []ClosedLast
<1>1. IInv => ClosedLast
  <2> SUFFICES ASSUME IInv PROVE ClosedLast
    OBVIOUS
  <2>1. \A w \in Fixers : fixer[w].pc = "done" => fixer[w].chains = <<>>
    BY DEF IInv, WorkerInv
  <2> QED
    BY <2>1 DEF IInv, WaitInv, ClosedLast
<1> QED
  BY <1>1, InvariantHolds, PTL

\* Logger.QueueChain and postChain send no chain to the log twice, whoever
\* queued it and whatever the hash does.
THEOREM NoChainPostedTwice == Spec => []PostedOnce
<1>1. IInv => PostedOnce
  BY DEF IInv, PostingInv, PostedOnce
<1> QED
  BY <1>1, InvariantHolds, PTL

\* KeptInv holds as well: what the caches name is dealt with or in work.
THEOREM CachesHold == Spec => []KeptInv
<1>1. IInv /\ KeptInv /\ [Next]_vars => (IInv /\ KeptInv)'
  BY InvariantStep, KeptStep
<1> QED
  BY <1>1, InitEstablishes, PTL DEF Spec

\* FixAndLog.done, Logger.postCertCache and Logger.postChainCache never lose a
\* certificate: when Wait returns, each that was queued, or one of the same
\* hash, has a chain in the log, or there was an error for it, and no chain was
\* posted twice.
THEOREM QueuedAreLogged == Spec => []EachLoggedOnce
<1>1. IInv /\ KeptInv => EachLoggedOnce
  <2> SUFFICES ASSUME IInv, KeptInv PROVE EachLoggedOnce
    OBVIOUS
  <2>1. PostedOnce
    BY DEF IInv, PostingInv, PostedOnce
  <2>2. ASSUME waiter = "returned", NEW cert \in QueuedCerts PROVE Resolved(cert)
    <3> USE DEF IInv
    <3>1. /\ \A c \in Callers : caller[c].pc = "idle" /\ caller[c].calls = <<>>
          /\ \A w \in Fixers : fixer[w].pc = "done"
          /\ forwarder.pc = "done" /\ \A p \in Posters : poster[p].pc = "idle"
      BY <2>2 DEF WaitInv, ToFixClosed, ChainsClosed, ErrorsClosed
    <3>2. ToSet(<<>>) = {}
      BY DEF ToSet
    <3>3. \A w \in Fixers : fixer[w].chains = <<>>
      BY <3>1 DEF WorkerInv
    <3>4. ~Remaining(cert)
      BY <3>1, <3>2 DEF Remaining, Rest
    <3>5. InWork(cert)
      BY <2>2, <3>4 DEF KeptInv
    <3> QED
      BY <3>1, <3>2, <3>3, <3>5 DEF InWork, Posting
  <2> QED
    BY <2>1, <2>2 DEF EachLoggedOnce, NothingLost, Resolved
<1> QED
  BY <1>1, InvariantHolds, CachesHold, PTL

\* Logger.IsPosted "tells the caller whether a chain for the given certificate
\* has already been successfully posted": so it does for a certificate whose
\* hash no other has.
THEOREM PostedAreLogged == Spec => []IsPostedUnique
<1>1. IInv /\ KeptInv => IsPostedUnique
  <2> SUFFICES ASSUME IInv, KeptInv,
                      NEW cert \in QueuedCerts, HashUnique(cert), Hash(cert) \in postCertCache
               PROVE  Logged(cert)
    BY DEF IsPostedUnique
  <2>1. PICK ch \in logged : Hash(ch[1]) = Hash(cert)
    BY DEF KeptInv
  <2>2. ch \in Seq(Certificates) /\ ch # <<>>
    BY DEF IInv, TypeOK, Chains
  <2>3. ch[1] \in Certificates
    BY <2>2, HeadAndTail
  <2> QED
    BY <2>1, <2>3 DEF HashUnique, Logged
<1> QED
  BY <1>1, InvariantHolds, CachesHold, PTL
=============================================================================
