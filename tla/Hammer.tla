------------------------------- MODULE Hammer -------------------------------
(***************************************************************************)
(* trillian/integration: HammerCTLog, which puts random operations to a    *)
(* log, keeps some of the SCTs and STHs it gets, and checks later answers  *)
(* against them.  An error it returns says that the log is wrong.          *)
(*                                                                         *)
(* The log is a CTFE on one tree: its reads are those of LogReads; adding  *)
(* and integrating are external, as in CTFrontend.  A leaf is [cert, ts].  *)
(***************************************************************************)
EXTENDS Integers, Sequences, FiniteSets, SequencesExt

\* The functions for precertificates are those for certificates on a poisoned
\* leaf with an issuer's hash: every action for one is for both.
Kinds == {"add-chain", "add-pre-chain"}
Entrypoints == Kinds \cup {"get-sth", "get-sth-consistency", "get-proof-by-hash", "get-entries", "get-roots",
                           "get-entry-and-proof"}
\* InvalidChance, as ct_hammer sets it.
Spoilable == Kinds \cup {"get-sth-consistency", "get-proof-by-hash", "get-entries"}

CONSTANTS
  Configs,           \* configurations [ignoreErrors, oversized, strict, mirror, parallel, bias, operations,
                     \* direct: a chain of the generator may be a leaf and the root that issued it],
                     \* with bounds maxFaults, of requests that fail on the way, and
                     \* maxForeign, of leaves that others add
  MinGetEntries, MaxGetEntries,
  MaxRetryDuration,
  MMD,
  SthCount, SctCount,
  InvalidStretch,
  MaxTime,           \* bound: the clock stops here
  MaxTree,           \* bound: leaves in the tree
  None

\* InvalidStretch is taken to lead out of any tree of the run, as its 1000000000
\* does.
ASSUME HammerAssumption ==
  /\ \A c \in Configs : c.operations \in Nat /\ c.parallel \in Nat /\ c.bias \subseteq Entrypoints
  /\ MinGetEntries \in Nat /\ MaxGetEntries \in 1 .. InvalidStretch
  /\ MaxRetryDuration \in Nat /\ MMD \in Nat /\ MaxTime \in Nat
  /\ SthCount \in Nat \ {0} /\ SctCount \in Nat \ {0}
  /\ InvalidStretch \in Nat /\ MaxTree \in Nat /\ MaxTree + 4 <= InvalidStretch
  /\ None \notin Int /\ None \notin {"in", "cons"} \X Nat \X Nat

VARIABLES
  now, queued, tree, \* the log: leaves it has given SCTs for, and its leaves
  honest,            \* whether it integrates them in time
  faults, foreign,
  cfg,
  count, pc, op, deadline,
  sth,               \* sizes of the last STHs, the latest first, or None
  pending,           \* leaves to be checked, the oldest first
  first,             \* for each kind of chain: the first, [cert, integrated], or None
  fresh,             \* number of certificates generated
  nextOp,
  adders,            \* the goroutines of addMultiple
  held               \* what an operation keeps between its two requests

log == <<now, queued, tree, honest, faults, foreign>>
hammerVars == <<log, cfg, count, pc, op, deadline, sth, pending, first, fresh, nextOp, adders, held>>

R == INSTANCE LogReads WITH MaxGetEntriesAllowed <- MaxGetEntries, MaxInt <- 4 * InvalidStretch,
       MaxSize <- 2 * InvalidStretch, align <- FALSE, byRange <- TRUE, answer <- None

\* newHammerState: nothing is added to a mirror.
Bias == IF cfg.mirror THEN cfg.bias \ Kinds ELSE cfg.bias

HammerInit ==
  /\ now = 0 /\ queued = {} /\ tree = <<>> /\ honest \in BOOLEAN /\ faults = 0 /\ foreign = 0
  /\ cfg \in Configs
  /\ count = 1 /\ pc = "choose" /\ op = None /\ deadline = 0
  /\ sth = [i \in 1 .. SthCount |-> None]
  /\ pending = <<>>
  /\ first = [k \in Kinds |-> None]
  /\ fresh = 0 /\ nextOp = <<>>
  /\ adders = <<>> /\ held = None

-----------------------------------------------------------------------------
(* The log *)

Leaves == queued \cup ToSet(tree)

\* A certificate that was added before keeps its timestamp.
LeafOf(cert) == IF \E l \in Leaves : l.cert = cert THEN CHOOSE l \in Leaves : l.cert = cert
                ELSE [cert |-> cert, ts |-> now]

\* An honest log has a leaf in its tree by the time its SCT promised.
Tick ==
  /\ now < MaxTime
  /\ honest => \A l \in queued : now < l.ts + MMD
  /\ now' = now + 1
  /\ UNCHANGED <<queued, tree, honest, faults, foreign>>

Integrate ==
  \E l \in queued :
    /\ Len(tree) < MaxTree
    /\ tree' = Append(tree, l)
    /\ queued' = queued \ {l}
    /\ UNCHANGED <<now, honest, faults, foreign>>

AddForeign ==
  /\ foreign < cfg.maxForeign
  /\ foreign' = foreign + 1
  /\ queued' = queued \cup {[cert |-> <<"foreign", foreign>>, ts |-> now]}
  /\ UNCHANGED <<now, tree, honest, faults>>

LogStep ==
  /\ pc # "done"
  /\ Tick \/ Integrate \/ AddForeign
  /\ UNCHANGED <<cfg, count, pc, op, deadline, sth, pending, first, fresh, nextOp, adders, held>>

\* A request fails on the way.
Fault == faults < cfg.maxFaults /\ faults' = faults + 1 /\ UNCHANGED <<now, queued, tree, honest, foreign>>

\* The log answers a read.
Answered == UNCHANGED log

-----------------------------------------------------------------------------
(* The loops of HammerCTLog and retryOneOp *)

\* The operation that ended the run with an error stays on record.
NextOperation(ok) ==
  /\ op' = IF ok THEN None ELSE op
  /\ deadline' = 0
  /\ count' = IF ok THEN count + 1 ELSE count
  /\ pc' = IF ~ok THEN "done" ELSE IF count + 1 < cfg.operations THEN "choose" ELSE "done"

\* chooseOp.  An operation that the last one asked for comes first, unless it
\* has no bias; then it is dropped, and any other is chosen.
ChooseOp ==
  /\ pc = "choose"
  /\ \E ep \in Bias, invalid \in BOOLEAN :
       LET wanted == nextOp # <<>> /\ Head(nextOp) \in Bias
       IN  /\ wanted => ep = Head(nextOp) /\ ~invalid
           /\ invalid => ep \in Spoilable
           /\ op' = [ep |-> ep, invalid |-> invalid]
  /\ nextOp' = IF nextOp = <<>> THEN <<>> ELSE Tail(nextOp)
  /\ deadline' = now + MaxRetryDuration
  /\ pc' = "perform"
  /\ UNCHANGED <<log, cfg, count, sth, pending, first, fresh, adders, held>>

\* Operations that are done, or skipped.
Succeed == NextOperation(TRUE)
Skip(ops) == NextOperation(TRUE) /\ nextOp' = nextOp \o ops

\* An operation returns an error: it ends the run, or is tried again.
Fail ==
  IF cfg.ignoreErrors /\ ~op.invalid /\ now <= deadline
  THEN pc' = "perform" /\ UNCHANGED <<count, op, deadline>>
  ELSE NextOperation(FALSE)

\* An invalid request must fail.
Refused(status) == IF status # "OK" THEN Succeed ELSE Fail

Performs(ep, invalid) == pc = "perform" /\ op = [ep |-> ep, invalid |-> invalid]
hammerData == <<cfg, sth, pending, first, fresh, adders>>

-----------------------------------------------------------------------------
(* Adding chains *)

\* addMultiple
AddMultiple ==
  \E kind \in Kinds, n \in 1 .. cfg.parallel :
    /\ Performs(kind, FALSE)
    /\ adders' = [i \in 1 .. n |-> [at |-> "chain", cert |-> None, leaf |-> None]]
    /\ pc' = "adding"
    /\ UNCHANGED <<log, cfg, count, op, deadline, sth, pending, first, fresh, nextOp, held>>

adderData == <<cfg, count, pc, op, deadline, sth, nextOp, held>>

\* getChain, getPreChain: a new chain, or the first again once it should be
\* integrated.
GetChain(i) ==
  /\ pc = "adding" /\ adders[i].at = "chain"
  /\ \/ /\ fresh' = fresh + 1
        /\ adders' = [adders EXCEPT ![i].at = "submit", ![i].cert = <<op.ep, fresh>>]
        /\ first' = IF first[op.ep] # None THEN first
                    ELSE [first EXCEPT ![op.ep] = [cert |-> <<op.ep, fresh>>, integrated |-> now + MMD]]
     \/ /\ first[op.ep] # None /\ now >= first[op.ep].integrated
        /\ adders' = [adders EXCEPT ![i].at = "submit", ![i].cert = first[op.ep].cert]
        /\ UNCHANGED <<first, fresh>>
  /\ UNCHANGED <<log, adderData, pending>>

\* AddChain, AddPreChain.  A failure may hit the request or the answer.
Submit(i) ==
  /\ pc = "adding" /\ adders[i].at = "submit"
  /\ LET leaf == LeafOf(adders[i].cert)
     IN  \/ /\ queued' = IF leaf \in Leaves THEN queued ELSE queued \cup {leaf}
            /\ \/ /\ adders' = [adders EXCEPT ![i].at = "append", ![i].leaf = leaf]
                  /\ UNCHANGED faults
               \/ /\ faults < cfg.maxFaults /\ faults' = faults + 1
                  /\ adders' = [adders EXCEPT ![i].at = "failed"]
            /\ UNCHANGED <<now, tree, honest, foreign>>
         \/ Fault /\ adders' = [adders EXCEPT ![i].at = "failed"]
  /\ UNCHANGED <<adderData, pending, first, fresh>>

CanAppend ==
  /\ Len(pending) < SctCount
  /\ pending # <<>> => now > Last(pending).ts + MMD \div SctCount

TryAppendPushingOut(i) ==
  /\ pc = "adding" /\ adders[i].at = "append"
  /\ pending' = Append(IF Len(pending) = SctCount THEN Tail(pending) ELSE pending, adders[i].leaf)
  /\ adders' = [adders EXCEPT ![i].at = "ended"]
  /\ UNCHANGED <<log, adderData, first, fresh>>

\* tryAppendCert
TryAppend(i) ==
  /\ pc = "adding" /\ adders[i].at = "append"
  /\ pending' = IF CanAppend THEN Append(pending, adders[i].leaf) ELSE pending
  /\ adders' = [adders EXCEPT ![i].at = "ended"]
  /\ UNCHANGED <<log, adderData, first, fresh>>

\* wg.Wait, and the first error.
AddDone ==
  /\ pc = "adding" /\ \A i \in DOMAIN adders : adders[i].at \in {"ended", "failed"}
  /\ IF \E i \in DOMAIN adders : adders[i].at = "failed" THEN Fail ELSE Succeed
  /\ adders' = <<>>
  /\ UNCHANGED <<log, cfg, sth, pending, first, fresh, nextOp, held>>

\* addChainInvalid, addPreChainInvalid: no chain, one of the other kind, one
\* whose leaf does not parse, or one without its second certificate.  A log
\* accepts none of these.
AddInvalid ==
  \E kind \in Kinds :
    /\ Performs(kind, TRUE)
    /\ Answered
    /\ Refused("BadRequest")
    /\ UNCHANGED <<hammerData, nextOp, held>>

\* NoChainToRoot, when the certificate dropped is the root itself, as it is for
\* some chains of CopyChainGenerator and for none of the synthetic ones.  The log
\* adds the leaf, and that is an error unless its answer is lost.
AddWithoutRoot ==
  \E kind \in Kinds :
    /\ Performs(kind, TRUE)
    /\ cfg.direct
    /\ LET leaf == LeafOf(<<kind, fresh>>)
       IN  queued' = IF leaf \in Leaves THEN queued ELSE queued \cup {leaf}
    /\ fresh' = fresh + 1
    /\ \/ Refused("OK") /\ UNCHANGED faults
       \/ faults < cfg.maxFaults /\ faults' = faults + 1 /\ Succeed
    /\ UNCHANGED <<now, tree, honest, foreign, cfg, sth, pending, first, adders, nextOp, held>>

-----------------------------------------------------------------------------
(* Reads *)

\* getSTH.  What it shifts along stays shifted if the request fails.
GetSTH ==
  /\ Performs("get-sth", FALSE)
  /\ \/ Answered /\ Succeed /\ sth' = <<Len(tree)>> \o SubSeq(sth, 1, SthCount - 1)
     \/ Fault /\ Fail /\ sth' = <<None>> \o SubSeq(sth, 1, SthCount - 1)
  /\ UNCHANGED <<cfg, pending, first, fresh, nextOp, adders, held>>

\* getRoots, and get-entry-and-proof, for which nothing is sent.
GetRoots ==
  /\ Performs("get-roots", FALSE) \/ Performs("get-entry-and-proof", FALSE)
  /\ \/ Answered /\ Succeed
     \/ op.ep = "get-roots" /\ Fault /\ Fail
  /\ UNCHANGED <<hammerData, nextOp, held>>

LastTreeSize == IF sth[1] = None THEN 0 ELSE sth[1]

\* chooseSTHs: what must come first if the earlier STH cannot be used.
NeededFirst(old, size) ==
  IF old = None THEN <<"get-sth">>
  ELSE IF old = 0 \/ old = size THEN <<"add-chain", "get-sth">>
  ELSE <<>>

\* getSTHConsistency, its first request, and the choice of an earlier size.
ChooseSTHs ==
  /\ Performs("get-sth-consistency", FALSE)
  /\ \/ Fault /\ Fail /\ UNCHANGED <<nextOp, held>>
     \/ /\ Answered
        /\ \E old \in ToSet(sth) :
             LET size == Len(tree)
                 need == NeededFirst(old, size)
             IN  CASE need = <<>> -> held' = [old |-> old, new |-> size] /\ pc' = "consistency"
                                       /\ UNCHANGED <<count, op, deadline, nextOp>>
                   [] need # <<>> /\ (cfg.strict \/ size < 2) -> Skip(need) /\ UNCHANGED held
                   [] OTHER -> /\ \E n \in 1 .. size : held' = [old |-> n, new |-> size]
                               /\ pc' = "consistency" /\ nextOp' = nextOp \o need
                               /\ UNCHANGED <<count, op, deadline>>
  /\ UNCHANGED hammerData

GetSTHConsistency ==
  /\ pc = "consistency"
  /\ \/ Fault /\ Fail
     \/ Answered /\ IF R!GetSTHConsistencyResult(held.old, held.new, Len(tree))
                         = R!Body(<<"cons", held.old, held.new>>) THEN Succeed ELSE Fail
  /\ held' = None
  /\ UNCHANGED <<hammerData, nextOp>>

\* getSTHConsistencyInvalid.  For inverted sizes an STH is asked for, which may
\* fail; that the invalid request fails, for whatever reason, is right.
ConsistencyInvalid ==
  /\ Performs("get-sth-consistency", TRUE)
  /\ LET beyond == LastTreeSize + InvalidStretch
         asks(m, n) == Refused(R!GetSTHConsistencyResult(m, n, Len(tree)).status)
     IN  \/ LastTreeSize = 0 /\ Answered /\ Skip(<<>>)
         \/ LastTreeSize # 0 /\ Fault /\ Fail /\ UNCHANGED nextOp
         \/ /\ LastTreeSize # 0 /\ Answered
            /\ \/ asks(beyond, beyond + 100) /\ UNCHANGED nextOp
               \/ asks(-3, -1) /\ UNCHANGED nextOp
               \/ \E old \in ToSet(sth) :
                    LET need == NeededFirst(old, Len(tree))
                    IN  IF need = <<>> THEN asks(Len(tree), old) /\ UNCHANGED nextOp ELSE Skip(need)
  /\ UNCHANGED <<hammerData, held>>

OldestAtMMD == IF pending # <<>> /\ now >= Head(pending).ts + MMD THEN Head(pending) ELSE None

\* oldestIfMMDPassed
OldestIfMMDPassed == IF pending # <<>> /\ now > Head(pending).ts + MMD THEN Head(pending) ELSE None

IndexOf(leaf) == IF leaf \in ToSet(tree) THEN (CHOOSE i \in DOMAIN tree : tree[i] = leaf) - 1 ELSE Len(tree)

\* getProofByHash, its first request.
ProofSTH ==
  /\ Performs("get-proof-by-hash", FALSE)
  /\ LET oldest == OldestIfMMDPassed
     IN  \/ oldest = None /\ Answered /\ Succeed /\ UNCHANGED held
         \/ oldest # None /\ Answered /\ held' = [leaf |-> oldest, size |-> Len(tree)] /\ pc' = "proof"
              /\ UNCHANGED <<count, op, deadline>>
         \/ oldest # None /\ Fault /\ Fail /\ UNCHANGED held
  /\ UNCHANGED <<hammerData, nextOp>>

\* ... and its second, and dropOldest.
GetProofByHash ==
  /\ pc = "proof"
  /\ \/ Fault /\ Fail /\ UNCHANGED pending
     \/ /\ Answered
        /\ IF R!GetProofByHashResult(IndexOf(held.leaf), held.size, Len(tree))
                = R!Body(<<"in", IndexOf(held.leaf), held.size>>)
           THEN Succeed /\ pending' = Tail(pending)
           ELSE Fail /\ UNCHANGED pending
  /\ held' = None
  /\ UNCHANGED <<cfg, sth, first, fresh, nextOp, adders>>

\* getProofByHashInvalid: a hash that is no hash or no base64, a tree size
\* beyond the tree, a negative one.
ProofInvalid ==
  /\ Performs("get-proof-by-hash", TRUE)
  /\ Answered
  /\ LET asks(leaf, n) == Refused(R!GetProofByHashResult(IndexOf(leaf), n, Len(tree)).status)
     IN  \/ LastTreeSize = 0 /\ Succeed
         \/ LastTreeSize # 0 /\ OldestIfMMDPassed = None /\ Succeed
         \/ LastTreeSize # 0 /\ Refused("BadRequest")
         \/ LastTreeSize # 0 /\ OldestIfMMDPassed # None
              /\ \E n \in {LastTreeSize + InvalidStretch, -1} : asks(OldestIfMMDPassed, n)
  /\ UNCHANGED <<hammerData, nextOp, held>>

EntriesOf(start, end) ==
  R!GetEntriesResult(start, end, Len(tree),
                     [i \in 1 .. (IF end < Len(tree) THEN end ELSE Len(tree) - 1) - start + 1 |-> start + i - 1])

\* getEntries
GetEntries ==
  /\ Performs("get-entries", FALSE)
  /\ IF LastTreeSize = 0
     THEN /\ Answered
          /\ Skip(IF sth[1] # None /\ pending = <<>> THEN <<"add-chain", "get-sth">> ELSE <<"get-sth">>)
     ELSE /\ UNCHANGED nextOp
          /\ \/ Fault /\ Fail
             \/ /\ Answered
                /\ \E start \in 0 .. LastTreeSize - 1, n \in MinGetEntries .. MaxGetEntries - 1 :
                     LET end == IF ~cfg.oversized /\ start + n >= LastTreeSize THEN LastTreeSize - 1 ELSE start + n
                     IN  IF EntriesOf(start, end).status = "OK" THEN Succeed ELSE Fail
  /\ UNCHANGED <<hammerData, held>>

\* getEntriesInvalid.  The client itself refuses an inverted range.
EntriesInvalid ==
  /\ Performs("get-entries", TRUE)
  /\ Answered
  /\ IF LastTreeSize = 0 THEN Succeed
     ELSE \/ Refused(EntriesOf(LastTreeSize + InvalidStretch - 4, LastTreeSize + InvalidStretch).status)
          \/ Refused(EntriesOf(-2, 10).status)
          \/ Refused("BadRequest")
  /\ UNCHANGED <<hammerData, nextOp, held>>

-----------------------------------------------------------------------------
Adder(i) == GetChain(i) \/ Submit(i) \/ TryAppend(i)

HammerNext ==
  \/ LogStep
  \/ ChooseOp
  \/ AddMultiple \/ AddDone \/ AddInvalid \/ AddWithoutRoot
  \/ \E i \in DOMAIN adders : Adder(i)
  \/ GetSTH \/ GetRoots \/ GetEntries \/ EntriesInvalid
  \/ ChooseSTHs \/ GetSTHConsistency \/ ConsistencyInvalid
  \/ ProofSTH \/ GetProofByHash \/ ProofInvalid

HammerSpec == HammerInit /\ [][HammerNext]_hammerVars

-----------------------------------------------------------------------------
(* Properties, and the invariant that implies them *)

\* The hammer accuses no log that keeps its promises: against one that
\* integrates within the MMD, a run ends early only after a request was lost,
\* however adds, duplicates and integration fall between its own requests, or
\* over an invalid add whose chain may have lost nothing but its root.
NoFalseAlarm ==
  pc = "done" /\ count < cfg.operations /\ honest =>
    faults > 0 \/ (cfg.direct /\ op.invalid /\ op.ep \in Kinds)

\* No SCT is let off: one that is kept to be checked stays pending until its
\* leaf is in the tree.
KeptUntilProved == [][\A l \in ToSet(pending) \ ToSet(pending') : l \in ToSet(tree)]_hammerVars

Leaf == [cert : (Kinds \cup {"foreign"}) \X Nat, ts : Nat]
AdderState == [at : {"chain", "submit", "append", "ended", "failed"},
               cert : {None} \cup (Kinds \X Nat), leaf : {None} \cup Leaf]

HammerTypes ==
  /\ now \in Nat /\ faults \in Nat /\ foreign \in Nat /\ fresh \in Nat /\ count \in Nat
  /\ cfg \in Configs
  /\ tree \in Seq(Leaf) /\ queued \subseteq Leaf /\ pending \in Seq(Leaf)
  /\ first \in [Kinds -> {None} \cup [cert : Kinds \X Nat, integrated : Nat]]
  /\ adders \in Seq(AdderState)
  /\ sth \in Seq({None} \cup Nat) /\ Len(sth) = SthCount

\* A leaf is integrated once, and by an honest log in time.
LogInv ==
  /\ Len(tree) <= MaxTree
  /\ IsInjective(tree)
  /\ queued \cap ToSet(tree) = {}
  /\ \A l \in Leaves : l.cert[1] = "foreign" => l.cert[2] < foreign
  /\ honest => \A l \in queued : now <= l.ts + MMD

\* What is kept of the log's answers is about leaves and sizes that it has.
KeptInv ==
  /\ ToSet(pending) \subseteq Leaves
  /\ \A i \in DOMAIN sth : sth[i] # None => sth[i] <= Len(tree)

AddersInv ==
  /\ pc = "adding" => op.ep \in Kinds
  /\ \A i \in DOMAIN adders :
       /\ adders[i].at = "submit" => adders[i].cert \in Kinds \X Nat
       /\ adders[i].at = "append" => adders[i].leaf \in Leaves
       /\ adders[i].at = "failed" => faults > 0

\* Between the two requests of an operation, what it holds stays good: sizes
\* that the tree reached, and a leaf that an honest log had in the tree.
HeldInv ==
  /\ pc = "consistency" => \E m, n \in 1 .. Len(tree) : m <= n /\ held = [old |-> m, new |-> n]
  /\ pc = "proof" =>
       /\ pending # <<>>
       /\ \E n \in 0 .. Len(tree) :
            /\ held = [leaf |-> Head(pending), size |-> n]
            /\ honest => \E i \in 1 .. n : tree[i] = Head(pending)

HammerInv == HammerTypes /\ LogInv /\ KeptInv /\ AddersInv /\ HeldInv /\ NoFalseAlarm
=============================================================================
