----------------------------- MODULE FixAndLog -----------------------------
(***************************************************************************)
(* fixchain: FixAndLog.  Callers queue chains; the workers of a Fixer look *)
(* for chains to the log's roots; one goroutine hands those to a Logger,   *)
(* whose workers post them.  Wait shuts the pipeline down from its front.  *)
(*                                                                         *)
(* Channels are unbuffered: a send is a step with the receiver.  The       *)
(* reader of the errors channel is always ready.  What the search for      *)
(* chains finds is FixChain's; here certificates are only names.  Counters *)
(* that are only printed are left out.                                     *)
(***************************************************************************)
EXTENDS Integers, Sequences, FiniteSets, SequencesExt

CONSTANTS
  Callers, Fixers, Posters,
  Certificates,   \* by name
  Input,          \* Input[c]: the calls of c, [all |-> QueueAllCertsInChain?, chain]
  URLs,           \* of issuers, in certificates
  Refused,        \* chains the log may refuse
  Hash(_),        \* hash of a certificate
  FixResult,      \* what FixChain finds for a certificate and its chain while some
                  \* URLs are out of reach: [chains, errors, fetched]
  None

Chains == Seq(Certificates) \ {<<>>}
AllCalls == UNION {ToSet(Input[c]) : c \in Callers}

\* The certificates that a call asks to have logged.
Wanted(call) == IF call.all THEN ToSet(call.chain) ELSE {call.chain[1]}
QueuedCerts == UNION {Wanted(call) : call \in AllCalls}

\* newDedupedChain, and hashBag of its result: the order does not matter.
NewDedupedChain(chain) ==
  FoldLeft(LAMBDA d, c : IF c \in ToSet(d) THEN d ELSE Append(d, c), <<>>, chain)

HashBag(dchain) == ToSet(dchain)

\* Nobody queues an empty chain; a chain that is found begins with the
\* certificate, and without chains there is an error that says so.
ASSUME FixAndLogAssumption ==
  /\ IsFiniteSet(Posters)
  /\ Input \in [Callers -> Seq([all : BOOLEAN, chain : Chains])]
  /\ \A call \in AllCalls, down \in SUBSET URLs : \A cert \in Wanted(call) :
       LET fix == FixResult[<<cert, NewDedupedChain(call.chain), down>>]
       IN  /\ fix.chains \in Seq({ch \in Chains : ch[1] = cert})
           /\ fix.chains = <<>> => \E e \in ToSet(fix.errors) : e[1] = "FixFailed" /\ e[2] = cert

VARIABLES
  caller,         \* [pc, calls, todo, dchain]
  fixer,          \* [pc, cert, dchain, chains]
  forwarder,      \* [pc, chain]
  poster,         \* [pc, chain]
  waiter,         \* where Wait is
  done,           \* FixAndLog.done
  postCertCache, postChainCache, wg,      \* Logger
  urlCache,       \* URLs in Fixer.cache
  posted,         \* how often each chain was sent to the log
  logged,         \* chains the log has accepted
  reported        \* what came out of the errors channel

vars == <<caller, fixer, forwarder, poster, waiter, done, postCertCache, postChainCache, wg,
          urlCache, posted, logged, reported>>

\* Wait goes on to these, in order; a channel is closed on the way.
ToFixClosed  == waiter # "callers"
ChainsClosed == waiter \notin {"callers", "fixers"}
ErrorsClosed == waiter = "returned"

IdleFixer == [pc |-> "idle", cert |-> None, dchain |-> <<>>, chains |-> <<>>]
Idle == [pc |-> "idle", chain |-> <<>>]

Init ==
  /\ caller = [c \in Callers |-> [pc |-> "idle", calls |-> Input[c], todo |-> <<>>, dchain |-> <<>>]]
  /\ fixer = [w \in Fixers |-> IdleFixer]
  /\ forwarder = Idle
  /\ poster = [p \in Posters |-> Idle]
  /\ waiter = "callers"
  /\ done = {} /\ postCertCache = {} /\ postChainCache = {} /\ wg = 0
  /\ urlCache = {} /\ posted = <<>> /\ logged = {} /\ reported = {}

-----------------------------------------------------------------------------
(* fix_and_log.go: the callers.                                             *)

pipeline == <<fixer, forwarder, poster, waiter, postCertCache, postChainCache, wg, urlCache,
              posted, logged, reported>>

Call(c) == Head(caller[c].calls)
Returned(c) == [caller[c] EXCEPT !.pc = "idle", !.calls = Tail(@), !.todo = <<>>, !.dchain = <<>>]

\* QueueAllCertsInChain: nothing to do for certificates queued together before.
QueueAllCertsInChain(c) ==
  /\ caller[c].pc = "idle" /\ caller[c].calls # <<>> /\ Call(c).all
  /\ LET dchain == NewDedupedChain(Call(c).chain)
     IN  caller' = [caller EXCEPT ![c] =
           IF HashBag(dchain) \in done THEN Returned(c)
           ELSE [@ EXCEPT !.pc = "set", !.dchain = dchain, !.todo = dchain]]
  /\ UNCHANGED <<pipeline, done>>

\* The check and the mark take the lock separately.
MarkDone(c) ==
  /\ caller[c].pc = "set"
  /\ done' = done \cup {HashBag(caller[c].dchain)}
  /\ caller' = [caller EXCEPT ![c].pc = "certs"]
  /\ UNCHANGED pipeline

\* QueueChain: only the first certificate of the chain is of interest.
QueueChain(c) ==
  /\ caller[c].pc = "idle" /\ caller[c].calls # <<>> /\ ~Call(c).all
  /\ caller' = [caller EXCEPT ![c].pc = "certs", ![c].todo = <<Head(Call(c).chain)>>,
                              ![c].dchain = NewDedupedChain(Call(c).chain)]
  /\ UNCHANGED <<pipeline, done>>

NextCert(c) == IF Len(caller[c].todo) = 1 THEN Returned(c)
               ELSE [caller[c] EXCEPT !.pc = "certs", !.todo = Tail(@)]

\* IsPosted, for the next certificate.
IsPosted(c) ==
  /\ caller[c].pc = "certs"
  /\ caller' = [caller EXCEPT ![c] = IF Hash(Head(@.todo)) \in postCertCache THEN NextCert(c)
                                     ELSE [@ EXCEPT !.pc = "send"]]
  /\ UNCHANGED <<pipeline, done>>

\* Fixer.QueueChain.
SendToFix(c, w) ==
  /\ caller[c].pc = "send" /\ fixer[w].pc = "idle"
  /\ fixer' = [fixer EXCEPT ![w].pc = "fix", ![w].cert = Head(caller[c].todo),
                            ![w].dchain = caller[c].dchain]
  /\ caller' = [caller EXCEPT ![c] = NextCert(c)]
  /\ UNCHANGED <<forwarder, poster, waiter, done, postCertCache, postChainCache, wg, urlCache,
                 posted, logged, reported>>

-----------------------------------------------------------------------------
(* fixer.go: the workers.                                                   *)

logger == <<poster, postCertCache, wg, posted, logged>>

\* What is left of a worker that has these chains to send.
Sending(chains) == [IdleFixer EXCEPT !.pc = IF chains = <<>> THEN "idle" ELSE "send", !.chains = chains]

\* handleChain, during which any of the URLs that are not in the cache may be
\* out of reach, and its errors.
Fix(w) ==
  /\ fixer[w].pc = "fix"
  /\ \E down \in SUBSET (URLs \ urlCache) :
       LET fix == FixResult[<<fixer[w].cert, fixer[w].dchain, down>>]
       IN  /\ fixer' = [fixer EXCEPT ![w] = Sending(fix.chains)]
           /\ urlCache' = urlCache \cup fix.fetched
           /\ reported' = reported \cup ToSet(fix.errors)
  /\ UNCHANGED <<logger, caller, forwarder, waiter, done, postChainCache>>

SendChain(w) ==
  /\ fixer[w].pc = "send" /\ forwarder.pc = "idle"
  /\ forwarder' = [pc |-> "queue", chain |-> Head(fixer[w].chains)]
  /\ fixer' = [fixer EXCEPT ![w] = Sending(Tail(@.chains))]
  /\ UNCHANGED <<logger, caller, waiter, done, postChainCache, urlCache, reported>>

FixerEnds(w) ==
  /\ fixer[w].pc = "idle" /\ ToFixClosed
  /\ fixer' = [fixer EXCEPT ![w].pc = "done"]
  /\ UNCHANGED <<logger, caller, forwarder, waiter, done, postChainCache, urlCache, reported>>

-----------------------------------------------------------------------------
(* logger.go: Logger.QueueChain, called by one goroutine, and the workers.  *)

workers == <<caller, fixer, waiter, done, urlCache>>

\* A slip: a chain is not remembered before it is posted.
QueueForPostAny ==
  /\ forwarder.pc = "queue"
  /\ LET skip == Hash(forwarder.chain[1]) \in postCertCache
     IN  /\ forwarder' = IF skip THEN Idle ELSE [forwarder EXCEPT !.pc = "post"]
         /\ wg' = IF skip THEN wg ELSE wg + 1
  /\ UNCHANGED <<workers, poster, postCertCache, postChainCache, posted, logged, reported>>

\* Not if the log has a chain for the certificate, so far as is known yet, and
\* not if the chain was queued before; otherwise postToLog.
QueueForPost ==
  /\ forwarder.pc = "queue"
  /\ LET inLog == Hash(forwarder.chain[1]) \in postCertCache
         skip == inLog \/ forwarder.chain \in postChainCache
     IN  /\ forwarder' = IF skip THEN Idle ELSE [forwarder EXCEPT !.pc = "post"]
         /\ postChainCache' = IF inLog THEN postChainCache ELSE postChainCache \cup {forwarder.chain}
         /\ wg' = IF skip THEN wg ELSE wg + 1
  /\ UNCHANGED <<workers, poster, postCertCache, posted, logged, reported>>

SendToPost(p) ==
  /\ forwarder.pc = "post" /\ poster[p].pc = "idle"
  /\ poster' = [poster EXCEPT ![p] = [pc |-> "check", chain |-> forwarder.chain]]
  /\ forwarder' = Idle
  /\ UNCHANGED <<workers, postCertCache, postChainCache, wg, posted, logged, reported>>

ForwarderEnds ==
  /\ forwarder.pc = "idle" /\ ChainsClosed
  /\ forwarder' = [forwarder EXCEPT !.pc = "done"]
  /\ UNCHANGED <<workers, logger, postChainCache, reported>>

\* A slip: the early return skips wg.Done.
PostCheckNoDone(p) ==
  /\ poster[p].pc = "check"
  /\ poster' = [poster EXCEPT ![p] = IF Hash(@.chain[1]) \in postCertCache THEN Idle
                                     ELSE [@ EXCEPT !.pc = "add"]]
  /\ UNCHANGED <<workers, forwarder, postCertCache, postChainCache, wg, posted, logged, reported>>

\* postChain: the check for the certificate again.
PostCheck(p) ==
  /\ poster[p].pc = "check"
  /\ LET known == Hash(poster[p].chain[1]) \in postCertCache
     IN  /\ poster' = [poster EXCEPT ![p] = IF known THEN Idle ELSE [@ EXCEPT !.pc = "add"]]
         /\ wg' = IF known THEN wg - 1 ELSE wg
  /\ UNCHANGED <<workers, forwarder, postCertCache, postChainCache, posted, logged, reported>>

Sent(chain) == [ch \in DOMAIN posted \cup {chain} |->
                  (IF ch \in DOMAIN posted THEN posted[ch] ELSE 0) + IF ch = chain THEN 1 ELSE 0]

\* AddChain, when the limiter lets it: it fails,
PostFails(p) ==
  /\ poster[p].pc = "add" /\ poster[p].chain \in Refused
  /\ posted' = Sent(poster[p].chain)
  /\ reported' = reported \cup {<<"LogPostFailed", poster[p].chain[1], poster[p].chain>>}
  /\ poster' = [poster EXCEPT ![p] = Idle]
  /\ wg' = wg - 1
  /\ UNCHANGED <<workers, forwarder, postCertCache, postChainCache, logged>>

\* or the log has it.
PostSucceeds(p) ==
  /\ poster[p].pc = "add"
  /\ posted' = Sent(poster[p].chain)
  /\ logged' = logged \cup {poster[p].chain}
  /\ poster' = [poster EXCEPT ![p].pc = "cache"]
  /\ UNCHANGED <<workers, forwarder, postCertCache, postChainCache, wg, reported>>

PostCache(p) ==
  /\ poster[p].pc = "cache"
  /\ postCertCache' = postCertCache \cup {Hash(poster[p].chain[1])}
  /\ poster' = [poster EXCEPT ![p] = Idle]
  /\ wg' = wg - 1
  /\ UNCHANGED <<workers, forwarder, postChainCache, posted, logged, reported>>

-----------------------------------------------------------------------------
\* A slip: the chains channel is closed before the Fixer's workers have ended.
WaitClosesEarly ==
  /\ \/ /\ waiter = "callers"
        /\ \A c \in Callers : caller[c].pc = "idle" /\ caller[c].calls = <<>>
        /\ waiter' = "forwarder"
     \/ waiter = "forwarder" /\ forwarder.pc = "done" /\ waiter' = "logger"
     \/ waiter = "logger" /\ wg = 0 /\ waiter' = "returned"
  /\ UNCHANGED <<logger, caller, fixer, forwarder, done, postChainCache, urlCache, reported>>

\* Wait, called when the callers are done, and after it close(errors).
Wait ==
  /\ \/ /\ waiter = "callers"
        /\ \A c \in Callers : caller[c].pc = "idle" /\ caller[c].calls = <<>>
        /\ waiter' = "fixers"
     \/ waiter = "fixers" /\ (\A w \in Fixers : fixer[w].pc = "done") /\ waiter' = "forwarder"
     \/ waiter = "forwarder" /\ forwarder.pc = "done" /\ waiter' = "logger"
     \/ waiter = "logger" /\ wg = 0 /\ waiter' = "returned"
  /\ UNCHANGED <<logger, caller, fixer, forwarder, done, postChainCache, urlCache, reported>>

Next ==
  \/ \E c \in Callers : \/ QueueAllCertsInChain(c) \/ MarkDone(c) \/ QueueChain(c) \/ IsPosted(c)
                        \/ \E w \in Fixers : SendToFix(c, w)
  \/ \E w \in Fixers : Fix(w) \/ SendChain(w) \/ FixerEnds(w)
  \/ QueueForPost \/ ForwarderEnds
  \/ \E p \in Posters : \/ SendToPost(p) \/ PostCheck(p) \/ PostFails(p) \/ PostSucceeds(p)
                        \/ PostCache(p)
  \/ Wait

\* Every goroutine that can go on does; the log and the web answer.
Spec == Init /\ [][Next]_vars /\ WF_vars(Next)

-----------------------------------------------------------------------------
\* When Wait has returned, each certificate that was queued has a chain in the
\* log, or an error was reported for it: the caches of chains done, certificates
\* posted and chains tried lose none, but for one with the hash of another, which
\* goes by what became of that.
NothingLost ==
  waiter = "returned" =>
    \A cert \in QueuedCerts :
      \/ \E ch \in logged : Hash(ch[1]) = Hash(cert)
      \/ \E e \in reported : e[1] \in {"FixFailed", "LogPostFailed"} /\ e[2] = cert

\* No chain is sent to the log twice, whoever queued it.
PostedOnce == \A ch \in DOMAIN posted : posted[ch] = 1

\* QueueAllCertsInChain, QueueChain and Wait: every certificate queued is dealt
\* with, and none of its chains is posted twice.
EachLoggedOnce == NothingLost /\ PostedOnce

\* Nobody can still send on a channel once it is closed.
ClosedLast ==
  /\ ToFixClosed => \A c \in Callers : caller[c].pc = "idle"
  /\ ChainsClosed => \A w \in Fixers : fixer[w].chains = <<>> /\ fixer[w].pc = "done"
  /\ ErrorsClosed => \A p \in Posters : poster[p].pc = "idle"

\* Wait returns, with what was queued dealt with.
WaitReturns == <>(waiter = "returned")

-----------------------------------------------------------------------------
(* IsPosted "tells the caller whether a chain for the given certificate has *)
(* already been successfully posted".                                       *)

HashUnique(cert) == \A m \in Certificates : Hash(m) = Hash(cert) => m = cert
Logged(cert) == \E ch \in logged : ch[1] = cert

\* That is so of a certificate whose hash no other has,
IsPostedUnique ==
  \A cert \in QueuedCerts : HashUnique(cert) /\ Hash(cert) \in postCertCache => Logged(cert)

\* and the comment, which says it of all, is wrong.
IsPostedTrue == \A cert \in QueuedCerts : Hash(cert) \in postCertCache => Logged(cert)
=============================================================================
