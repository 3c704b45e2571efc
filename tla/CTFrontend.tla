----------------------------- MODULE CTFrontend -----------------------------
(***************************************************************************)
(* trillian/ctfe, the endpoints with state behind them: add-chain,         *)
(* add-pre-chain and get-sth.  Several stateless front ends serve one log  *)
(* that a Trillian back end stores; each request runs in a goroutine of    *)
(* its own, and its RPCs and the signature cache of its front end are the  *)
(* points where it meets the others.                                       *)
(*                                                                         *)
(* A Merkle leaf is a record [cert, etype, timestamp]; an SCT is a         *)
(* signature over such a leaf and is named by it.  A root is [size, nanos],*)
(* its hash being determined by the first size entries of the tree.  An    *)
(* STH is [size, timestamp, sig], where sig is what was signed.            *)
(***************************************************************************)
EXTENDS Integers, Sequences, FiniteSets

CONSTANTS
  Certs,          \* leaves of the chains that ValidateChain accepts
  Precerts,       \* the ones that carry the poison extension
  Frontends,      \* ct_server processes
  Requests,       \* goroutines that serve requests
  NanosPerMilli,  \* resolution of Trillian's clock over that of RFC 6962
  MaxNanos,       \* bound: last instant considered
  Lag             \* bound: how many roots a Trillian replica may be behind

ASSUME CertsAssumption == Precerts \subseteq Certs
ASSUME ClockAssumption == NanosPerMilli \in Nat \ {0} /\ MaxNanos \in Nat /\ Lag \in Nat

VARIABLES
  mode,    \* "log" or "mirror" (LogConfig.IsMirror)
  now,     \* the time, in nanoseconds
  leaves,  \* the leaves Trillian has stored
  tree,    \* the sequenced ones
  roots,   \* the roots its replicas show, the newest one last
  cache,   \* per front end: the one entry of its SignatureCache
  req,     \* per goroutine: where it is, and its local variables
  scts     \* SCTs signed so far

vars == <<mode, now, leaves, tree, roots, cache, req, scts>>

Idle == [pc |-> "idle"]
NoEntry == [input |-> <<>>, sig |-> <<>>]

EntryType(c) == IF c \in Precerts THEN "precert" ELSE "x509"
MerkleLeaf == [cert : Certs, etype : {"x509", "precert"}, timestamp : Nat]
Root == [size : Nat, nanos : Nat]
STH == [size : Nat, timestamp : Nat, sig : Nat \X Nat]

Request ==
  {Idle}
  \cup [pc : {"queue", "sct"}, fe : Frontends, leaf : MerkleLeaf]
  \cup [pc : {"root"}, fe : Frontends, root : Root]
  \cup [pc : {"signed"}, fe : Frontends, sth : STH]
  \cup [pc : {"reply"}, sth : STH]

TypeOK ==
  /\ mode \in {"log", "mirror"}
  /\ now \in 0 .. MaxNanos
  /\ leaves \subseteq MerkleLeaf
  /\ tree \in Seq(MerkleLeaf)
  /\ roots \in Seq(Root)
  /\ cache \in [Frontends -> {NoEntry} \cup [input : Nat \X Nat, sig : Nat \X Nat]]
  /\ req \in [Requests -> Request]
  /\ scts \subseteq MerkleLeaf

Init ==
  /\ mode \in {"log", "mirror"}
  /\ now = 0
  /\ leaves = {}
  /\ tree = <<>>
  /\ roots = <<[size |-> 0, nanos |-> 0]>>
  /\ cache = [f \in Frontends |-> NoEntry]
  /\ req = [r \in Requests |-> Idle]
  /\ scts = {}

-----------------------------------------------------------------------------
(* Time.  SCTs and STHs carry milliseconds, cut off.                        *)

Millis(nanos) == nanos \div NanosPerMilli

Tick ==
  /\ now < MaxNanos
  /\ now' = now + 1
  /\ UNCHANGED <<mode, leaves, tree, roots, cache, req, scts>>

-----------------------------------------------------------------------------
(* add-chain and add-pre-chain.                                             *)

\* verifyAddChain: the leaf is of the type that the endpoint is for.
\* Requests that fail here are answered 400 and leave no trace.
VerifyAddChain(c, etype) == etype = EntryType(c)

\* LeafIdentityHash covers the certificate only, not its timestamp.
SameIdentity(a, b) == a.cert = b.cert

\* addChainInternal up to the RPC.  Mirrors do not have these endpoints.
AddChain(r, f, c, etype) ==
  /\ mode = "log"
  /\ req[r] = Idle
  /\ VerifyAddChain(c, etype)
  /\ req' = [req EXCEPT ![r] =
       [pc |-> "queue", fe |-> f,
        leaf |-> [cert |-> c, etype |-> etype, timestamp |-> Millis(now)]]]
  /\ UNCHANGED <<mode, now, leaves, tree, roots, cache, scts>>

\* A slip: the SCT will be for the leaf that was sent, not the returned one.
QueueLeavesKeepingOwn(r) ==
  /\ req[r].pc = "queue"
  /\ leaves' = IF \E l \in leaves : SameIdentity(l, req[r].leaf)
               THEN leaves ELSE leaves \cup {req[r].leaf}
  /\ req' = [req EXCEPT ![r].pc = "sct"]
  /\ UNCHANGED <<mode, now, tree, roots, cache, scts>>

\* Trillian's answer to QueueLeaves: the stored leaf of this identity, if there
\* is one, else the new leaf, now stored.
QueueLeaves(r) ==
  /\ req[r].pc = "queue"
  /\ LET mine == req[r].leaf
         same == {l \in leaves : SameIdentity(l, mine)}
     IN  \E l \in IF same = {} THEN {mine} ELSE same :
           /\ leaves' = leaves \cup {l}
           /\ req' = [req EXCEPT ![r] = [pc |-> "sct", fe |-> req[r].fe, leaf |-> l]]
  /\ UNCHANGED <<mode, now, tree, roots, cache, scts>>

\* A slip: an error of the RPC is logged and forgotten.
QueueLeavesErrorIgnored(r) ==
  /\ req[r].pc = "queue"
  /\ req' = [req EXCEPT ![r].pc = "sct"]
  /\ UNCHANGED <<mode, now, leaves, tree, roots, cache, scts>>

\* The RPC fails, before or after Trillian has stored the leaf; so does the
\* request, without an SCT.
QueueLeavesFails(r) ==
  /\ req[r].pc = "queue"
  /\ \/ UNCHANGED leaves
     \/ /\ ~\E l \in leaves : SameIdentity(l, req[r].leaf)
        /\ leaves' = leaves \cup {req[r].leaf}
  /\ req' = [req EXCEPT ![r] = Idle]
  /\ UNCHANGED <<mode, now, tree, roots, cache, scts>>

\* buildV1SCT over the returned leaf.
IssueSCT(r) ==
  /\ req[r].pc = "sct"
  /\ scts' = scts \cup {req[r].leaf}
  /\ req' = [req EXCEPT ![r] = Idle]
  /\ UNCHANGED <<mode, now, leaves, tree, roots, cache>>

\* The response has the wrong number of leaves or does not parse, or signing
\* fails: 500.
AddChainFails(r) ==
  /\ req[r].pc = "sct"
  /\ req' = [req EXCEPT ![r] = Idle]
  /\ UNCHANGED <<mode, now, leaves, tree, roots, cache, scts>>

-----------------------------------------------------------------------------
(* get-sth.                                                                 *)

\* getSignedLogRoot, answered by a replica that may be behind.
GetSignedLogRoot(r, f) ==
  /\ req[r] = Idle
  /\ \E i \in 1 .. Len(roots) :
       req' = [req EXCEPT ![r] = [pc |-> "root", fe |-> f, root |-> roots[i]]]
  /\ UNCHANGED <<mode, now, leaves, tree, roots, cache, scts>>

\* SerializeSTHSignatureInput of the tree head built from a root.
STHInput(root) == <<root.size, Millis(root.nanos)>>

\* A slip: what is in the cache is taken if it is of the same size.
CacheHitSameSize(f, input) == cache[f] # NoEntry /\ cache[f].input[1] = input[1]

\* GetSignature.
CacheHit(f, input) == cache[f].input = input

\* LogSTHGetter.GetSTH, the signature being in the cache.
SignFromCache(r) ==
  /\ mode = "log"
  /\ req[r].pc = "root"
  /\ LET input == STHInput(req[r].root) IN
       /\ CacheHit(req[r].fe, input)
       /\ req' = [req EXCEPT ![r] =
            [pc |-> "reply", sth |-> [size |-> input[1], timestamp |-> input[2],
                                      sig |-> cache[req[r].fe].sig]]]
  /\ UNCHANGED <<mode, now, leaves, tree, roots, cache, scts>>

\* ... not being there: a new signature, made without the cache's lock.
Sign(r) ==
  /\ mode = "log"
  /\ req[r].pc = "root"
  /\ LET input == STHInput(req[r].root) IN
       /\ ~CacheHit(req[r].fe, input)
       /\ req' = [req EXCEPT ![r] =
            [pc |-> "signed", fe |-> req[r].fe,
             sth |-> [size |-> input[1], timestamp |-> input[2], sig |-> input]]]
  /\ UNCHANGED <<mode, now, leaves, tree, roots, cache, scts>>

\* SetSignature, then the response.
SetSignature(r) ==
  /\ req[r].pc = "signed"
  /\ LET sth == req[r].sth IN
       /\ cache' = [cache EXCEPT ![req[r].fe] =
                      [input |-> <<sth.size, sth.timestamp>>, sig |-> sth.sig]]
       /\ req' = [req EXCEPT ![r] = [pc |-> "reply", sth |-> sth]]
  /\ UNCHANGED <<mode, now, leaves, tree, roots, scts>>

\* GetMirrorSTH of a MirrorSTHStorage, whose implementation is not in this
\* repository: an STH of the source log, as its interface promises not larger than
\* the size given.
MirrorSTHs(maxTreeSize) ==
  {[size |-> n, timestamp |-> 0, sig |-> <<n, 0>>] : n \in {k \in 0 .. Cardinality(Certs) : k <= maxTreeSize}}

\* MirrorSTHGetter.GetSTH passes on what the storage returns.  It checks neither
\* the signature nor the size (two TODOs).
MirrorSTH(r) ==
  /\ mode = "mirror"
  /\ req[r].pc = "root"
  /\ \E sth \in MirrorSTHs(req[r].root.size) : req' = [req EXCEPT ![r] = [pc |-> "reply", sth |-> sth]]
  /\ UNCHANGED <<mode, now, leaves, tree, roots, cache, scts>>

\* The STH storage or the signer fails.
GetSTHFails(r) ==
  /\ req[r].pc = "root"
  /\ req' = [req EXCEPT ![r] = Idle]
  /\ UNCHANGED <<mode, now, leaves, tree, roots, cache, scts>>

\* The client has the STH.
Replied(r) ==
  /\ req[r].pc = "reply"
  /\ req' = [req EXCEPT ![r] = Idle]
  /\ UNCHANGED <<mode, now, leaves, tree, roots, cache, scts>>

\* A front end is restarted: its requests and its cache are gone.
Restart(f) ==
  /\ cache' = [cache EXCEPT ![f] = NoEntry]
  /\ req' = [r \in Requests |-> IF req[r].pc \in {"queue", "sct", "root", "signed"} /\ req[r].fe = f
                                THEN Idle ELSE req[r]]
  /\ UNCHANGED <<mode, now, leaves, tree, roots, scts>>

-----------------------------------------------------------------------------
(* Trillian.                                                                *)

\* A new root; replicas are at most Lag roots behind.
Publish(size) ==
  LET all == Append(roots, [size |-> size, nanos |-> now])
  IN  roots' = IF Len(all) > Lag + 1 THEN Tail(all) ELSE all

InTree(l) == \E i \in 1 .. Len(tree) : tree[i] = l

\* The sequencer integrates a queued leaf, if there is one, and publishes.
Sequence ==
  \E l \in leaves :
    /\ ~InTree(l)
    /\ tree' = Append(tree, l)
    /\ Publish(Len(tree) + 1)
    /\ UNCHANGED <<mode, now, leaves, cache, req, scts>>

\* It also publishes a fresh root now and then.
Republish ==
  /\ now > roots[Len(roots)].nanos
  /\ Publish(Len(tree))
  /\ UNCHANGED <<mode, now, leaves, tree, cache, req, scts>>

\* A mirror's leaves come in sequence from the migration (AddSequencedLeaves).
MirrorAdds(c) ==
  /\ mode = "mirror"
  /\ ~\E l \in leaves : l.cert = c
  /\ leaves' = leaves \cup {[cert |-> c, etype |-> EntryType(c), timestamp |-> Millis(now)]}
  /\ UNCHANGED <<mode, now, tree, roots, cache, req, scts>>

-----------------------------------------------------------------------------
AddChainSteps(r) == QueueLeaves(r) \/ QueueLeavesFails(r) \/ IssueSCT(r) \/ AddChainFails(r)

GetSTHSteps(r) == SignFromCache(r) \/ Sign(r) \/ SetSignature(r) \/ MirrorSTH(r)
                  \/ GetSTHFails(r) \/ Replied(r)

Next ==
  \/ Tick
  \/ \E r \in Requests, f \in Frontends :
       \/ \E c \in Certs, etype \in {"x509", "precert"} : AddChain(r, f, c, etype)
       \/ GetSignedLogRoot(r, f)
  \/ \E r \in Requests : AddChainSteps(r) \/ GetSTHSteps(r)
  \/ \E f \in Frontends : Restart(f)
  \/ Sequence
  \/ Republish
  \/ \E c \in Certs : MirrorAdds(c)

\* Of the front end nothing is assumed: a client may never come back.  The
\* sequencer does not starve.
Spec == Init /\ [][Next]_vars /\ WF_vars(Sequence)

-----------------------------------------------------------------------------
(* Properties.                                                              *)

\* addChainInternal: "Always use the returned leaf as the basis for an SCT".
\* What the log has signed, in whatever order requests and retries ran, is a
\* leaf that Trillian stores.
SCTHonoured == \A s \in scts : s \in leaves

\* BuildLogLeaf's LeafIdentityHash: concurrent and repeated submissions of a
\* certificate to several front ends make one entry of the right type, and all
\* of their SCTs are the same.
OneEntryPerCert ==
  /\ \A i, j \in 1 .. Len(tree) : tree[i].cert = tree[j].cert => i = j
  /\ \A s, t \in scts : s.cert = t.cert => s = t
  /\ \A s \in scts : s.etype = EntryType(s.cert)

\* The promise of an SCT, for a certificate submitted any number of times at
\* any number of front ends: the one entry it has is the one that was signed.
SCTsExact == SCTHonoured /\ OneEntryPerCert

\* signV1TreeHead: the signature of a served STH is one over that STH,
\* whatever other requests did to the cache of the front end meanwhile.  (That of
\* a mirror's STH is the source log's; nothing checks it.)
STHSignatureValid ==
  \A r \in Requests : req[r].pc = "reply" =>
    req[r].sth.sig = <<req[r].sth.size, req[r].sth.timestamp>>

\* MirrorSTHGetter "doesn't expose a future state of the log before it is
\* properly stored in Trillian"; nor does LogSTHGetter, which cuts off its
\* timestamps as addChainInternal does, so that no entry of the tree is younger
\* than the STH.  For a mirror this is about the root's age, given that the storage
\* keeps to its interface.
STHWithinTree ==
  \A r \in Requests : req[r].pc = "reply" =>
    /\ req[r].sth.size <= Len(tree)
    /\ mode = "log" => \A i \in 1 .. req[r].sth.size : tree[i].timestamp <= req[r].sth.timestamp

\* get-sth: what is served is signed, and true of the tree.
STHSound == STHSignatureValid /\ STHWithinTree

-----------------------------------------------------------------------------
(* The strengthening that makes the safety properties inductive.            *)

\* Trillian stores one leaf of each identity, and sequences it once.
StoreInv ==
  /\ \A l, k \in leaves : l.cert = k.cert => l = k
  /\ \A l \in leaves : l.etype = EntryType(l.cert)
  /\ \A i \in 1 .. Len(tree) : tree[i] \in leaves
  /\ \A i, j \in 1 .. Len(tree) : tree[i] = tree[j] => i = j

\* A request holds a leaf of the right type, then one that is stored; a
\* signature, cached or not, is over what it is stored with.
RequestInv ==
  /\ \A r \in Requests :
       /\ req[r].pc = "queue" => req[r].leaf.etype = EntryType(req[r].leaf.cert)
       /\ req[r].pc = "sct" => req[r].leaf \in leaves
       /\ req[r].pc \in {"signed", "reply"} =>
            req[r].sth.sig = <<req[r].sth.size, req[r].sth.timestamp>>
  /\ \A f \in Frontends : cache[f].sig = cache[f].input

\* A tree head of this size and time covers entries that are not younger.
Covers(entries, size, millis) ==
  /\ size <= Len(entries)
  /\ \A i \in 1 .. size : entries[i].timestamp <= millis

\* Timestamps lie in the past, and roots cover the tree wherever they are.
TimeInv ==
  /\ \A l \in leaves : l.timestamp <= Millis(now)
  /\ \A i \in 1 .. Len(roots) : Covers(tree, roots[i].size, Millis(roots[i].nanos))
  /\ \A r \in Requests :
       /\ req[r].pc = "queue" => req[r].leaf.timestamp <= Millis(now)
       /\ req[r].pc = "root" => Covers(tree, req[r].root.size, Millis(req[r].root.nanos))
       /\ req[r].pc = "signed" => Covers(tree, req[r].sth.size, req[r].sth.timestamp)

IInv == TypeOK /\ StoreInv /\ RequestInv /\ SCTHonoured /\ TimeInv /\ STHWithinTree

-----------------------------------------------------------------------------
(* Liveness.                                                                *)

\* addChainInternal: whoever holds an SCT will find the entry in the tree.
SCTEventuallyIncluded ==
  \A c \in Certs : (\E s \in scts : s.cert = c) ~>
    (\E s \in scts : s.cert = c /\ \E i \in 1 .. roots[Len(roots)].size : tree[i] = s)
=============================================================================
