-------------------------- MODULE CTFrontendProofs --------------------------
(* What every number of front ends, requests and certificates does, what    *)
(* the read endpoints answer for every size of tree and range, and what the *)
(* SCTs vouch for.                                                          *)
EXTENDS CTFrontend, LogReads, SCTVerify, FiniteSetTheorems, TLAPS

\* Everything holds at the start.
LEMMA InitInv == Init => IInv
<1> SUFFICES ASSUME Init PROVE IInv
  OBVIOUS
<1>1. TypeOK
  BY ClockAssumption DEF Init, TypeOK, Root, Request, NoEntry, Idle
<1>2. StoreInv /\ SCTHonoured
  BY DEF Init, StoreInv, SCTHonoured
<1>3. RequestInv
  BY DEF Init, RequestInv, Idle, NoEntry
<1>4. TimeInv
  BY DEF Init, TimeInv, Covers, Idle
<1>5. STHWithinTree
  BY DEF Init, STHWithinTree, Idle
<1> QED
  BY <1>1, <1>2, <1>3, <1>4, <1>5 DEF IInv

\* Cutting off a natural number of nanoseconds gives one of milliseconds.
LEMMA MillisType == ASSUME NEW n \in Nat PROVE Millis(n) \in Nat
  BY ClockAssumption DEF Millis

\* Later instants have later or equal timestamps.
LEMMA MillisMonotone ==
  ASSUME NEW n \in Nat PROVE Millis(n) <= Millis(n + 1)
<1> DEFINE k == NanosPerMilli
           p == Millis(n)
           q == Millis(n + 1)
<1>1. k \in Nat \ {0} /\ p \in Nat /\ q \in Nat
  BY ClockAssumption, MillisType
<1>2. k * p <= n /\ n + 1 < k * q + k
  BY ClockAssumption DEF Millis
<1> HIDE DEF k, p, q
<1>3. ASSUME q < p PROVE FALSE
  <2>1. q + 1 <= p
    BY <1>1, <1>3
  <2>2. k * (q + 1) <= k * p
    BY <1>1, <2>1
  <2>3. k * (q + 1) = k * q + k
    BY <1>1
  <2> QED
    BY <1>1, <1>2, <2>2, <2>3
<1> QED
  BY <1>1, <1>3 DEF p, q

\* The signature input of a root is a pair of numbers.
LEMMA InputType == ASSUME NEW root \in Root PROVE STHInput(root) \in Nat \X Nat
  BY MillisType DEF STHInput, Root

\* A request between two calls of add-chain has its front end and its leaf.
LEMMA AddingFields ==
  ASSUME TypeOK, NEW r \in Requests, req[r].pc \in {"queue", "sct"}
  PROVE  req[r] \in [pc : {"queue", "sct"}, fe : Frontends, leaf : MerkleLeaf]
  BY DEF TypeOK, Request, Idle

\* A request that has read a root has it and its front end.
LEMMA RootFields ==
  ASSUME TypeOK, NEW r \in Requests, req[r].pc = "root"
  PROVE  req[r] \in [pc : {"root"}, fe : Frontends, root : Root]
  BY DEF TypeOK, Request, Idle

\* A request that has signed has its STH and its front end.
LEMMA SignedFields ==
  ASSUME TypeOK, NEW r \in Requests, req[r].pc = "signed"
  PROVE  req[r] \in [pc : {"signed"}, fe : Frontends, sth : STH]
  BY DEF TypeOK, Request, Idle

\* Types survive every step.
LEMMA TypeStep == IInv /\ [Next]_vars => TypeOK'
<1> SUFFICES ASSUME IInv, [Next]_vars PROVE TypeOK'
  OBVIOUS
<1>0. TypeOK
  BY DEF IInv
<1>1. CASE Tick
  BY <1>0, <1>1, ClockAssumption DEF Tick, TypeOK
<1>2. ASSUME NEW r \in Requests, NEW f \in Frontends, NEW c \in Certs,
             NEW etype \in {"x509", "precert"}, AddChain(r, f, c, etype)
      PROVE TypeOK'
  <2>1. Millis(now) \in Nat
    BY <1>0, MillisType DEF TypeOK
  <2>2. [pc |-> "queue", fe |-> f,
         leaf |-> [cert |-> c, etype |-> etype, timestamp |-> Millis(now)]] \in Request
    BY <2>1 DEF Request, MerkleLeaf
  <2> QED
    BY <1>0, <1>2, <2>2 DEF AddChain, TypeOK
<1>3. ASSUME NEW r \in Requests, NEW f \in Frontends, GetSignedLogRoot(r, f)
      PROVE TypeOK'
  <2>1. PICK i \in 1 .. Len(roots) :
          req' = [req EXCEPT ![r] = [pc |-> "root", fe |-> f, root |-> roots[i]]]
    BY <1>3 DEF GetSignedLogRoot
  <2>2. roots[i] \in Root
    BY <1>0 DEF TypeOK
  <2>3. [pc |-> "root", fe |-> f, root |-> roots[i]] \in Request
    BY <2>2 DEF Request
  <2> QED
    BY <1>0, <1>3, <2>1, <2>3 DEF GetSignedLogRoot, TypeOK
<1>4. ASSUME NEW r \in Requests, QueueLeaves(r) PROVE TypeOK'
  <2>1. req[r] \in [pc : {"queue", "sct"}, fe : Frontends, leaf : MerkleLeaf]
    BY <1>0, <1>4, AddingFields DEF QueueLeaves
  <2>2. PICK l \in MerkleLeaf : /\ leaves' = leaves \cup {l}
                                /\ req' = [req EXCEPT ![r] = [pc |-> "sct", fe |-> req[r].fe, leaf |-> l]]
    BY <1>0, <1>4, <2>1 DEF QueueLeaves, TypeOK
  <2>3. [pc |-> "sct", fe |-> req[r].fe, leaf |-> l] \in Request
    BY <2>1, <2>2 DEF Request
  <2>4. req' \in [Requests -> Request]
    BY <1>0, <2>2, <2>3 DEF TypeOK
  <2> QED
    BY <1>0, <1>4, <2>2, <2>4 DEF QueueLeaves, TypeOK
<1>5. ASSUME NEW r \in Requests, QueueLeavesFails(r) PROVE TypeOK'
  <2>1. req[r].leaf \in MerkleLeaf
    BY <1>0, <1>5, AddingFields DEF QueueLeavesFails
  <2> QED
    BY <1>0, <1>5, <2>1 DEF QueueLeavesFails, TypeOK, Request
<1>6. ASSUME NEW r \in Requests, IssueSCT(r) PROVE TypeOK'
  <2>1. req[r].leaf \in MerkleLeaf
    BY <1>0, <1>6, AddingFields DEF IssueSCT
  <2> QED
    BY <1>0, <1>6, <2>1 DEF IssueSCT, TypeOK, Request
<1>7. ASSUME NEW r \in Requests, AddChainFails(r) \/ GetSTHFails(r) \/ Replied(r)
      PROVE TypeOK'
  BY <1>0, <1>7 DEF AddChainFails, GetSTHFails, Replied, TypeOK, Request
<1>8. ASSUME NEW r \in Requests, SignFromCache(r) PROVE TypeOK'
  <2> DEFINE input == STHInput(req[r].root)
             sig == cache[req[r].fe].sig
  <2>1. req[r] \in [pc : {"root"}, fe : Frontends, root : Root]
    BY <1>0, <1>8, RootFields DEF SignFromCache
  <2>2. input \in Nat \X Nat
    BY <2>1, InputType
  <2>3. cache[req[r].fe] # NoEntry
    BY <1>8, <2>2 DEF SignFromCache, CacheHit, NoEntry
  <2>4. sig \in Nat \X Nat
    BY <1>0, <2>1, <2>3 DEF TypeOK
  <2>5. [pc |-> "reply", sth |-> [size |-> input[1], timestamp |-> input[2], sig |-> sig]]
          \in Request
    BY <2>2, <2>4 DEF Request, STH
  <2> HIDE DEF input, sig
  <2>6. req' = [req EXCEPT ![r] =
          [pc |-> "reply", sth |-> [size |-> input[1], timestamp |-> input[2], sig |-> sig]]]
    BY <1>8 DEF SignFromCache, input, sig
  <2> QED
    BY <1>0, <1>8, <2>5, <2>6 DEF SignFromCache, TypeOK
<1>9. ASSUME NEW r \in Requests, Sign(r) PROVE TypeOK'
  <2> DEFINE input == STHInput(req[r].root)
             new == [pc |-> "signed", fe |-> req[r].fe,
                     sth |-> [size |-> input[1], timestamp |-> input[2], sig |-> input]]
  <2>1. req[r] \in [pc : {"root"}, fe : Frontends, root : Root]
    BY <1>0, <1>9, RootFields DEF Sign
  <2>2. input \in Nat \X Nat
    BY <2>1, InputType
  <2>3. new \in Request
    BY <2>1, <2>2 DEF Request, STH
  <2>4. req' = [req EXCEPT ![r] = new]
    BY <1>9 DEF Sign
  <2> HIDE DEF new
  <2> QED
    BY <1>0, <1>9, <2>3, <2>4 DEF Sign, TypeOK
<1>10. ASSUME NEW r \in Requests, SetSignature(r) PROVE TypeOK'
  <2>1. req[r] \in [pc : {"signed"}, fe : Frontends, sth : STH]
    BY <1>0, <1>10, SignedFields DEF SetSignature
  <2>2. [pc |-> "reply", sth |-> req[r].sth] \in Request
    BY <2>1 DEF Request
  <2>3. [input |-> <<req[r].sth.size, req[r].sth.timestamp>>, sig |-> req[r].sth.sig]
          \in [input : Nat \X Nat, sig : Nat \X Nat]
    BY <2>1 DEF STH
  <2> QED
    BY <1>0, <1>10, <2>2, <2>3 DEF SetSignature, TypeOK
<1>11. ASSUME NEW r \in Requests, MirrorSTH(r) PROVE TypeOK'
  <2>1. PICK n \in 0 .. Cardinality(Certs) : req' = [req EXCEPT ![r] =
          [pc |-> "reply", sth |-> [size |-> n, timestamp |-> 0, sig |-> <<n, 0>>]]]
    BY <1>11 DEF MirrorSTH, MirrorSTHs
  <2>2. n \in Nat
    OBVIOUS
  <2>3. [pc |-> "reply", sth |-> [size |-> n, timestamp |-> 0, sig |-> <<n, 0>>]] \in Request
    BY <2>2 DEF Request, STH
  <2> QED
    BY <1>0, <1>11, <2>1, <2>3 DEF MirrorSTH, MirrorSTHs, TypeOK
<1>12. ASSUME NEW f \in Frontends, Restart(f) PROVE TypeOK'
  BY <1>0, <1>12 DEF Restart, TypeOK, Request
<1>13. ASSUME NEW n \in Nat, Publish(n) PROVE roots' \in Seq(Root)
  <2>1. Append(roots, [size |-> n, nanos |-> now]) \in Seq(Root)
    BY <1>0 DEF TypeOK, Root
  <2> QED
    BY <1>13, <2>1, ClockAssumption DEF Publish
<1>14. CASE Sequence
  <2>1. PICK l \in leaves : tree' = Append(tree, l) /\ Publish(Len(tree) + 1)
                            /\ UNCHANGED <<mode, now, leaves, cache, req, scts>>
    BY <1>14 DEF Sequence
  <2>2. tree' \in Seq(MerkleLeaf) /\ Len(tree) + 1 \in Nat
    BY <1>0, <2>1 DEF TypeOK
  <2>3. roots' \in Seq(Root)
    BY <1>13, <2>1, <2>2
  <2> QED
    BY <1>0, <2>1, <2>2, <2>3 DEF TypeOK
<1>15. CASE Republish
  <2>1. Len(tree) \in Nat
    BY <1>0 DEF TypeOK
  <2>2. roots' \in Seq(Root)
    BY <1>13, <1>15, <2>1 DEF Republish
  <2> QED
    BY <1>0, <1>15, <2>2 DEF Republish, TypeOK
<1>16. ASSUME NEW c \in Certs, MirrorAdds(c) PROVE TypeOK'
  <2>1. Millis(now) \in Nat
    BY <1>0, MillisType DEF TypeOK
  <2>2. [cert |-> c, etype |-> EntryType(c), timestamp |-> Millis(now)] \in MerkleLeaf
    BY <2>1 DEF MerkleLeaf, EntryType
  <2> QED
    BY <1>0, <1>16, <2>2 DEF MirrorAdds, TypeOK
<1>17. CASE UNCHANGED vars
  BY <1>0, <1>17 DEF vars, TypeOK
<1> QED
  BY <1>1, <1>2, <1>3, <1>4, <1>5, <1>6, <1>7, <1>8, <1>9, <1>10, <1>11, <1>12, <1>14,
     <1>15, <1>16, <1>17
  DEF Next, AddChainSteps, GetSTHSteps

\* The store keeps one leaf per certificate and the tree one entry per leaf.
LEMMA StoreStep == IInv /\ [Next]_vars => StoreInv'
<1> SUFFICES ASSUME IInv, [Next]_vars PROVE StoreInv'
  OBVIOUS
<1>0. TypeOK /\ StoreInv /\ RequestInv
  BY DEF IInv
<1>1. ASSUME UNCHANGED <<leaves, tree>> PROVE StoreInv'
  BY <1>0, <1>1 DEF StoreInv
\* A new leaf of a new identity.
<1>2. ASSUME NEW l \in MerkleLeaf, l.etype = EntryType(l.cert),
             ~\E k \in leaves : SameIdentity(k, l),
             leaves' = leaves \cup {l}, UNCHANGED tree
      PROVE StoreInv'
  BY <1>0, <1>2 DEF StoreInv, SameIdentity
<1>3. ASSUME NEW r \in Requests, QueueLeaves(r) PROVE StoreInv'
  <2>1. req[r].leaf \in MerkleLeaf
    BY <1>0, <1>3, AddingFields DEF QueueLeaves
  <2>2. req[r].leaf.etype = EntryType(req[r].leaf.cert)
    BY <1>0, <1>3 DEF QueueLeaves, RequestInv
  <2>3. CASE \E k \in leaves : SameIdentity(k, req[r].leaf)
    <3>1. leaves' = leaves /\ UNCHANGED tree
      BY <1>3, <2>3 DEF QueueLeaves
    <3> QED
      BY <1>1, <3>1
  <2>4. CASE ~\E k \in leaves : SameIdentity(k, req[r].leaf)
    <3>1. leaves' = leaves \cup {req[r].leaf} /\ UNCHANGED tree
      BY <1>3, <2>4 DEF QueueLeaves
    <3> QED
      BY <1>2, <2>1, <2>2, <2>4, <3>1
  <2> QED
    BY <2>3, <2>4
<1>4. ASSUME NEW r \in Requests, QueueLeavesFails(r) PROVE StoreInv'
  <2>1. req[r].leaf \in MerkleLeaf
    BY <1>0, <1>4, AddingFields DEF QueueLeavesFails
  <2>2. req[r].leaf.etype = EntryType(req[r].leaf.cert)
    BY <1>0, <1>4 DEF QueueLeavesFails, RequestInv
  <2> QED
    BY <1>1, <1>2, <1>4, <2>1, <2>2 DEF QueueLeavesFails
<1>5. ASSUME NEW c \in Certs, MirrorAdds(c) PROVE StoreInv'
  <2> DEFINE l == [cert |-> c, etype |-> EntryType(c), timestamp |-> Millis(now)]
  <2>1. Millis(now) \in Nat
    BY <1>0, MillisType DEF TypeOK
  <2>2. l \in MerkleLeaf /\ l.etype = EntryType(l.cert) /\ l.cert = c
    BY <2>1 DEF MerkleLeaf, EntryType
  <2>3. leaves' = leaves \cup {l} /\ UNCHANGED tree /\ ~\E k \in leaves : k.cert = c
    BY <1>5 DEF MirrorAdds
  <2> HIDE DEF l
  <2> QED
    BY <1>2, <2>2, <2>3 DEF SameIdentity
<1>6. CASE Sequence
  <2>1. PICK l \in leaves : ~InTree(l) /\ tree' = Append(tree, l) /\ UNCHANGED leaves
    BY <1>6 DEF Sequence
  <2>2. /\ Len(tree) \in Nat
        /\ Len(tree') = Len(tree) + 1
        /\ \A i \in 1 .. Len(tree) : tree'[i] = tree[i]
        /\ tree'[Len(tree) + 1] = l
    BY <1>0, <2>1 DEF TypeOK
  <2>3. \A i \in 1 .. Len(tree) : tree[i] # l
    BY <2>1 DEF InTree
  <2>4. \A i \in 1 .. Len(tree') : tree'[i] \in leaves
    BY <1>0, <2>2 DEF StoreInv
  <2>5. \A i, j \in 1 .. Len(tree') : tree'[i] = tree'[j] => i = j
    BY <1>0, <2>2, <2>3 DEF StoreInv
  <2> QED
    BY <1>0, <2>1, <2>4, <2>5 DEF StoreInv
<1>7. ASSUME NEW r \in Requests, NEW f \in Frontends, NEW c \in Certs,
             NEW etype \in {"x509", "precert"}, AddChain(r, f, c, etype)
      PROVE StoreInv'
  BY <1>1, <1>7 DEF AddChain
<1>8. ASSUME NEW r \in Requests, IssueSCT(r) \/ AddChainFails(r) \/ GetSTHSteps(r)
      PROVE StoreInv'
  BY <1>1, <1>8 DEF IssueSCT, AddChainFails, GetSTHSteps, SignFromCache, Sign, SetSignature,
                    MirrorSTH, MirrorSTHs, GetSTHFails, Replied
<1>9. ASSUME NEW f \in Frontends, NEW r \in Requests, GetSignedLogRoot(r, f) PROVE StoreInv'
  BY <1>1, <1>9 DEF GetSignedLogRoot
<1>10. ASSUME NEW f \in Frontends, Restart(f) PROVE StoreInv'
  BY <1>1, <1>10 DEF Restart
<1>11. CASE Tick \/ Republish \/ UNCHANGED vars
  BY <1>1, <1>11 DEF Tick, Republish, vars
<1> QED
  BY <1>3, <1>4, <1>5, <1>6, <1>7, <1>8, <1>9, <1>10, <1>11 DEF Next, AddChainSteps

\* Leaves are never removed or changed.
LEMMA LeavesGrow == IInv /\ [Next]_vars => leaves \subseteq leaves'
  BY DEF Next, AddChainSteps, GetSTHSteps, Tick, AddChain, GetSignedLogRoot, QueueLeaves,
         QueueLeavesFails, IssueSCT, AddChainFails, SignFromCache, Sign, SetSignature, MirrorSTH, MirrorSTHs,
         GetSTHFails, Replied, Restart, Sequence, Republish, MirrorAdds, vars

\* What is signed is stored.
LEMMA SCTStep == IInv /\ [Next]_vars => SCTHonoured'
<1> SUFFICES ASSUME IInv, [Next]_vars PROVE SCTHonoured'
  OBVIOUS
<1>1. leaves \subseteq leaves'
  BY LeavesGrow
<1>2. \A s \in scts' : s \in scts \/ s \in leaves
  BY DEF IInv, RequestInv, Next, AddChainSteps, GetSTHSteps, Tick, AddChain, GetSignedLogRoot,
         QueueLeaves, QueueLeavesFails, IssueSCT, AddChainFails, SignFromCache, Sign,
         SetSignature, MirrorSTH, MirrorSTHs, GetSTHFails, Replied, Restart, Sequence, Republish,
         MirrorAdds, vars
<1> QED
  BY <1>1, <1>2 DEF IInv, SCTHonoured

\* Requests and caches keep leaves and signatures together as they should.
LEMMA RequestStep == IInv /\ [Next]_vars => RequestInv'
<1> SUFFICES ASSUME IInv, [Next]_vars PROVE RequestInv'
  OBVIOUS
<1>0. TypeOK /\ RequestInv /\ leaves \subseteq leaves'
  BY LeavesGrow DEF IInv
<1> DEFINE Good(q, L) ==
      /\ q.pc = "queue" => q.leaf.etype = EntryType(q.leaf.cert)
      /\ q.pc = "sct" => q.leaf \in L
      /\ q.pc \in {"signed", "reply"} => q.sth.sig = <<q.sth.size, q.sth.timestamp>>
<1>1. \A r \in Requests : Good(req[r], leaves')
  BY <1>0 DEF RequestInv
\* One request moves on, the others and the caches stay.
<1>2. ASSUME NEW r \in Requests, NEW q, Good(q, leaves'),
             req' = [req EXCEPT ![r] = q], UNCHANGED cache
      PROVE RequestInv'
  <2>1. \A s \in Requests : req'[s] = IF s = r THEN q ELSE req[s]
    BY <1>0, <1>2 DEF TypeOK
  <2>2. \A s \in Requests : Good(req'[s], leaves')
    BY <1>1, <1>2, <2>1
  <2> QED
    BY <1>0, <1>2, <2>2 DEF RequestInv
<1>3. Good(Idle, leaves')
  BY DEF Idle
<1>4. ASSUME NEW r \in Requests, NEW f \in Frontends, NEW c \in Certs,
             NEW etype \in {"x509", "precert"}, AddChain(r, f, c, etype)
      PROVE RequestInv'
  <2> DEFINE new == [pc |-> "queue", fe |-> f,
                     leaf |-> [cert |-> c, etype |-> etype, timestamp |-> Millis(now)]]
  <2>1. Good(new, leaves')
    BY <1>4 DEF AddChain, VerifyAddChain
  <2>2. req' = [req EXCEPT ![r] = new] /\ UNCHANGED cache
    BY <1>4 DEF AddChain
  <2> HIDE DEF new, Good
  <2> QED
    BY <1>2, <2>1, <2>2
<1>5. ASSUME NEW r \in Requests, NEW f \in Frontends, GetSignedLogRoot(r, f) PROVE RequestInv'
  <2>1. PICK i \in 1 .. Len(roots) :
          req' = [req EXCEPT ![r] = [pc |-> "root", fe |-> f, root |-> roots[i]]]
    BY <1>5 DEF GetSignedLogRoot
  <2>2. Good([pc |-> "root", fe |-> f, root |-> roots[i]], leaves')
    OBVIOUS
  <2> HIDE DEF Good
  <2> QED
    BY <1>2, <1>5, <2>1, <2>2 DEF GetSignedLogRoot
<1>6. ASSUME NEW r \in Requests, QueueLeaves(r) PROVE RequestInv'
  <2>1. PICK l : /\ l \in leaves'
                 /\ req' = [req EXCEPT ![r] = [pc |-> "sct", fe |-> req[r].fe, leaf |-> l]]
    BY <1>6 DEF QueueLeaves
  <2>2. Good([pc |-> "sct", fe |-> req[r].fe, leaf |-> l], leaves')
    BY <2>1
  <2> HIDE DEF Good
  <2> QED
    BY <1>2, <1>6, <2>1, <2>2 DEF QueueLeaves
<1>7. ASSUME NEW r \in Requests,
             QueueLeavesFails(r) \/ IssueSCT(r) \/ AddChainFails(r) \/ GetSTHFails(r) \/ Replied(r)
      PROVE RequestInv'
  <2>1. req' = [req EXCEPT ![r] = Idle] /\ UNCHANGED cache
    BY <1>7 DEF QueueLeavesFails, IssueSCT, AddChainFails, GetSTHFails, Replied
  <2> HIDE DEF Good
  <2> QED
    BY <1>2, <1>3, <2>1
<1>8. ASSUME NEW r \in Requests, SignFromCache(r) PROVE RequestInv'
  <2> DEFINE input == STHInput(req[r].root)
             new == [pc |-> "reply", sth |-> [size |-> input[1], timestamp |-> input[2],
                                              sig |-> cache[req[r].fe].sig]]
  <2>1. req[r] \in [pc : {"root"}, fe : Frontends, root : Root]
    BY <1>0, <1>8, RootFields DEF SignFromCache
  <2>2. input \in Nat \X Nat
    BY <2>1, InputType
  <2>3. cache[req[r].fe].sig = input
    BY <1>0, <1>8, <2>1 DEF SignFromCache, CacheHit, RequestInv
  <2>4. input = <<input[1], input[2]>>
    BY <2>2
  <2>5. Good(new, leaves')
    BY <2>3, <2>4
  <2>6. req' = [req EXCEPT ![r] = new] /\ UNCHANGED cache
    BY <1>8 DEF SignFromCache
  <2> HIDE DEF new, Good
  <2> QED
    BY <1>2, <2>5, <2>6
<1>9. ASSUME NEW r \in Requests, Sign(r) PROVE RequestInv'
  <2> DEFINE input == STHInput(req[r].root)
             new == [pc |-> "signed", fe |-> req[r].fe,
                     sth |-> [size |-> input[1], timestamp |-> input[2], sig |-> input]]
  <2>1. req[r] \in [pc : {"root"}, fe : Frontends, root : Root]
    BY <1>0, <1>9, RootFields DEF Sign
  <2>2. input = <<input[1], input[2]>>
    BY <2>1, InputType
  <2>3. Good(new, leaves')
    BY <2>2
  <2>4. req' = [req EXCEPT ![r] = new] /\ UNCHANGED cache
    BY <1>9 DEF Sign
  <2> HIDE DEF new, Good
  <2> QED
    BY <1>2, <2>3, <2>4
<1>10. ASSUME NEW r \in Requests, SetSignature(r) PROVE RequestInv'
  <2>1. req[r].sth.sig = <<req[r].sth.size, req[r].sth.timestamp>>
    BY <1>0, <1>10 DEF SetSignature, RequestInv
  <2>2. \A f \in Frontends : cache'[f].sig = cache'[f].input
    BY <1>0, <1>10, <2>1 DEF SetSignature, RequestInv, TypeOK
  <2>3. \A s \in Requests : Good(req'[s], leaves')
    BY <1>0, <1>1, <1>10, <2>1 DEF SetSignature, TypeOK
  <2> QED
    BY <2>2, <2>3 DEF RequestInv
<1>11. ASSUME NEW r \in Requests, MirrorSTH(r) PROVE RequestInv'
  <2>1. PICK n \in 0 .. Cardinality(Certs) : req' = [req EXCEPT ![r] =
          [pc |-> "reply", sth |-> [size |-> n, timestamp |-> 0, sig |-> <<n, 0>>]]]
    BY <1>11 DEF MirrorSTH, MirrorSTHs
  <2>2. Good([pc |-> "reply", sth |-> [size |-> n, timestamp |-> 0, sig |-> <<n, 0>>]], leaves')
    OBVIOUS
  <2> HIDE DEF Good
  <2> QED
    BY <1>2, <1>11, <2>1, <2>2 DEF MirrorSTH, MirrorSTHs
<1>12. ASSUME NEW f \in Frontends, Restart(f) PROVE RequestInv'
  <2>1. \A g \in Frontends : cache'[g].sig = cache'[g].input
    BY <1>0, <1>12 DEF Restart, RequestInv, TypeOK, NoEntry
  <2>2. \A s \in Requests : req'[s] = Idle \/ req'[s] = req[s]
    BY <1>12 DEF Restart
  <2>3. \A s \in Requests : Good(req'[s], leaves')
    BY <1>1, <1>3, <2>2
  <2> QED
    BY <2>1, <2>3 DEF RequestInv
<1>13. ASSUME UNCHANGED <<req, cache>> PROVE RequestInv'
  BY <1>0, <1>1, <1>13 DEF RequestInv
<1>14. CASE Tick \/ Sequence \/ Republish \/ (\E c \in Certs : MirrorAdds(c)) \/ UNCHANGED vars
  BY <1>13, <1>14 DEF Tick, Sequence, Republish, MirrorAdds, vars
<1> QED
  BY <1>4, <1>5, <1>6, <1>7, <1>8, <1>9, <1>10, <1>11, <1>12, <1>14
  DEF Next, AddChainSteps, GetSTHSteps

\* The tree only grows at its end.
LEMMA TreeGrows ==
  ASSUME TypeOK, [Next]_vars
  PROVE  /\ Len(tree) <= Len(tree')
         /\ \A i \in 1 .. Len(tree) : tree'[i] = tree[i]
<1>1. CASE Sequence
  BY <1>1 DEF Sequence, TypeOK
<1>2. CASE ~Sequence
  <2>1. UNCHANGED tree
    BY <1>2 DEF Next, AddChainSteps, GetSTHSteps, Tick, AddChain, GetSignedLogRoot, QueueLeaves,
         QueueLeavesFails, IssueSCT, AddChainFails, SignFromCache, Sign, SetSignature, MirrorSTH, MirrorSTHs,
         GetSTHFails, Replied, Restart, Republish, MirrorAdds, vars
  <2> QED
    BY <2>1 DEF TypeOK
<1> QED
  BY <1>1, <1>2

\* So a head that covers the tree goes on covering it.
LEMMA CoversStep ==
  ASSUME TypeOK, TypeOK', [Next]_vars, NEW n \in Nat, NEW t, Covers(tree, n, t)
  PROVE  Covers(tree', n, t)
<1>1. /\ Len(tree) \in Nat /\ Len(tree) <= Len(tree') /\ Len(tree') \in Nat
      /\ \A i \in 1 .. Len(tree) : tree'[i] = tree[i]
  BY TreeGrows DEF TypeOK
<1>2. n <= Len(tree) /\ \A i \in 1 .. n : tree[i].timestamp <= t
  BY DEF Covers
<1>3. n <= Len(tree') /\ \A i \in 1 .. n : tree'[i] = tree[i]
  BY <1>1, <1>2
<1> QED
  BY <1>2, <1>3 DEF Covers

\* The clock does not go back.
LEMMA MillisStep == ASSUME TypeOK, [Next]_vars PROVE Millis(now) <= Millis(now')
<1>1. CASE Tick
  BY <1>1, MillisMonotone DEF Tick, TypeOK
<1>2. CASE ~Tick
  <2>1. now' = now
    BY <1>2 DEF Next, AddChainSteps, GetSTHSteps, AddChain, GetSignedLogRoot, QueueLeaves,
         QueueLeavesFails, IssueSCT, AddChainFails, SignFromCache, Sign, SetSignature, MirrorSTH, MirrorSTHs,
         GetSTHFails, Replied, Restart, Sequence, Republish, MirrorAdds, vars
  <2>2. Millis(now) \in Nat
    BY MillisType DEF TypeOK
  <2> QED
    BY <2>1, <2>2
<1> QED
  BY <1>1, <1>2

\* Stored leaves are not from the future.
LEMMA LeafTimeStep ==
  IInv /\ [Next]_vars => \A l \in leaves' : l.timestamp <= Millis(now')
<1> SUFFICES ASSUME IInv, [Next]_vars, NEW l \in leaves' PROVE l.timestamp <= Millis(now')
  OBVIOUS
<1>0. TypeOK /\ TypeOK'
  BY TypeStep DEF IInv
<1>1. Millis(now) \in Nat /\ Millis(now') \in Nat /\ Millis(now) <= Millis(now')
  <2>1. now \in Nat /\ now' \in Nat
    BY <1>0 DEF TypeOK
  <2>2. Millis(now) \in Nat /\ Millis(now') \in Nat
    BY <2>1, MillisType
  <2> QED
    BY <1>0, <2>2, MillisStep
<1>2. l.timestamp \in Nat
  BY <1>0 DEF TypeOK, MerkleLeaf
<1>3. \/ l \in leaves
      \/ \E r \in Requests : req[r].pc = "queue" /\ l = req[r].leaf
      \/ l.timestamp = Millis(now)
  <2>1. ASSUME NEW c \in Certs, MirrorAdds(c) PROVE l \in leaves \/ l.timestamp = Millis(now)
    BY <2>1 DEF MirrorAdds
  <2>2. ASSUME NEW r \in Requests, QueueLeaves(r) \/ QueueLeavesFails(r)
        PROVE l \in leaves \/ (req[r].pc = "queue" /\ l = req[r].leaf)
    BY <2>2 DEF QueueLeaves, QueueLeavesFails
  <2>3. ASSUME UNCHANGED leaves PROVE l \in leaves
    BY <2>3
  <2> QED
    BY <2>1, <2>2, <2>3
    DEF Next, AddChainSteps, GetSTHSteps, Tick, AddChain, GetSignedLogRoot, IssueSCT,
        AddChainFails, SignFromCache, Sign, SetSignature, MirrorSTH, MirrorSTHs, GetSTHFails, Replied,
        Restart, Sequence, Republish, vars
<1>4. l.timestamp <= Millis(now)
  BY <1>1, <1>3 DEF IInv, TimeInv
<1> QED
  BY <1>1, <1>2, <1>4

\* A root published over the whole tree covers it.
LEMMA NewRootCovers ==
  ASSUME IInv, TypeOK', \A i \in 1 .. Len(tree') : tree'[i] \in leaves
  PROVE  Covers(tree', Len(tree'), Millis(now))
<1>1. Len(tree') \in Nat
  BY DEF TypeOK
<1> QED
  BY <1>1 DEF IInv, TimeInv, Covers

\* What replicas show after a publication: roots from before and the new one.
LEMMA PublishShows ==
  ASSUME TypeOK, NEW n \in Nat, Publish(n), NEW i \in 1 .. Len(roots')
  PROVE  \/ \E j \in 1 .. Len(roots) : roots'[i] = roots[j]
         \/ roots'[i] = [size |-> n, nanos |-> now]
<1> DEFINE new == [size |-> n, nanos |-> now]
           all == Append(roots, new)
<1>1. new \in Root
  BY DEF TypeOK, Root
<1> HIDE DEF new
<1>2. /\ Len(roots) \in Nat
      /\ all \in Seq(Root) /\ Len(all) = Len(roots) + 1
      /\ \A j \in 1 .. Len(all) : all[j] = IF j = Len(all) THEN new ELSE roots[j]
  BY <1>1 DEF TypeOK
<1>3. roots' = all \/ roots' = Tail(all)
  BY DEF Publish, new
<1> HIDE DEF all
<1>4. CASE roots' = all
  BY <1>2, <1>4 DEF new
<1>5. CASE roots' = Tail(all)
  <2>1. Len(roots') = Len(all) - 1 /\ roots'[i] = all[i + 1]
    BY <1>2, <1>5
  <2> QED
    BY <1>2, <2>1 DEF new
<1> QED
  BY <1>3, <1>4, <1>5

\* Every published root covers the tree.
LEMMA RootsStep ==
  IInv /\ [Next]_vars =>
    \A i \in 1 .. Len(roots') : Covers(tree', roots'[i].size, Millis(roots'[i].nanos))
<1> SUFFICES ASSUME IInv, [Next]_vars, NEW i \in 1 .. Len(roots')
             PROVE Covers(tree', roots'[i].size, Millis(roots'[i].nanos))
  OBVIOUS
<1>0. TypeOK /\ TypeOK' /\ StoreInv /\ Len(tree) \in Nat
  BY TypeStep DEF IInv, TypeOK
\* A root from before.
<1>1. ASSUME NEW j \in 1 .. Len(roots), roots'[i] = roots[j]
      PROVE Covers(tree', roots'[i].size, Millis(roots'[i].nanos))
  <2>1. Covers(tree, roots[j].size, Millis(roots[j].nanos)) /\ roots[j].size \in Nat
    <3>1. roots[j] \in Root
      BY <1>0 DEF TypeOK
    <3>2. TimeInv
      BY DEF IInv
    <3> QED
      BY <3>1, <3>2 DEF TimeInv, Root
  <2>2. Covers(tree', roots[j].size, Millis(roots[j].nanos))
    BY <1>0, <2>1, CoversStep
  <2> QED
    BY <1>1, <2>2
<1>2. CASE UNCHANGED roots
  BY <1>1, <1>2
\* The new root, over the whole tree.
<1>3. ASSUME Publish(Len(tree')), \A k \in 1 .. Len(tree') : tree'[k] \in leaves
      PROVE Covers(tree', roots'[i].size, Millis(roots'[i].nanos))
  <2>1. Len(tree') \in Nat
    BY <1>0 DEF TypeOK
  <2>2. \/ \E j \in 1 .. Len(roots) : roots'[i] = roots[j]
        \/ roots'[i] = [size |-> Len(tree'), nanos |-> now]
    BY <1>0, <1>3, <2>1, PublishShows
  <2>3. Covers(tree', Len(tree'), Millis(now))
    BY <1>0, <1>3, NewRootCovers
  <2> QED
    BY <1>1, <2>2, <2>3
<1>4. CASE Sequence
  <2>1. PICK l \in leaves : tree' = Append(tree, l) /\ Publish(Len(tree) + 1)
    BY <1>4 DEF Sequence
  <2>2. Len(tree') = Len(tree) + 1
    BY <1>0, <2>1 DEF TypeOK
  <2>3. \A k \in 1 .. Len(tree') : tree'[k] \in leaves
    BY <1>0, <2>1 DEF StoreInv, TypeOK
  <2> QED
    BY <1>3, <2>1, <2>2, <2>3
<1>5. CASE Republish
  <2>1. tree' = tree /\ Publish(Len(tree'))
    BY <1>5 DEF Republish
  <2>2. \A k \in 1 .. Len(tree') : tree'[k] \in leaves
    BY <1>0, <2>1 DEF StoreInv
  <2> QED
    BY <1>3, <2>1, <2>2
<1> QED
  BY <1>2, <1>4, <1>5
  DEF Next, AddChainSteps, GetSTHSteps, Tick, AddChain, GetSignedLogRoot, QueueLeaves,
      QueueLeavesFails, IssueSCT, AddChainFails, SignFromCache, Sign, SetSignature, MirrorSTH, MirrorSTHs,
      GetSTHFails, Replied, Restart, MirrorAdds, vars

\* Requests hold no future timestamps, and heads that cover the tree.
LEMMA RequestTimeStep ==
  ASSUME IInv, [Next]_vars, NEW r \in Requests
  PROVE  /\ req'[r].pc = "queue" => req'[r].leaf.timestamp <= Millis(now')
         /\ req'[r].pc = "root" => Covers(tree', req'[r].root.size, Millis(req'[r].root.nanos))
         /\ req'[r].pc = "signed" => Covers(tree', req'[r].sth.size, req'[r].sth.timestamp)
         /\ req'[r].pc = "reply" =>
              /\ req'[r].sth.size <= Len(tree')
              /\ mode' = "log" => Covers(tree', req'[r].sth.size, req'[r].sth.timestamp)
<1> DEFINE Good(q, now_, tree_) ==
      /\ q.pc = "queue" => q.leaf.timestamp <= Millis(now_)
      /\ q.pc = "root" => Covers(tree_, q.root.size, Millis(q.root.nanos))
      /\ q.pc = "signed" => Covers(tree_, q.sth.size, q.sth.timestamp)
      /\ q.pc = "reply" => /\ q.sth.size <= Len(tree_)
                           /\ mode = "log" => Covers(tree_, q.sth.size, q.sth.timestamp)
<1>0. TypeOK /\ TypeOK' /\ TimeInv
  BY TypeStep DEF IInv
<1>1. Millis(now) \in Nat /\ Millis(now') \in Nat /\ Millis(now) <= Millis(now')
  <2>1. now \in Nat /\ now' \in Nat
    BY <1>0 DEF TypeOK
  <2>2. Millis(now) \in Nat /\ Millis(now') \in Nat
    BY <2>1, MillisType
  <2> QED
    BY <1>0, <2>2, MillisStep
<1>2. mode' = mode
  BY DEF Next, AddChainSteps, GetSTHSteps, Tick, AddChain, GetSignedLogRoot, QueueLeaves,
         QueueLeavesFails, IssueSCT, AddChainFails, SignFromCache, Sign, SetSignature, MirrorSTH, MirrorSTHs,
         GetSTHFails, Replied, Restart, Sequence, Republish, MirrorAdds, vars
<1>3. Good(req[r], now, tree)
  BY DEF IInv, TimeInv, STHWithinTree, Covers
\* What a request holds stays good while others move.
<1>4. ASSUME NEW q \in Request, Good(q, now, tree) PROVE Good(q, now', tree')
  <2>1. ASSUME q.pc = "queue" PROVE q.leaf.timestamp <= Millis(now')
    <3>1. q.leaf.timestamp \in Nat /\ q.leaf.timestamp <= Millis(now)
      BY <1>4, <2>1 DEF Request, MerkleLeaf, Idle
    <3> QED
      BY <1>1, <3>1
  <2>2. ASSUME q.pc = "root" PROVE Covers(tree', q.root.size, Millis(q.root.nanos))
    <3>1. q.root.size \in Nat /\ Covers(tree, q.root.size, Millis(q.root.nanos))
      BY <1>4, <2>2 DEF Request, Root, Idle
    <3> QED
      BY <1>0, <3>1, CoversStep
  <2>3. ASSUME q.pc \in {"signed", "reply"} PROVE q.sth.size \in Nat
    BY <2>3 DEF Request, STH, Idle
  <2>4. ASSUME q.pc \in {"signed", "reply"}, Covers(tree, q.sth.size, q.sth.timestamp)
        PROVE Covers(tree', q.sth.size, q.sth.timestamp)
    BY <1>0, <2>3, <2>4, CoversStep
  <2>5. ASSUME q.pc = "reply" PROVE q.sth.size <= Len(tree')
    <3>1. q.sth.size \in Nat /\ q.sth.size <= Len(tree)
      BY <1>4, <2>3, <2>5
    <3>2. Len(tree) \in Nat /\ Len(tree') \in Nat /\ Len(tree) <= Len(tree')
      BY <1>0, TreeGrows DEF TypeOK
    <3> QED
      BY <3>1, <3>2
  <2> QED
    BY <1>4, <2>1, <2>2, <2>4, <2>5
<1>5. ASSUME Good(req'[r], now, tree) PROVE Good(req'[r], now', tree')
  BY <1>0, <1>4, <1>5 DEF TypeOK
<1>6. ASSUME req'[r] = Idle \/ req'[r] = req[r] \/ req'[r].pc = "sct"
      PROVE Good(req'[r], now, tree)
  BY <1>3, <1>6 DEF Idle
<1>7. ASSUME NEW s \in Requests, NEW f \in Frontends, NEW c \in Certs,
             NEW etype \in {"x509", "precert"}, AddChain(s, f, c, etype)
      PROVE Good(req'[r], now, tree)
  <2>1. CASE s # r
    BY <1>0, <1>6, <1>7, <2>1 DEF AddChain, TypeOK
  <2>2. CASE s = r
    <3>1. req'[r] = [pc |-> "queue", fe |-> f,
                     leaf |-> [cert |-> c, etype |-> etype, timestamp |-> Millis(now)]]
      BY <1>0, <1>7, <2>2 DEF AddChain, TypeOK
    <3> QED
      BY <1>1, <3>1
  <2> QED
    BY <2>1, <2>2
<1>8. ASSUME NEW s \in Requests, NEW f \in Frontends, GetSignedLogRoot(s, f)
      PROVE Good(req'[r], now, tree)
  <2>1. PICK i \in 1 .. Len(roots) :
          req' = [req EXCEPT ![s] = [pc |-> "root", fe |-> f, root |-> roots[i]]]
    BY <1>8 DEF GetSignedLogRoot
  <2>2. CASE s # r
    BY <1>0, <1>6, <2>1, <2>2 DEF TypeOK
  <2>3. CASE s = r
    <3>1. req'[r] = [pc |-> "root", fe |-> f, root |-> roots[i]]
      BY <1>0, <2>1, <2>3 DEF TypeOK
    <3>2. Covers(tree, roots[i].size, Millis(roots[i].nanos))
      BY <1>0 DEF TimeInv
    <3> QED
      BY <3>1, <3>2
  <2> QED
    BY <2>2, <2>3
<1>9. ASSUME NEW s \in Requests, AddChainSteps(s) \/ GetSTHFails(s) \/ Replied(s)
      PROVE Good(req'[r], now, tree)
  <2>1. req'[r] = Idle \/ req'[r] = req[r] \/ req'[r].pc = "sct"
    BY <1>0, <1>9 DEF AddChainSteps, QueueLeaves, QueueLeavesFails, IssueSCT, AddChainFails,
                      GetSTHFails, Replied, TypeOK
  <2> QED
    BY <1>6, <2>1
<1>10. ASSUME NEW s \in Requests, SignFromCache(s) \/ Sign(s) PROVE Good(req'[r], now, tree)
  <2> DEFINE root == req[s].root
  <2>1. CASE s # r
    BY <1>0, <1>6, <1>10, <2>1 DEF SignFromCache, Sign, TypeOK
  <2>2. CASE s = r
    <3>1. req[r].pc = "root"
      BY <1>10, <2>2 DEF SignFromCache, Sign
    <3>2. Covers(tree, root.size, Millis(root.nanos)) /\ root \in Root
      BY <1>0, <2>2, <3>1, RootFields DEF TimeInv
    <3>3. /\ req'[r].pc \in {"signed", "reply"}
          /\ req'[r].sth.size = root.size /\ req'[r].sth.timestamp = Millis(root.nanos)
      BY <1>0, <1>10, <2>2 DEF SignFromCache, Sign, STHInput, TypeOK
    <3>4. root.size <= Len(tree)
      BY <3>2 DEF Covers
    <3> QED
      BY <3>2, <3>3, <3>4
  <2> QED
    BY <2>1, <2>2
<1>11. ASSUME NEW s \in Requests, SetSignature(s) PROVE Good(req'[r], now, tree)
  <2>1. CASE s # r
    BY <1>0, <1>6, <1>11, <2>1 DEF SetSignature, TypeOK
  <2>2. CASE s = r
    <3>1. Covers(tree, req[r].sth.size, req[r].sth.timestamp)
      BY <1>0, <1>11, <2>2 DEF SetSignature, TimeInv
    <3>2. req[r].sth.size <= Len(tree)
      BY <3>1 DEF Covers
    <3>3. req'[r] = [pc |-> "reply", sth |-> req[r].sth]
      BY <1>0, <1>11, <2>2 DEF SetSignature, TypeOK
    <3> QED
      BY <3>1, <3>2, <3>3
  <2> QED
    BY <2>1, <2>2
<1>12. ASSUME NEW s \in Requests, MirrorSTH(s) PROVE Good(req'[r], now, tree)
  <2>1. CASE s # r
    BY <1>0, <1>6, <1>12, <2>1 DEF MirrorSTH, MirrorSTHs, TypeOK
  <2>2. CASE s = r
    <3>1. PICK n \in 0 .. Cardinality(Certs) : n <= req[r].root.size /\ req' = [req EXCEPT ![r] =
            [pc |-> "reply", sth |-> [size |-> n, timestamp |-> 0, sig |-> <<n, 0>>]]]
      BY <1>12, <2>2 DEF MirrorSTH, MirrorSTHs
    <3>2. req'[r] = [pc |-> "reply", sth |-> [size |-> n, timestamp |-> 0, sig |-> <<n, 0>>]]
      BY <1>0, <3>1 DEF TypeOK
    <3>3. req[r].pc = "root" /\ mode = "mirror"
      BY <1>12, <2>2 DEF MirrorSTH, MirrorSTHs
    <3>4. req[r].root.size \in Nat /\ req[r].root.size <= Len(tree) /\ Len(tree) \in Nat
      BY <1>0, <3>3, RootFields DEF TimeInv, Covers, Root, TypeOK
    <3>5. n <= Len(tree)
      BY <3>1, <3>4
    <3> QED
      BY <3>2, <3>3, <3>5
  <2> QED
    BY <2>1, <2>2
<1>13. ASSUME NEW f \in Frontends, Restart(f) PROVE Good(req'[r], now, tree)
  BY <1>6, <1>13 DEF Restart
<1>14. ASSUME Tick \/ Sequence \/ Republish \/ (\E c \in Certs : MirrorAdds(c)) \/ UNCHANGED vars
       PROVE Good(req'[r], now, tree)
  <2>1. req' = req
    BY <1>14 DEF Tick, Sequence, Republish, MirrorAdds, vars
  <2> QED
    BY <1>6, <2>1
<1>15. Good(req'[r], now, tree)
  <2> HIDE DEF Good
  <2> QED
    BY <1>7, <1>8, <1>9, <1>10, <1>11, <1>12, <1>13, <1>14 DEF Next, GetSTHSteps
<1> QED
  BY <1>2, <1>5, <1>15

\* Everything survives every step.
THEOREM Inductive == Spec => []IInv
<1>1. IInv /\ [Next]_vars => IInv'
  <2> SUFFICES ASSUME IInv, [Next]_vars PROVE IInv'
    OBVIOUS
  <2>1. TypeOK' /\ StoreInv' /\ RequestInv' /\ SCTHonoured'
    BY TypeStep, StoreStep, RequestStep, SCTStep
  <2>2. TimeInv'
    BY LeafTimeStep, RootsStep, RequestTimeStep DEF TimeInv
  <2>3. STHWithinTree'
    BY RequestTimeStep DEF STHWithinTree, Covers
  <2> QED
    BY <2>1, <2>2, <2>3 DEF IInv
<1> QED
  BY InitInv, <1>1, PTL DEF Spec

\* CTFE's variables keep their types.
THEOREM TypeCorrect == Spec => []TypeOK
<1>1. IInv => TypeOK
  BY DEF IInv
<1> QED
  BY Inductive, <1>1, PTL

\* addChainInternal: every SCT is for a leaf that Trillian stores, however many
\* front ends and requests there are and whichever RPCs fail.
\* BuildLogLeaf's identity: one entry and one SCT per certificate.
THEOREM SCTsHonoured == Spec => []SCTsExact
<1>1. IInv => SCTHonoured
  BY DEF IInv
<1>2. IInv => OneEntryPerCert
  BY DEF IInv, StoreInv, SCTHonoured, OneEntryPerCert
<1>3. IInv => SCTsExact
  BY <1>1, <1>2 DEF SCTsExact
<1> QED
  BY Inductive, <1>3, PTL

\* signV1TreeHead and GetSTH: a served STH carries its own signature and lies
\* within the tree, whatever the cache went through.
THEOREM TreeHeadsCorrect == Spec => []STHSound
<1>1. IInv => STHSound
  BY DEF IInv, RequestInv, STHSignatureValid, STHSound
<1> QED
  BY Inductive, <1>1, PTL

-----------------------------------------------------------------------------
(* The read endpoints.                                                      *)

\* An int64 is itself.
LEMMA WrapFacts ==
  ASSUME NEW n \in Int, -MaxInt - 1 <= n, n <= MaxInt
  PROVE  Wrap(n) = n
  BY ReadsAssumption DEF Wrap

\* The range that is asked for begins where the request's does, is not longer
\* than MaxGetEntriesAllowed and, aligned or not, does not go beyond its end.
LEMMA RangeFacts ==
  ASSUME NEW start \in 0 .. MaxInt, NEW end \in start .. MaxInt - 1
  PROVE  /\ ParseGetEntriesRange(start, end) \in start .. end
         /\ ParseGetEntriesRange(start, end) <= start + MaxGetEntriesAllowed - 1
<1>1. MaxInt \in Nat /\ MaxGetEntriesAllowed \in Nat \ {0} /\ MaxGetEntriesAllowed <= MaxInt
  BY ReadsAssumption
<1>2. PICK count : count = Wrap(Wrap(end - start) + 1)
  OBVIOUS
<1>3. count = end - start + 1
  <2>1. Wrap(end - start) = end - start
    BY <1>1, WrapFacts
  <2>2. Wrap((end - start) + 1) = (end - start) + 1
    BY <1>1, WrapFacts
  <2> QED
    BY <1>2, <2>1, <2>2
<1>4. PICK cut : cut = IF count > MaxGetEntriesAllowed THEN Wrap(start + MaxGetEntriesAllowed - 1) ELSE end
  OBVIOUS
<1>5. cut \in start .. end /\ cut <= start + MaxGetEntriesAllowed - 1
      /\ (count >= MaxGetEntriesAllowed => cut = start + MaxGetEntriesAllowed - 1)
  <2>1. CASE count > MaxGetEntriesAllowed
    <3>1. Wrap(start + MaxGetEntriesAllowed - 1) = start + MaxGetEntriesAllowed - 1
      BY <1>1, <1>3, <2>1, WrapFacts
    <3> QED
      BY <1>1, <1>3, <1>4, <2>1, <3>1
  <2>2. CASE ~(count > MaxGetEntriesAllowed)
    BY <1>1, <1>3, <1>4, <2>2
  <2> QED
    BY <2>1, <2>2
<1>6. PICK over : over = Rem(Wrap(cut + 1), MaxGetEntriesAllowed)
  OBVIOUS
<1>7. over \in 0 .. MaxGetEntriesAllowed - 1
  <2>1. Wrap(cut + 1) = cut + 1 /\ cut + 1 \in Nat
    BY <1>1, <1>5, WrapFacts
  <2>2. over = (cut + 1) % MaxGetEntriesAllowed
    BY <1>6, <2>1 DEF Rem
  <2> QED
    BY <1>1, <2>1, <2>2
<1>8. CASE align /\ count >= MaxGetEntriesAllowed
  <2>1. ParseGetEntriesRange(start, end) = Wrap(cut - over)
    BY <1>2, <1>4, <1>6, <1>8 DEF ParseGetEntriesRange
  <2>2. Wrap(cut - over) = cut - over /\ cut - over >= start
    BY <1>1, <1>5, <1>7, <1>8, WrapFacts
  <2> QED
    BY <1>1, <1>5, <1>7, <2>1, <2>2
<1>9. CASE ~(align /\ count >= MaxGetEntriesAllowed)
  <2>1. ParseGetEntriesRange(start, end) = cut
    BY <1>2, <1>4, <1>6, <1>9 DEF ParseGetEntriesRange
  <2> QED
    BY <1>5, <2>1
<1> QED
  BY <1>8, <1>9

\* The leaves below an index.
Below(s, x) == {j \in DOMAIN s : s[j] < x}

\* Leaves with k indices in a row, in any order: each index comes once, and x - a
\* of them are below x.
LEMMA RunFacts ==
  ASSUME NEW a \in Nat, NEW k \in Nat, NEW s \in Seq(Int), Len(s) = k, ToSet(s) = a .. a + k - 1,
         NEW x \in a .. a + k
  PROVE  /\ \A i, j \in 1 .. k : s[i] = s[j] => i = j
         /\ Cardinality(Below(s, x)) = x - a
<1>1. DOMAIN s = 1 .. k /\ s \in [1 .. k -> a .. a + k - 1] /\ \A y \in a .. a + k - 1 : \E j \in 1 .. k : s[j] = y
  <2>1. s \in [1 .. k -> Int]
    OBVIOUS
  <2>2. \A j \in 1 .. k : s[j] \in ToSet(s)
    BY <2>1 DEF ToSet
  <2>3. \A y \in ToSet(s) : \E j \in 1 .. k : s[j] = y
    BY <2>1 DEF ToSet
  <2> QED
    BY <2>1, <2>2, <2>3
<1>2. s \in Surjection(1 .. k, a .. a + k - 1)
  BY <1>1 DEF Surjection
<1>3. /\ IsFiniteSet(1 .. k) /\ Cardinality(1 .. k) = k
      /\ IsFiniteSet(a .. a + k - 1) /\ Cardinality(a .. a + k - 1) = k
  BY FS_Interval
<1>4. s \in Injection(1 .. k, a .. a + k - 1)
  BY <1>2, <1>3, FS_SurjSameCardinalityImpliesInj
<1>5. \A i, j \in 1 .. k : s[i] = s[j] => i = j
  BY <1>1, <1>4 DEF Injection, IsInjective
<1> DEFINE below == {j \in DOMAIN s : s[j] < x}
           f == [j \in below |-> s[j]]
<1>6. f \in Bijection(below, a .. x - 1)
  <2>1. f \in [below -> a .. x - 1]
    BY <1>1
  <2>2. \A y \in a .. x - 1 : \E j \in below : f[j] = y
    <3> SUFFICES ASSUME NEW y \in a .. x - 1 PROVE \E j \in below : s[j] = y
      OBVIOUS
    <3>1. y \in a .. a + k - 1 /\ y < x
      OBVIOUS
    <3> QED
      BY <1>1, <3>1
  <2>3. \A i, j \in below : f[i] = f[j] => i = j
    BY <1>1, <1>5
  <2> QED
    BY <2>1, <2>2, <2>3 DEF Bijection, Injection, Surjection, IsInjective
<1>7. IsFiniteSet(below)
  BY <1>1, <1>3, FS_Subset
<1>8. Cardinality(a .. x - 1) = Cardinality(below)
  BY <1>6, <1>7, FS_Bijection DEF ExistsBijection
<1>9. Cardinality(a .. x - 1) = x - a
  <2>1. Cardinality(a .. x - 1) = IF a > x - 1 THEN 0 ELSE (x - 1) - a + 1
    BY FS_Interval
  <2> QED
    BY <2>1
<1> QED
  BY <1>5, <1>8, <1>9 DEF Below

\* Sorting them puts them in a row.
LEMMA AscendingFacts ==
  ASSUME NEW a \in Nat, NEW k \in Nat, NEW s \in Seq(Int), Len(s) = k, ToSet(s) = a .. a + k - 1
  PROVE  \A i \in 1 .. k : Ascending(s)[i] = a + i - 1
<1> SUFFICES ASSUME NEW i \in 1 .. k PROVE Ascending(s)[i] = a + i - 1
  OBVIOUS
<1> DEFINE Fits(x) == /\ Cardinality({j \in DOMAIN s : s[j] < x}) < i
                      /\ Cardinality({j \in DOMAIN s : s[j] <= x}) >= i
<1>1. ASSUME NEW x \in ToSet(s) PROVE Fits(x) <=> x = a + i - 1
  <2>1. x \in a .. a + k /\ x + 1 \in a .. a + k
    OBVIOUS
  <2>2. Cardinality(Below(s, x)) = x - a
    BY <2>1, RunFacts
  <2>3. Cardinality(Below(s, x + 1)) = x + 1 - a
    <3>1. PICK y : y = x + 1
      OBVIOUS
    <3>2. Cardinality(Below(s, y)) = y - a
      BY <2>1, <3>1, RunFacts
    <3> QED
      BY <3>1, <3>2
  <2>4. Below(s, x + 1) = {j \in DOMAIN s : s[j] <= x}
    BY <2>1 DEF Below
  <2>5. Cardinality({j \in DOMAIN s : s[j] <= x}) = x + 1 - a
    BY <2>3, <2>4
  <2> QED
    BY <2>1, <2>2, <2>5 DEF Below
<1>2. a + i - 1 \in ToSet(s)
  OBVIOUS
<1>3. Ascending(s)[i] = CHOOSE x \in ToSet(s) : Fits(x)
  BY DEF Ascending
<1> HIDE DEF Fits
<1> QED
  BY <1>1, <1>2, <1>3

\* Leaves that come sorted are in a row already.
LEMMA SortedFacts ==
  ASSUME NEW a \in Nat, NEW k \in Nat, NEW s \in Seq(Int), Len(s) = k, ToSet(s) = a .. a + k - 1,
         \A i, j \in 1 .. Len(s) : i < j => s[i] <= s[j]
  PROVE  \A i \in 1 .. k : s[i] = a + i - 1
<1> SUFFICES ASSUME NEW i \in 1 .. k PROVE s[i] = a + i - 1
  OBVIOUS
<1>1. DOMAIN s = 1 .. k /\ \A j \in 1 .. k : s[j] \in a .. a + k - 1
  <2>1. s \in [1 .. k -> Int]
    OBVIOUS
  <2> QED
    BY <2>1 DEF ToSet
<1>2. PICK x : x = s[i]
  OBVIOUS
<1>3. x \in a .. a + k
  BY <1>1, <1>2
<1>4. /\ \A m, j \in 1 .. k : s[m] = s[j] => m = j
      /\ Cardinality(Below(s, x)) = x - a
  BY <1>3, RunFacts
<1>5. \A m, j \in 1 .. k : m < j => s[m] <= s[j]
  OBVIOUS
<1>6. ASSUME NEW j \in 1 .. k PROVE s[j] < x <=> j < i
  <2>1. s[j] \in Int /\ s[i] \in Int /\ j \in Int /\ i \in Int
    BY <1>1
  <2>2. j < i => s[j] <= s[i] /\ s[j] # s[i]
    BY <1>4, <1>5
  <2>3. i < j => s[i] <= s[j]
    BY <1>5
  <2> QED
    BY <1>2, <2>1, <2>2, <2>3
<1>7. Below(s, x) = 1 .. i - 1
  BY <1>1, <1>6 DEF Below
<1>8. Cardinality(1 .. i - 1) = i - 1
  BY FS_Interval
<1> QED
  BY <1>1, <1>2, <1>3, <1>4, <1>7, <1>8

\* Replies of a replica are sequences of indices.
LEMMA ReplyFacts ==
  ASSUME NEW reply \in SeqOf(0 .. MaxSize, MaxGetEntriesAllowed + 1)
  PROVE  reply \in Seq(Int) /\ Len(reply) \in Nat
<1>1. PICK m \in 0 .. MaxGetEntriesAllowed + 1 : reply \in [1 .. m -> 0 .. MaxSize]
  BY DEF SeqOf
<1> QED
  BY <1>1, ReadsAssumption

\* getEntries, for an end below the largest int64.
LEMMA EntriesFacts ==
  ASSUME NEW start \in -1 .. MaxInt, NEW end \in -1 .. MaxInt, end < MaxInt, NEW root \in 0 .. MaxSize,
         NEW reply \in SeqOf(0 .. MaxSize, MaxGetEntriesAllowed + 1),
         NEW result, result = GetEntriesResult(start, end, root, reply),
         NEW last, last = ParseGetEntriesRange(start, end)
  PROVE  /\ result.status = "OK" =>
              /\ \A i \in 1 .. Len(result.body) : result.body[i] = start + i - 1
              /\ start + Len(result.body) - 1 <= end
              /\ Len(result.body) <= MaxGetEntriesAllowed
         /\ 0 <= start /\ start <= end /\ start < root =>
              /\ last \in start .. end
              /\ /\ ToSet(reply) = start .. start + Len(reply) - 1
                 /\ start + Len(reply) - 1 <= last
                 /\ byRange => \A i, j \in 1 .. Len(reply) : i < j => reply[i] <= reply[j]
                 => result.status = "OK"
<1>1. MaxInt \in Nat /\ MaxGetEntriesAllowed \in Nat \ {0} /\ MaxSize \in Nat
  BY ReadsAssumption
<1>2. reply \in Seq(Int) /\ Len(reply) \in Nat
  BY ReplyFacts
<1>3. CASE start < 0 \/ start > end
  <2>1. last = None
    BY <1>1, <1>3 DEF ParseGetEntriesRange
  <2>2. result = Status("BadRequest")
    BY <2>1 DEF GetEntriesResult
  <2>3. result.status # "OK"
    BY <2>2 DEF Status
  <2> QED
    BY <1>3, <2>3
<1>4. CASE 0 <= start /\ start <= end
  <2>1. start \in 0 .. MaxInt /\ end \in start .. MaxInt - 1
    BY <1>1, <1>4
  <2>2. last \in start .. end /\ last <= start + MaxGetEntriesAllowed - 1
    BY <2>1, RangeFacts
  <2>3. last \in Int /\ last # None
    BY <2>2, ReadsAssumption
  <2>4. PICK count : count = Wrap(Wrap(last + 1) - start)
    OBVIOUS
  <2>5. count = last + 1 - start
    <3>1. Wrap(last + 1) = last + 1
      BY <1>1, <2>1, <2>2, WrapFacts
    <3>2. Wrap((last + 1) - start) = (last + 1) - start
      BY <1>1, <2>1, <2>2, WrapFacts
    <3> QED
      BY <2>1, <2>3, <2>4, <3>1, <3>2
  <2>6. PICK sorted : sorted = IF byRange THEN reply ELSE Ascending(reply)
    OBVIOUS
  <2>7. Len(sorted) = Len(reply)
    BY <1>2, <2>6 DEF Ascending
  <2>8. result = IF root <= start THEN Status("BadRequest") ELSE RunFrom(start, last, sorted)
    BY <1>1, <2>1, <2>2, <2>3, <2>4, <2>5, <2>6 DEF GetEntriesResult
  <2>9. RunFrom(start, last, sorted) =
          IF Len(sorted) <= count /\ \A i \in 1 .. Len(sorted) : sorted[i] = start + i - 1
          THEN Body(sorted) ELSE Status("InternalServerError")
    BY <2>4 DEF RunFrom
  <2>10. ASSUME result.status = "OK"
         PROVE  /\ \A i \in 1 .. Len(result.body) : result.body[i] = start + i - 1
                /\ start + Len(result.body) - 1 <= end
                /\ Len(result.body) <= MaxGetEntriesAllowed
    <3>1. /\ result.body = sorted /\ Len(sorted) <= count
          /\ \A i \in 1 .. Len(sorted) : sorted[i] = start + i - 1
      BY <2>8, <2>9, <2>10 DEF Body, Status
    <3>2. Len(sorted) \in Nat
      BY <1>2, <2>7
    <3> QED
      BY <1>1, <2>1, <2>2, <2>5, <3>1, <3>2
  <2>11. ASSUME start < root, ToSet(reply) = start .. start + Len(reply) - 1,
                start + Len(reply) - 1 <= last,
                byRange => \A i, j \in 1 .. Len(reply) : i < j => reply[i] <= reply[j]
         PROVE  result.status = "OK"
    <3>1. start \in Nat
      BY <2>1
    <3>2. \A i \in 1 .. Len(sorted) : sorted[i] = start + i - 1
      <4>1. CASE byRange
        BY <1>2, <2>6, <2>11, <3>1, <4>1, SortedFacts
      <4>2. CASE ~byRange
        BY <1>2, <2>6, <2>7, <2>11, <3>1, <4>2, AscendingFacts
      <4> QED
        BY <4>1, <4>2
    <3>3. Len(sorted) <= count
      BY <1>2, <2>2, <2>5, <2>7, <2>11, <3>1
    <3>4. root \in Int
      OBVIOUS
    <3>5. ~(root <= start)
      BY <2>11, <3>1, <3>4
    <3> QED
      BY <2>8, <2>9, <3>2, <3>3, <3>5 DEF Body
  <2> QED
    BY <2>2, <2>10, <2>11
<1>5. start \in Int /\ end \in Int
  BY <1>1
<1> QED
  BY <1>3, <1>4, <1>5

\* What the answer to each request is.
ReadsInv ==
  \/ answer = NoRequest
  \/ \E start, end \in -1 .. MaxInt, root \in 0 .. MaxSize,
        reply \in SeqOf(0 .. MaxSize, MaxGetEntriesAllowed + 1) :
       answer = Answer("entries", start, end, root, reply, GetEntriesResult(start, end, root, reply))
  \/ \E i \in 0 .. MaxSize, n \in -1 .. MaxSize + 1, root \in 0 .. MaxSize :
       answer = Answer("hash", i, n, root, <<>>, GetProofByHashResult(i, n, root))
  \/ \E m, n \in -1 .. MaxSize + 1, root \in 0 .. MaxSize :
       answer = Answer("consistency", m, n, root, <<>>, GetSTHConsistencyResult(m, n, root))
  \/ \E i, n \in -1 .. MaxSize + 1, root \in 0 .. MaxSize :
       answer = Answer("entry", i, n, root, <<>>, GetEntryAndProofResult(i, n, root))

\* The flags do not change, so that an answer stays the answer.
LEMMA ReadsStep ==
  ASSUME ReadsInv, [ReadNext]_readVars
  PROVE  ReadsInv'
<1>1. UNCHANGED <<align, byRange>>
  BY DEF ReadNext, readVars
<1>2. \A start, end, root, reply :
        GetEntriesResult(start, end, root, reply)' = GetEntriesResult(start, end, root, reply)
  BY <1>1 DEF GetEntriesResult, ParseGetEntriesRange
<1>3. CASE UNCHANGED answer
  BY <1>2, <1>3 DEF ReadsInv
<1>4. CASE answer' = NoRequest
  BY <1>4 DEF ReadsInv
<1>5. CASE GetEntries
  BY <1>2, <1>5 DEF ReadsInv, GetEntries
<1>6. CASE GetProofByHash
  BY <1>6 DEF ReadsInv, GetProofByHash
<1>7. CASE GetSTHConsistency
  BY <1>7 DEF ReadsInv, GetSTHConsistency
<1>8. CASE GetEntryAndProof
  BY <1>8 DEF ReadsInv, GetEntryAndProof
<1> QED
  BY <1>3, <1>4, <1>5, <1>6, <1>7, <1>8 DEF ReadNext, readVars

\* Every answer is right.
LEMMA AnswersAreRight == ReadsInv => ReadsExact
<1> SUFFICES ASSUME ReadsInv PROVE EntriesExact /\ EntriesServed /\ ProofsExact
  BY DEF ReadsExact
<1>1. MaxSize \in Nat /\ MaxInt \in Nat
  BY ReadsAssumption
<1>2. \A i, n \in Nat : <<"in", i, n>> # None /\ <<"cons", i, n>> # None
  <2> SUFFICES ASSUME NEW i \in Nat, NEW n \in Nat PROVE <<"in", i, n>> # None /\ <<"cons", i, n>> # None
    OBVIOUS
  <2>1. <<"in", i, n>> \in {"in", "cons"} \X Nat \X Nat /\ <<"cons", i, n>> \in {"in", "cons"} \X Nat \X Nat
    OBVIOUS
  <2> QED
    BY <2>1, ReadsAssumption
<1>3. CASE answer = NoRequest
  BY <1>3 DEF NoRequest, EntriesExact, EntriesServed, ProofsExact, EntriesAsked
<1>4. ASSUME NEW start \in -1 .. MaxInt, NEW end \in -1 .. MaxInt, NEW root \in 0 .. MaxSize,
             NEW reply \in SeqOf(0 .. MaxSize, MaxGetEntriesAllowed + 1),
             answer = Answer("entries", start, end, root, reply, GetEntriesResult(start, end, root, reply))
      PROVE  EntriesExact /\ EntriesServed /\ ProofsExact
  <2>1. PICK result : result = GetEntriesResult(start, end, root, reply)
    OBVIOUS
  <2>2. /\ answer.op = "entries" /\ answer.a = start /\ answer.b = end /\ answer.root = root
        /\ answer.reply = reply /\ answer.result = result
    BY <1>4, <2>1 DEF Answer
  <2>3. PICK last : last = ParseGetEntriesRange(start, end)
    OBVIOUS
  <2>4. ASSUME end < MaxInt
        PROVE /\ result.status = "OK" =>
                   /\ \A i \in 1 .. Len(result.body) : result.body[i] = start + i - 1
                   /\ start + Len(result.body) - 1 <= end
                   /\ Len(result.body) <= MaxGetEntriesAllowed
              /\ 0 <= start /\ start <= end /\ start < root =>
                   /\ last \in start .. end
                   /\ /\ ToSet(reply) = start .. start + Len(reply) - 1
                      /\ start + Len(reply) - 1 <= last
                      /\ byRange => \A i, j \in 1 .. Len(reply) : i < j => reply[i] <= reply[j]
                      => result.status = "OK"
    BY <2>1, <2>3, <2>4, EntriesFacts
  <2>5. EntriesExact
    BY <2>2, <2>4 DEF EntriesExact, EntriesAsked, OK
  <2>6. EntriesServed
    BY <2>2, <2>3, <2>4 DEF EntriesServed, EntriesAsked, OK, IsSorted
  <2>7. ProofsExact
    BY <2>2 DEF ProofsExact
  <2> QED
    BY <2>5, <2>6, <2>7
<1>5. ASSUME NEW i \in 0 .. MaxSize, NEW n \in -1 .. MaxSize + 1, NEW root \in 0 .. MaxSize,
             answer = Answer("hash", i, n, root, <<>>, GetProofByHashResult(i, n, root))
      PROVE  EntriesExact /\ EntriesServed /\ ProofsExact
  <2>1. PICK result : result = GetProofByHashResult(i, n, root)
    OBVIOUS
  <2>2. /\ answer.op = "hash" /\ answer.a = i /\ answer.b = n /\ answer.root = root
        /\ answer.result = result
    BY <1>5, <2>1 DEF Answer
  <2>3. i < n /\ n <= root => result.status = "OK" /\ result.body = <<"in", i, n>>
    BY <1>1, <1>2, <2>1 DEF GetProofByHashResult, InclusionProof, Body
  <2>4. ~(i < n /\ n <= root) => result.status \in {"BadRequest", "NotFound"}
    BY <1>1, <2>1 DEF GetProofByHashResult, InclusionProof, Status
  <2> QED
    BY <2>2, <2>3, <2>4 DEF EntriesExact, EntriesServed, ProofsExact, EntriesAsked, OK
<1>6. ASSUME NEW m \in -1 .. MaxSize + 1, NEW n \in -1 .. MaxSize + 1, NEW root \in 0 .. MaxSize,
             answer = Answer("consistency", m, n, root, <<>>, GetSTHConsistencyResult(m, n, root))
      PROVE  EntriesExact /\ EntriesServed /\ ProofsExact
  <2>1. PICK result : result = GetSTHConsistencyResult(m, n, root)
    OBVIOUS
  <2>2. /\ answer.op = "consistency" /\ answer.a = m /\ answer.b = n /\ answer.root = root
        /\ answer.result = result
    BY <1>6, <2>1 DEF Answer
  <2>3. 0 <= m /\ m <= n /\ (n <= root \/ m = 0) => result.status = "OK" /\ result.body = <<"cons", m, n>>
    BY <1>1, <1>2, <2>1 DEF GetSTHConsistencyResult, ConsistencyProof, Body
  <2>4. ~(0 <= m /\ m <= n /\ (n <= root \/ m = 0)) => result.status \in {"BadRequest", "NotFound"}
    BY <1>1, <2>1 DEF GetSTHConsistencyResult, ConsistencyProof, Status
  <2> QED
    BY <2>2, <2>3, <2>4 DEF EntriesExact, EntriesServed, ProofsExact, EntriesAsked, OK
<1>7. ASSUME NEW i \in -1 .. MaxSize + 1, NEW n \in -1 .. MaxSize + 1, NEW root \in 0 .. MaxSize,
             answer = Answer("entry", i, n, root, <<>>, GetEntryAndProofResult(i, n, root))
      PROVE  EntriesExact /\ EntriesServed /\ ProofsExact
  <2>1. PICK result : result = GetEntryAndProofResult(i, n, root)
    OBVIOUS
  <2>2. /\ answer.op = "entry" /\ answer.a = i /\ answer.b = n /\ answer.root = root
        /\ answer.result = result
    BY <1>7, <2>1 DEF Answer
  <2>3. 0 <= i /\ i < n /\ n <= root => result.status = "OK" /\ result.body = <<i, <<"in", i, n>>>>
    BY <1>1, <1>2, <2>1 DEF GetEntryAndProofResult, InclusionProof, NoHashes, Body
  <2>4. ~(0 <= i /\ i < n /\ n <= root) => result.status \in {"BadRequest", "NotFound"}
    BY <1>1, <2>1 DEF GetEntryAndProofResult, InclusionProof, Status
  <2> QED
    BY <2>2, <2>3, <2>4 DEF EntriesExact, EntriesServed, ProofsExact, EntriesAsked, OK
<1> QED
  BY <1>3, <1>4, <1>5, <1>6, <1>7 DEF ReadsInv

\* The read endpoints serve exactly what was asked for, for every size of tree,
\* range and integer, whatever the replica returns.
THEOREM ReadsCorrect == ReadInit /\ [][ReadNext]_readVars => []ReadsExact
<1>1. ReadInit => ReadsInv
  BY DEF ReadInit, ReadsInv
<1>2. ReadsInv /\ [ReadNext]_readVars => ReadsInv'
  BY ReadsStep
<1> QED
  BY <1>1, <1>2, AnswersAreRight, PTL

-----------------------------------------------------------------------------
(* SCTs and the certificates they are embedded in.                          *)

\* The pre-issuer of a precertificate chain, if there is one, and the issuer.
PreIssuers(chain) == IF IsPreIssuer(chain[2]) THEN <<chain[2]>> ELSE <<>>
IssuerOf(chain) == IF IsPreIssuer(chain[2]) THEN chain[3] ELSE chain[2]

\* RemoveExtension and BuildPrecertTBS succeed or fail.
LEMMA TBSResults ==
  ASSUME NEW tbs, NEW id, NEW pre
  PROVE  /\ RemoveExtension(tbs, id) = Err
            \/ RemoveExtension(tbs, id) = Ok(RemoveExtension(tbs, id).val)
         /\ BuildPrecertTBS(tbs, pre).ok
              => BuildPrecertTBS(tbs, pre) = Ok(BuildPrecertTBS(tbs, pre).val)
<1>1. \A v : Ok(v).val = v
  BY DEF Ok
<1>2. ASSUME NEW k
      PROVE  RemoveExtension(tbs, k) = Err \/ \E v : RemoveExtension(tbs, k) = Ok(v)
  BY DEF RemoveExtension
<1>3. BuildPrecertTBS(tbs, pre) = Err \/ \E v : BuildPrecertTBS(tbs, pre) = Ok(v)
  BY <1>2 DEF BuildPrecertTBS
<1>4. ~Err.ok
  BY DEF Err
<1> QED
  BY <1>1, <1>2, <1>3, <1>4

\* MerkleTreeLeafFromChain of a precertificate chain.
LEMMA PrecertLeafFacts ==
  ASSUME NEW chain, NEW ts, NEW leaf, MerkleTreeLeafFromChain(chain, "precert", ts) = Ok(leaf)
  PROVE  \E t : /\ leaf = PrecertLeaf(t, IssuerOf(chain), ts)
                /\ BuildPrecertTBS(chain[1].tbs, PreIssuers(chain)) = Ok(t)
<1>0. PICK tbs : tbs = BuildPrecertTBS(chain[1].tbs, PreIssuers(chain))
  OBVIOUS
<1>1. MerkleTreeLeafFromChain(chain, "precert", ts) =
        IF "precert" = "x509" THEN Ok(X509Leaf(chain[1], ts))
        ELSE IF Len(chain) < 2 THEN Err
        ELSE IF IsPreIssuer(chain[2]) /\ Len(chain) < 3 THEN Err
        ELSE IF ~tbs.ok THEN Err
        ELSE Ok(PrecertLeaf(tbs.val, IssuerOf(chain), ts))
  BY <1>0 DEF MerkleTreeLeafFromChain, IssuerOf, PreIssuers
<1>2. Ok(leaf) # Err
  <2>1. Ok(leaf).ok /\ ~Err.ok
    BY DEF Ok, Err
  <2> QED
    BY <2>1
<1>3. tbs.ok /\ Ok(leaf) = Ok(PrecertLeaf(tbs.val, IssuerOf(chain), ts))
  BY <1>1, <1>2
<1>4. PICK l : l = PrecertLeaf(tbs.val, IssuerOf(chain), ts)
  OBVIOUS
<1>5. leaf = l
  BY <1>3, <1>4 DEF Ok
<1>6. tbs = Ok(tbs.val)
  BY <1>0, <1>3, TBSResults
<1> QED
  BY <1>0, <1>4, <1>5, <1>6

\* The leaf that an embedded SCT is checked against.
LEMMA EmbeddedLeaf ==
  ASSUME NEW final, NEW issuer, NEW ts
  PROVE  MerkleTreeLeafForEmbeddedSCT(<<final, issuer>>, ts) =
           IF RemoveSCTList(final.tbs).ok
           THEN Ok(PrecertLeaf(RemoveSCTList(final.tbs).val, issuer, ts)) ELSE Err
  BY DEF MerkleTreeLeafForEmbeddedSCT

\* Two precertificate leaves are the same exactly if their parts are.
LEMMA LeafParts ==
  ASSUME NEW t, NEW u, NEW a, NEW b, NEW ts
  PROVE  /\ PrecertLeaf(t, a, ts).entry = PrecertLeaf(u, b, ts).entry <=> t = u /\ a.key = b.key
         /\ PrecertLeaf(t, a, ts).entry = PrecertLeaf(u, b, ts).entry
              <=> PrecertLeaf(t, a, ts) = PrecertLeaf(u, b, ts)
         /\ PrecertLeaf(t, a, ts).type = "precert" /\ PrecertLeaf(t, a, ts).timestamp = ts
  BY DEF PrecertLeaf

\* What is signed determines the type and the entry.
LEMMA InputParts ==
  ASSUME NEW ts, NEW x1, NEW k, NEW l
  PROVE  SCTInput("V1", ts, x1, k) = SCTInput("V1", ts, x1, l)
           <=> k.type = l.type /\ k.entry = l.entry
  BY DEF SCTInput

\* The leaf a log stores for a precertificate chain, and its answer.
Logged(key, chain, ts, leaf, sct) ==
  /\ NewSignatureVerifier(key)
  /\ MerkleTreeLeafFromChain(chain, "precert", ts) = Ok(leaf)
  /\ sct = BuildV1SCT(key, leaf)

\* A certificate and its issuer go with a precertificate chain.
GoesWith(final, issuer, chain) ==
  /\ RemoveSCTList(final.tbs) = BuildPrecertTBS(chain[1].tbs, PreIssuers(chain))
  /\ issuer.key = IssuerOf(chain).key

\* An SCT verifies for the certificate it is embedded in.
Vouches(key, sct, final, issuer) == VerifySCT(key, <<final, issuer>>, sct, TRUE)

\* What BuildV1SCT signs and VerifySCT checks, for all certificates and chains: the
\* SCT that a log gives for a precertificate chain, embedded in a certificate,
\* verifies exactly for the certificates that, without their list of SCTs, are the
\* precertificate as the log read it, issuer's key included; and these are the ones
\* for which ctutil computes the hash of the leaf the log stored.
THEOREM SCTBinds ==
  ASSUME NEW key, NEW chain, NEW ts, NEW leaf, NEW sct, Logged(key, chain, ts, leaf, sct),
         NEW final, NEW issuer, sct \in ToSet(final.scts)
  PROVE  /\ Vouches(key, sct, final, issuer) <=> GoesWith(final, issuer, chain)
         /\ Vouches(key, sct, final, issuer) <=> LeafHash(<<final, issuer>>, sct, TRUE) = Ok(leaf)
<1> USE DEF Logged, Vouches, GoesWith
<1>0. PICK ca : ca = IssuerOf(chain)
  OBVIOUS
<1>1. PICK t : /\ leaf = PrecertLeaf(t, ca, ts)
               /\ BuildPrecertTBS(chain[1].tbs, PreIssuers(chain)) = Ok(t)
  BY <1>0, PrecertLeafFacts
<1>2. /\ sct.version = "V1" /\ sct.timestamp = ts /\ sct.extensions = <<>>
      /\ sct.signature = CreateSignature(key, "SHA256", SCTInput("V1", ts, <<>>, leaf))
  BY <1>1, LeafParts DEF BuildV1SCT
<1>3. ASSUME NEW l PROVE VerifySCTSignature(key, sct, l) <=> l.type = leaf.type /\ l.entry = leaf.entry
  <2>1. VerifySignature(key, SCTInput("V1", ts, <<>>, l), sct.signature)
          <=> SCTInput("V1", ts, <<>>, leaf) = SCTInput("V1", ts, <<>>, l)
    BY <1>2 DEF VerifySignature, CreateSignature, NewSignatureVerifier
  <2>2. VerifySCTSignature(key, sct, l)
          <=> VerifySignature(key, SCTInput("V1", ts, <<>>, l), sct.signature)
    BY <1>2 DEF VerifySCTSignature
  <2> QED
    BY <2>1, <2>2, InputParts
<1>4. PICK r : r = RemoveSCTList(final.tbs)
  OBVIOUS
<1>5. CreateLeaf(<<final, issuer>>, sct, TRUE) =
        IF r.ok THEN Ok(PrecertLeaf(r.val, issuer, ts)) ELSE Err
  <2>1. <<final, issuer>> # <<>> /\ <<final, issuer>>[1] = final
    OBVIOUS
  <2>2. CreateLeaf(<<final, issuer>>, sct, TRUE) = MerkleTreeLeafForEmbeddedSCT(<<final, issuer>>, ts)
    BY <1>2, <2>1 DEF CreateLeaf
  <2> QED
    BY <1>4, <2>2, EmbeddedLeaf
<1>6. (r.ok = TRUE /\ r = Ok(r.val)) \/ r = Err
  <2>1. r = Err \/ r = Ok(r.val)
    BY <1>4, TBSResults DEF RemoveSCTList
  <2> QED
    BY <2>1 DEF Ok
<1>8. \A v, w : /\ Ok(v).ok = TRUE /\ Ok(v).val = v /\ Err.ok = FALSE
                /\ Ok(v) = Ok(w) <=> v = w
                /\ Ok(v) # Err
  BY DEF Ok, Err
<1>9. CASE r = Err
  <2>1. CreateLeaf(<<final, issuer>>, sct, TRUE) = Err
    BY <1>5, <1>8, <1>9
  <2>2. ~VerifySCT(key, <<final, issuer>>, sct, TRUE)
    BY <1>8, <2>1 DEF VerifySCT
  <2>3. RemoveSCTList(final.tbs) # BuildPrecertTBS(chain[1].tbs, PreIssuers(chain))
    BY <1>1, <1>4, <1>8, <1>9
  <2>4. LeafHash(<<final, issuer>>, sct, TRUE) # Ok(leaf)
    BY <1>8, <2>1 DEF LeafHash
  <2> QED
    BY <2>2, <2>3, <2>4
<1>10. CASE r.ok = TRUE /\ r = Ok(r.val)
  <2>1. PICK l : l = PrecertLeaf(r.val, issuer, ts)
    OBVIOUS
  <2>2. CreateLeaf(<<final, issuer>>, sct, TRUE) = Ok(l)
    BY <1>5, <1>10, <2>1
  <2>3. VerifySCT(key, <<final, issuer>>, sct, TRUE) <=> VerifySCTSignature(key, sct, l)
    BY <1>8, <2>2 DEF VerifySCT
  <2>4. /\ l.type = leaf.type /\ l.entry = leaf.entry <=> r.val = t /\ issuer.key = ca.key
        /\ l.entry = leaf.entry <=> l = leaf
        /\ l.type = leaf.type
    BY <1>1, <2>1, LeafParts
  <2>5. r = Ok(t) <=> r.val = t
    BY <1>8, <1>10
  <2> QED
    BY <1>0, <1>1, <1>3, <1>4, <1>8, <2>2, <2>3, <2>4, <2>5 DEF LeafHash
<1> QED
  BY <1>6, <1>9, <1>10

\* Whoever made the SCT: if VerifySCT accepts it in two certificates they are the
\* same but for their lists of SCTs, and of issuers with the same key.
THEOREM SCTVouchesOnce ==
  ASSUME NEW key, NEW sct, NEW final, NEW issuer, NEW other, NEW ca,
         Vouches(key, sct, final, issuer), Vouches(key, sct, other, ca)
  PROVE  RemoveSCTList(final.tbs) = RemoveSCTList(other.tbs) /\ issuer.key = ca.key
<1> USE DEF Vouches
<1>1. ASSUME NEW c, NEW i, VerifySCT(key, <<c, i>>, sct, TRUE)
      PROVE  /\ RemoveSCTList(c.tbs) = Ok(RemoveSCTList(c.tbs).val)
             /\ sct.signature.over.entry = PrecertLeaf(RemoveSCTList(c.tbs).val, i, sct.timestamp).entry
  <2>1. PICK r : r = RemoveSCTList(c.tbs)
    OBVIOUS
  <2>2. PICK leaf : leaf = CreateLeaf(<<c, i>>, sct, TRUE)
    OBVIOUS
  <2>3. leaf.ok /\ VerifySCTSignature(key, sct, leaf.val)
    BY <1>1, <2>2 DEF VerifySCT
  <2>4. leaf = Err \/ leaf = MerkleTreeLeafForEmbeddedSCT(<<c, i>>, sct.timestamp)
    BY <2>2 DEF CreateLeaf
  <2>5. Err.ok = FALSE
    BY DEF Err
  <2>6. leaf = IF r.ok THEN Ok(PrecertLeaf(r.val, i, sct.timestamp)) ELSE Err
    BY <2>1, <2>3, <2>4, <2>5, EmbeddedLeaf
  <2>7. r.ok /\ leaf.val = PrecertLeaf(r.val, i, sct.timestamp)
    BY <2>3, <2>5, <2>6 DEF Ok
  <2>8. r = Ok(r.val)
    BY <2>1, <2>5, <2>7, TBSResults DEF RemoveSCTList
  <2>9. sct.signature.over.entry = leaf.val.entry
    BY <2>3 DEF VerifySCTSignature, VerifySignature, SCTInput
  <2> QED
    BY <2>1, <2>7, <2>8, <2>9
<1>2. PICK t : t = RemoveSCTList(final.tbs).val
  OBVIOUS
<1>3. PICK u : u = RemoveSCTList(other.tbs).val
  OBVIOUS
<1>4. PrecertLeaf(t, issuer, sct.timestamp).entry = PrecertLeaf(u, ca, sct.timestamp).entry
  BY <1>1, <1>2, <1>3
<1>5. t = u /\ issuer.key = ca.key
  BY <1>4, LeafParts
<1> QED
  BY <1>1, <1>2, <1>3, <1>5

\* Changing an element that is removed next changes nothing.
LEMMA RemoveChanged ==
  ASSUME NEW S, NEW s \in Seq(S), NEW i \in 1 .. Len(s), NEW e \in S
  PROVE  RemoveAt([s EXCEPT ![i] = e], i) = RemoveAt(s, i)
<1>1. PICK u : u = [s EXCEPT ![i] = e]
  OBVIOUS
<1>2. u \in Seq(S) /\ Len(u) = Len(s) /\ \A j \in 1 .. Len(s) : j # i => u[j] = s[j]
  BY <1>1
<1>3. SubSeq(u, 1, i - 1) = SubSeq(s, 1, i - 1)
  BY <1>2
<1>4. SubSeq(u, i + 1, Len(u)) = SubSeq(s, i + 1, Len(s))
  BY <1>2
<1> QED
  BY <1>1, <1>3, <1>4 DEF RemoveAt

\* A TBS with one of its extensions left out, and one that has an extension once.
Without(tbs, i) == Remarshal([tbs EXCEPT !.exts = RemoveAt(@, i)])
Only(tbs, id, i) == i \in Int /\ At(tbs.exts, id) = {i}

\* RemoveExtension of an extension that is there once.
LEMMA RemoveOne ==
  ASSUME NEW tbs, NEW id, NEW i, Only(tbs, id, i)
  PROVE  RemoveExtension(tbs, id) = Ok(Without(tbs, i))
<1>1. PICK at : at = At(tbs.exts, id)
  OBVIOUS
<1>2. at = {i} /\ i \in Int
  BY <1>1 DEF Only
<1>3. Cardinality(at) = 1
  BY <1>2, FS_Singleton
<1>4. First(at) = i
  BY <1>2 DEF First
<1>5. RemoveExtension(tbs, id) =
        IF Cardinality(at) # 1 THEN Err ELSE Ok(Remarshal([tbs EXCEPT !.exts = RemoveAt(@, First(at))]))
  BY <1>1 DEF RemoveExtension
<1> QED
  BY <1>3, <1>4, <1>5 DEF Without

\* The TBS that a CA makes from a precertificate's: the list of SCTs is where the
\* poison was, and nothing else is changed.
Issued(tbs, pre, Ext) ==
  /\ pre.exts \in Seq(Ext) /\ "exts" \in DOMAIN pre
  /\ At(pre.exts, "CTSCT") = {}
  /\ \E i \in 1 .. Len(pre.exts), ext \in Ext :
       /\ At(pre.exts, "CTPoison") = {i} /\ ext.id = "CTSCT"
       /\ tbs = [pre EXCEPT !.exts = [pre.exts EXCEPT ![i] = ext]]

\* Without poison and list the two are the same.
LEMMA IssuedTBS ==
  ASSUME NEW tbs, NEW pre, NEW Ext, Issued(tbs, pre, Ext)
  PROVE  RemoveSCTList(tbs) = RemoveExtension(pre, "CTPoison") /\ RemoveExtension(pre, "CTPoison").ok
<1>1. PICK s \in Seq(Ext) : s = pre.exts
  BY DEF Issued
<1>2. PICK i \in 1 .. Len(s), ext \in Ext :
        /\ At(s, "CTPoison") = {i} /\ ext.id = "CTSCT"
        /\ tbs = [pre EXCEPT !.exts = [s EXCEPT ![i] = ext]]
  BY <1>1 DEF Issued
<1>3. PICK u : u = [s EXCEPT ![i] = ext]
  OBVIOUS
<1>4. At(s, "CTSCT") = {} /\ "exts" \in DOMAIN pre
  BY <1>1 DEF Issued
<1>5. At(u, "CTSCT") = {i}
  <2>1. \A j \in 1 .. Len(s) : s[j].id # "CTSCT"
    BY <1>4 DEF At
  <2>2. Len(u) = Len(s) /\ \A j \in 1 .. Len(s) : u[j] = IF j = i THEN ext ELSE s[j]
    BY <1>3
  <2> QED
    BY <1>2, <2>1, <2>2 DEF At
<1>6. tbs.exts = u /\ tbs = [pre EXCEPT !.exts = u]
  BY <1>2, <1>3, <1>4
<1>7. Only(tbs, "CTSCT", i) /\ Only(pre, "CTPoison", i)
  BY <1>1, <1>2, <1>5, <1>6 DEF Only
<1>8. RemoveAt(u, i) = RemoveAt(s, i)
  <2>1. RemoveAt([s EXCEPT ![i] = ext], i) = RemoveAt(s, i)
    BY RemoveChanged
  <2> QED
    BY <1>3, <2>1
<1>9. Without(tbs, i) = Without(pre, i)
  <2>1. [tbs EXCEPT !.exts = RemoveAt(@, i)] = [tbs EXCEPT !.exts = RemoveAt(s, i)]
    BY <1>6, <1>8
  <2>2. [pre EXCEPT !.exts = RemoveAt(@, i)] = [pre EXCEPT !.exts = RemoveAt(s, i)]
    BY <1>1
  <2>3. [tbs EXCEPT !.exts = RemoveAt(s, i)] = [pre EXCEPT !.exts = RemoveAt(s, i)]
    BY <1>6
  <2> QED
    BY <2>1, <2>2, <2>3 DEF Without
<1>10. RemoveExtension(tbs, "CTSCT") = Ok(Without(pre, i)) /\ RemoveExtension(pre, "CTPoison") = Ok(Without(pre, i))
  BY <1>7, <1>9, RemoveOne
<1>11. Ok(Without(pre, i)).ok
  BY DEF Ok
<1> QED
  BY <1>10, <1>11 DEF RemoveSCTList

\* A CA that puts the list of SCTs in the place of the poison, and changes nothing
\* else, issues a certificate for which the SCT verifies, if the log was given the
\* precertificate with the issuer that will issue the certificate.
THEOREM IssuedVerifies ==
  ASSUME NEW key, NEW chain, NEW ts, NEW leaf, NEW sct, Logged(key, chain, ts, leaf, sct),
         ~IsPreIssuer(chain[2]),
         NEW final, sct \in ToSet(final.scts), NEW Ext, Issued(final.tbs, chain[1].tbs, Ext)
  PROVE  Vouches(key, sct, final, chain[2])
<1>1. PICK ca : ca = chain[2]
  OBVIOUS
<1>2. PICK pre : pre = chain[1].tbs
  OBVIOUS
<1>3. PreIssuers(chain) = <<>> /\ IssuerOf(chain) = ca
  BY <1>1 DEF PreIssuers, IssuerOf
<1>4. RemoveSCTList(final.tbs) = RemoveExtension(pre, "CTPoison") /\ RemoveExtension(pre, "CTPoison").ok
  BY <1>2, IssuedTBS
<1>5. BuildPrecertTBS(pre, <<>>) = RemoveExtension(pre, "CTPoison")
  BY <1>4 DEF BuildPrecertTBS
<1>6. GoesWith(final, ca, chain)
  BY <1>2, <1>3, <1>4, <1>5 DEF GoesWith
<1>7. Vouches(key, sct, final, ca)
  BY <1>6, SCTBinds
<1> QED
  BY <1>1, <1>7
=============================================================================
