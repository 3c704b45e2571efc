------------------------ MODULE SubmissionProxyProofs ------------------------
(***************************************************************************)
(* Proofs about the two long-running clients of logs.  SubmissionProxy:    *)
(* for any logs, lists, chains, requests and number of publications.       *)
(* Hammer, in the second half: for any configurations, trees and times.    *)
(***************************************************************************)
EXTENDS SubmissionProxy, Hammer, TLAPS

\* A Proxy that has just been made satisfies the invariant.
LEMMA InitInv == Init => IInv
<1> SUFFICES ASSUME Init PROVE IInv
  OBVIOUS
<1>1. TypeOK
  <2>1. source \in Publication
    BY ProxyAssumption DEF Init, Publication
  <2>2. req \in [Requests -> Request]
    BY DEF Init, Request
  <2>3. full \in [Publication -> BOOLEAN]
    BY DEF Init
  <2>4. <<ctxDone, errors>> \in BOOLEAN \X BOOLEAN
    BY DEF Init
  <2>5. clients \in [Publication -> SUBSET Logs] /\ known \in [Publication -> SUBSET Logs]
    BY DEF Init
  <2> QED
    BY <2>1, <2>2, <2>3, <2>4, <2>5 DEF Init, TypeOK
<1>2. OrderInv
  BY DEF Init, OrderInv, Nothing
<1>3. RootsInv
  BY DEF Init, RootsInv, Idle
<1>4. AcceptingLogsTried
  BY DEF Init, AcceptingLogsTried, Idle
<1> QED
  BY <1>1, <1>2, <1>3, <1>4 DEF IInv

-----------------------------------------------------------------------------
(* The fields of the states of a request.                                   *)

LEMMA RequestFields ==
  ASSUME NEW q \in Request
  PROVE  /\ q.pc \in {"idle", "call", "choose", "refused", "submit"}
         /\ q.pc # "idle" => q.chain \in Chains
         /\ q.pc \in {"choose", "refused", "submit"} => q.dist \in Publication
  BY DEF Request, Idle

\* What a client set is: clients for all usable logs, and for some pending ones.
LEMMA ClientSetFacts ==
  ASSUME NEW n \in Publication, TypeOK, NEW C \in ClientSets(content[n])
  PROVE  C \in SUBSET Logs /\ content[n].usable \subseteq C
<1>1. content[n] \in [usable : SUBSET Logs, pending : SUBSET Logs, parses : BOOLEAN]
  BY ProxyAssumption DEF TypeOK
<1> QED
  BY <1>1 DEF ClientSets

-----------------------------------------------------------------------------
(* Type correctness, goroutine by goroutine.                                *)

LEMMA TypeStep == IInv /\ [Next]_vars => TypeOK'
<1> SUFFICES ASSUME IInv, [Next]_vars PROVE TypeOK'
  OBVIOUS
<1>0. TypeOK
  BY DEF IInv
<1>1. CASE ManagerStep
  BY <1>0, <1>1 DEF TypeOK, ManagerStep, MgrStart, RefreshFails, RefreshUnchanged,
    RefreshChanged, SendUpdate, SendError, MgrTick, MgrEnds, MgrGoto, list, channels,
    proxy, roots
<1>2. CASE LoopEnds \/ TakeUpdate \/ TakeError \/ RestartFails
  BY <1>0, <1>2 DEF TypeOK, LoopEnds, TakeUpdate, TakeError, RestartFails, list, manager,
    channels, proxy, roots
<1>3. CASE Restart
  <2>1. update \in Publication
    BY <1>0, <1>3 DEF Restart, TypeOK, IInv, OrderInv, Publication, Nothing
  <2>2. PICK C \in ClientSets(content[update]) : clients' = [clients EXCEPT ![update] = C]
    BY <1>3 DEF Restart
  <2>3. C \in SUBSET Logs
    BY <1>0, <2>1, ClientSetFacts
  <2> QED
    BY <1>0, <1>3, <2>1, <2>2, <2>3 DEF TypeOK, Restart, list, manager, channels, Nothing
<1>4. ASSUME NEW n \in Publication, RefresherStep(n) PROVE TypeOK'
  <2>1. CASE RefreshRoots(n)
    <3>1. PICK S \in SUBSET clients[n] : /\ known' = [known EXCEPT ![n] = S]
                                         /\ full' = [full EXCEPT ![n] = S = clients[n]]
      BY <2>1 DEF RefreshRoots
    <3>2. S \in SUBSET Logs /\ (S = clients[n]) \in BOOLEAN
      BY <1>0, <3>1 DEF TypeOK
    <3> QED
      BY <1>0, <2>1, <3>1, <3>2 DEF TypeOK, RefreshRoots, RefresherGoto, list, manager,
        channels, proxy
  <2> QED
    BY <1>0, <1>4, <2>1 DEF TypeOK, RefresherStep, RefresherStart, RefresherTick,
      RefresherEnds, RefresherGoto, list, manager, channels, proxy
<1>5. ASSUME NEW r \in Requests, RequestStep(r) PROVE TypeOK'
  <2>1. req' \in [Requests -> Request]
    <3> USE <1>0 DEF ReqGoto
    <3>1. ASSUME NEW c \in Chains, AddChain(r, c) PROVE req' \in [Requests -> Request]
      BY <3>1 DEF AddChain, TypeOK, Request
    <3>2. CASE CallDistributor(r)
      <4>1. dist \in Publication /\ req[r].chain \in Chains
        BY <3>2, RequestFields DEF IInv, RootsInv, CallDistributor, TypeOK, Nothing
      <4> QED
        BY <3>2, <4>1 DEF CallDistributor, TypeOK, Request
    <3>3. CASE Choose(r)
      <4>1. req[r].dist \in Publication /\ req[r].chain \in Chains
        BY <3>3, RequestFields DEF Choose, TypeOK
      <4>2. content[req[r].dist].usable \in SUBSET Logs
        BY <4>1, ProxyAssumption DEF TypeOK
      <4>3. \A found : Compatible(req[r].dist, req[r].chain, found) \in SUBSET Logs
        BY <4>2 DEF Compatible
      <4> DEFINE n == req[r].dist
                 c == req[r].chain
                 found == c.root \in UNION {Accepts[l] : l \in known[n]}
      <4>4. \/ ReqGoto(r, [pc |-> "refused", chain |-> c, dist |-> n])
            \/ ReqGoto(r, [pc |-> "submit", chain |-> c, dist |-> n,
                           logs |-> Compatible(n, c, found)])
        BY <3>3 DEF Choose
      <4>5. /\ [pc |-> "refused", chain |-> c, dist |-> n] \in Request
            /\ [pc |-> "submit", chain |-> c, dist |-> n,
                logs |-> Compatible(n, c, found)] \in Request
        BY <4>1, <4>3 DEF Request
      <4> HIDE DEF n, c, found
      <4>6. \E q \in Request : req' = [req EXCEPT ![r] = q]
        BY <4>4, <4>5
      <4> QED
        BY <4>6 DEF TypeOK
    <3>4. CASE Answer(r)
      BY <3>4 DEF Answer, TypeOK, Request
    <3> QED
      BY <1>5, <3>1, <3>2, <3>3, <3>4 DEF RequestStep
  <2>2. UNCHANGED <<list, ctxDone, manager, channels, proxy, roots>>
    BY <1>5 DEF RequestStep, AddChain, CallDistributor, Choose, Answer, ReqGoto
  <2> QED
    BY <1>0, <2>1, <2>2 DEF TypeOK, list, manager, channels, proxy, roots
<1>6. CASE Publish \/ CancelContext
  <2>1. CASE Publish
    <3>1. source' \in Publication
      BY <1>0, <2>1, ProxyAssumption DEF TypeOK, Publish, Publication
    <3> QED
      BY <1>0, <2>1, <3>1 DEF TypeOK, Publish, manager, channels, proxy, roots
  <2>2. CASE CancelContext
    BY <1>0, <2>2 DEF TypeOK, CancelContext, list, manager, channels, proxy, roots
  <2> QED
    BY <1>6, <2>1, <2>2
<1>7. CASE UNCHANGED vars
  BY <1>0, <1>7 DEF TypeOK, vars, list, manager, channels, proxy, roots
<1> QED
  BY <1>1, <1>2, <1>3, <1>4, <1>5, <1>6, <1>7 DEF Next, LoopStep, Stopped

-----------------------------------------------------------------------------
(* The order of lists under way.                                            *)

LEMMA OrderStep == IInv /\ [Next]_vars => OrderInv'
<1> SUFFICES ASSUME IInv, [Next]_vars PROVE OrderInv'
  OBVIOUS
<1>0. /\ OrderInv
      /\ source \in Nat \ {0} /\ latest \in Nat /\ llUpdates \in Nat
      /\ update \in Nat /\ dist \in Nat
  BY DEF IInv, TypeOK, Publication, Nothing
<1>1. CASE RefreshChanged
  <2>1. latest < source
    BY <1>0, <1>1 DEF RefreshChanged, SameJSON, OrderInv, Nothing
  <2> QED
    BY <1>0, <1>1, <2>1 DEF RefreshChanged, MgrGoto, OrderInv, list, channels, proxy
<1>2. CASE MgrStart \/ RefreshFails \/ RefreshUnchanged \/ MgrTick \/ MgrEnds \/ SendError
  BY <1>0, <1>2 DEF MgrStart, RefreshFails, RefreshUnchanged, MgrTick, MgrEnds, SendError,
    MgrGoto, OrderInv, list, channels, proxy
<1>3. CASE SendUpdate
  BY <1>0, <1>3 DEF SendUpdate, MgrGoto, OrderInv, list, proxy, Nothing
<1>4. CASE TakeUpdate
  BY <1>0, <1>4 DEF TakeUpdate, OrderInv, list, manager, Nothing
<1>5. CASE LoopEnds \/ TakeError \/ RestartFails
  BY <1>0, <1>5 DEF LoopEnds, TakeError, RestartFails, OrderInv, list, manager, channels,
    proxy
<1>6. CASE Restart
  BY <1>0, <1>6 DEF Restart, OrderInv, list, manager, channels
<1>7. ASSUME NEW n \in Publication, RefresherStep(n) PROVE OrderInv'
  BY <1>0, <1>7 DEF RefresherStep, RefresherStart, RefreshRoots, RefresherTick,
    RefresherEnds, RefresherGoto, OrderInv, list, manager, channels, proxy
<1>8. ASSUME NEW r \in Requests, RequestStep(r) PROVE OrderInv'
  BY <1>0, <1>8 DEF RequestStep, AddChain, CallDistributor, Choose, Answer, ReqGoto,
    OrderInv, list, manager, channels, proxy
<1>9. CASE Publish \/ CancelContext \/ UNCHANGED vars
  BY <1>0, <1>9 DEF Publish, CancelContext, vars, OrderInv, list, manager, channels, proxy
<1> QED
  BY <1>1, <1>2, <1>3, <1>4, <1>5, <1>6, <1>7, <1>8, <1>9
    DEF Next, ManagerStep, LoopStep, Stopped

-----------------------------------------------------------------------------
(* What the root data of a Distributor mean.                                *)

\* Steps that leave the Distributors and the requests alone.
LEMMA ElsewhereStep ==
  ASSUME ManagerStep \/ LoopEnds \/ TakeUpdate \/ TakeError \/ RestartFails \/ Publish
           \/ CancelContext \/ UNCHANGED vars
  PROVE  UNCHANGED <<content, dist, roots, req>>
  BY DEF ManagerStep, MgrStart, RefreshFails, RefreshUnchanged, RefreshChanged, SendUpdate,
    SendError, MgrTick, MgrEnds, MgrGoto, LoopEnds, TakeUpdate, TakeError, RestartFails,
    Publish, CancelContext, vars, list, proxy

\* Restart and RefreshRoots keep what the root data of a Distributor mean.
LEMMA RootsStep == IInv /\ [Next]_vars => RootsInv'
<1> SUFFICES ASSUME IInv, [Next]_vars PROVE RootsInv'
  OBVIOUS
<1>0. TypeOK /\ OrderInv /\ RootsInv
  BY DEF IInv
<1>1. CASE UNCHANGED <<content, dist, roots, req>>
  BY <1>0, <1>1 DEF RootsInv, roots
<1>2. CASE Restart
  <2>1. update \in Publication /\ update > dist /\ dist \in Nat
    BY <1>0, <1>2 DEF Restart, TypeOK, OrderInv, Publication, Nothing
  <2>2. PICK C \in ClientSets(content[update]) : clients' = [clients EXCEPT ![update] = C]
    BY <1>2 DEF Restart
  <2>3. content[update].usable \subseteq C
    BY <1>0, <2>1, ClientSetFacts
  <2>4. refresher[update] = "off" /\ ~full[update]
    BY <1>0, <2>1 DEF RootsInv, Publication
  <2>5. /\ refresher' = [refresher EXCEPT ![update] = "start"]
        /\ dist' = update
        /\ UNCHANGED <<content, known, full, req>>
    BY <1>2 DEF Restart, list
  <2>6. ASSUME NEW n \in Publication
        PROVE  /\ refresher'[n] = "off" => ~full'[n]
               /\ refresher'[n] # "off" => n <= dist' /\ content'[n].usable \subseteq clients'[n]
               /\ full'[n] => known'[n] = clients'[n]
    <3>1. CASE n = update
      BY <1>0, <2>1, <2>2, <2>3, <2>4, <2>5, <3>1 DEF TypeOK, Publication
    <3>2. CASE n # update
      BY <1>0, <2>1, <2>2, <2>5, <3>2 DEF TypeOK, RootsInv, Publication
    <3> QED
      BY <3>1, <3>2
  <2>7. dist' # Nothing /\ refresher'[dist'] # "off"
    BY <1>0, <2>1, <2>5 DEF TypeOK, Publication, Nothing
  <2>8. ASSUME NEW r \in Requests, req'[r].pc \in {"choose", "submit", "refused"}
        PROVE  refresher'[req'[r].dist] # "off"
    <3>1. req[r].dist \in Publication
      BY <1>0, <2>5, <2>8, RequestFields DEF TypeOK
    <3> QED
      BY <1>0, <2>1, <2>5, <2>8, <3>1 DEF TypeOK, RootsInv
  <2> QED
    BY <2>6, <2>7, <2>8 DEF RootsInv
<1>3. ASSUME NEW m \in Publication, RefresherStep(m) PROVE RootsInv'
  <2>1. /\ UNCHANGED <<content, dist, clients, req>>
        /\ refresher[m] # "off"
        /\ \E at \in {"refresh", "wait", "ended"} : refresher' = [refresher EXCEPT ![m] = at]
    BY <1>3 DEF RefresherStep, RefresherStart, RefreshRoots, RefresherTick, RefresherEnds,
      RefresherGoto, list, proxy
  <2>2. \A n \in Publication : (refresher'[n] = "off") <=> (refresher[n] = "off")
    BY <1>0, <2>1 DEF TypeOK
  <2>3. ASSUME NEW n \in Publication
        PROVE  /\ n # m => full'[n] = full[n]
               /\ full'[n] => known'[n] = clients'[n]
    <3>1. CASE RefreshRoots(m)
      BY <1>0, <2>1, <3>1 DEF RefreshRoots, TypeOK, RootsInv
    <3>2. CASE UNCHANGED <<known, full>>
      BY <1>0, <2>1, <3>2 DEF RootsInv
    <3> QED
      BY <1>3, <3>1, <3>2 DEF RefresherStep, RefresherStart, RefresherTick, RefresherEnds
  <2>4. \A r \in Requests : req[r].pc \in {"choose", "submit", "refused"} =>
                              req[r].dist \in Publication
    BY <1>0, RequestFields DEF TypeOK
  <2>5. dist # Nothing => dist \in Publication
    BY <1>0 DEF TypeOK
  <2> QED
    BY <1>0, <2>1, <2>2, <2>3, <2>4, <2>5 DEF RootsInv
<1>4. ASSUME NEW r \in Requests, RequestStep(r) PROVE RootsInv'
  <2>1. UNCHANGED <<content, dist, refresher, clients, known, full>>
    BY <1>4 DEF RequestStep, AddChain, CallDistributor, Choose, Answer, ReqGoto, list,
      proxy, roots
  <2>2. ASSUME NEW s \in Requests
        PROVE  /\ req'[s].pc = "call" => dist # Nothing
               /\ req'[s].pc \in {"choose", "submit", "refused"} =>
                    refresher[req'[s].dist] # "off"
    <3> USE <1>0 DEF ReqGoto, TypeOK, RootsInv
    <3>1. ASSUME NEW c \in Chains, AddChain(r, c) PROVE <2>2!2
      BY <3>1 DEF AddChain
    <3>2. CASE CallDistributor(r)
      BY <3>2 DEF CallDistributor
    <3>3. CASE Choose(r)
      BY <3>3 DEF Choose
    <3>4. CASE Answer(r)
      BY <3>4 DEF Answer, Idle
    <3> QED
      BY <1>4, <3>1, <3>2, <3>3, <3>4 DEF RequestStep
  <2> QED
    BY <1>0, <2>1, <2>2 DEF RootsInv
<1> QED
  BY <1>1, <1>2, <1>3, <1>4, ElsewhereStep DEF Next, LoopStep, Stopped

\* Choose: the one step that decides which logs are asked.
LEMMA ChooseAccepts ==
  ASSUME IInv, NEW r \in Requests, Choose(r) PROVE AcceptingLogsTried'
<1> DEFINE n == req[r].dist
           c == req[r].chain
           found == c.root \in UNION {Accepts[l] : l \in known[n]}
           refused == [pc |-> "refused", chain |-> c, dist |-> n]
           submit == [pc |-> "submit", chain |-> c, dist |-> n, logs |-> Compatible(n, c, found)]
<1>1. /\ TypeOK /\ RootsInv /\ AcceptingLogsTried
      /\ UNCHANGED content
  BY DEF IInv, Choose, ReqGoto, list
<1>2. n \in Publication /\ refresher[n] # "off"
  BY <1>1, RequestFields DEF TypeOK, RootsInv, Choose
<1>3. content[n].usable \subseteq clients[n] /\ (full[n] => known[n] = clients[n])
  BY <1>1, <1>2 DEF RootsInv
<1>4. \/ ~found /\ full[n] /\ req' = [req EXCEPT ![r] = refused]
      \/ req' = [req EXCEPT ![r] = submit]
  BY DEF Choose, ReqGoto
<1>5. ~found /\ full[n] => {l \in content[n].usable : c.root \in Accepts[l]} = {}
  BY <1>3
<1>6. c.root \in CARoots =>
        {l \in content[n].usable \cap c.fits : c.root \in Accepts[l]} \subseteq
          Compatible(n, c, found)
  BY DEF Compatible
<1>7. ASSUME NEW s \in Requests, s # r PROVE req'[s] = req[s]
  BY <1>1, <1>4, <1>7 DEF TypeOK
<1>8. req'[r] = submit \/ (~found /\ full[n] /\ req'[r] = refused)
  BY <1>1, <1>4 DEF TypeOK
<1>9. \/ /\ req'[r].pc = "submit" /\ req'[r].chain = c /\ req'[r].dist = n
         /\ req'[r].logs = Compatible(n, c, found)
      \/ /\ req'[r].pc = "refused" /\ req'[r].chain = c /\ req'[r].dist = n
         /\ ~found /\ full[n]
  BY <1>8
<1> HIDE DEF n, c, found, refused, submit
<1>10. ASSUME NEW s \in Requests
       PROVE  /\ req'[s].pc = "submit" /\ req'[s].chain.root \in CARoots =>
                   {l \in content[req'[s].dist].usable \cap req'[s].chain.fits :
                      req'[s].chain.root \in Accepts[l]} \subseteq req'[s].logs
              /\ req'[s].pc = "refused" =>
                   {l \in content[req'[s].dist].usable : req'[s].chain.root \in Accepts[l]} = {}
  <2>1. CASE s = r
    BY <1>5, <1>6, <1>9, <2>1
  <2>2. CASE s # r
    BY <1>1, <1>7, <2>2 DEF AcceptingLogsTried
  <2> QED
    BY <2>1, <2>2
<1> QED
  BY <1>1, <1>10 DEF AcceptingLogsTried

\* No other step can make a log go missing.
LEMMA AcceptStep == IInv /\ [Next]_vars => AcceptingLogsTried'
<1> SUFFICES ASSUME IInv, [Next]_vars PROVE AcceptingLogsTried'
  OBVIOUS
<1>0. TypeOK /\ AcceptingLogsTried
  BY DEF IInv
<1>1. CASE UNCHANGED <<content, req>>
  BY <1>0, <1>1 DEF AcceptingLogsTried
<1>2. Restart => UNCHANGED <<content, req>>
  BY DEF Restart, list
<1>3. ASSUME NEW n \in Publication PROVE RefresherStep(n) => UNCHANGED <<content, req>>
  BY DEF RefresherStep, RefresherStart, RefreshRoots, RefresherTick, RefresherEnds,
    RefresherGoto, list
<1>4. ASSUME NEW r \in Requests, RequestStep(r), ~Choose(r) PROVE AcceptingLogsTried'
  <2>1. /\ UNCHANGED content
        /\ \E q : req' = [req EXCEPT ![r] = q] /\ q.pc \in {"idle", "call", "choose"}
    BY <1>4 DEF RequestStep, AddChain, CallDistributor, Answer, ReqGoto, Idle, list
  <2>2. \A s \in Requests : req'[s] = req[s] \/ req'[s].pc \in {"idle", "call", "choose"}
    BY <1>0, <2>1 DEF TypeOK
  <2> QED
    BY <1>0, <2>1, <2>2 DEF AcceptingLogsTried
<1> QED
  BY <1>1, <1>2, <1>3, <1>4, ElsewhereStep, ChooseAccepts DEF Next, LoopStep, Stopped

-----------------------------------------------------------------------------
(* The theorems.                                                            *)

\* The inductive invariant.
THEOREM Inductive == Spec => []IInv
<1>1. Init => IInv
  BY InitInv
<1>2. IInv /\ [Next]_vars => IInv'
  BY TypeStep, OrderStep, RootsStep, AcceptStep DEF IInv
<1> QED
  BY <1>1, <1>2, PTL DEF Spec

\* Type correctness: in particular no request is served by a nil Distributor,
\* though p.dist is read again after the check.
THEOREM TypeCorrect == Spec => []TypeOK
<1>1. IInv => TypeOK
  BY DEF IInv
<1> QED
  BY <1>1, Inductive, PTL

\* addSomeChain gives every usable log that accepts the chain's root to
\* GetSCTs, and refuses a chain only if there is none.
THEOREM AcceptingTried == Spec => []AcceptingLogsTried
<1>1. IInv => AcceptingLogsTried
  BY DEF IInv
<1> QED
  BY <1>1, Inductive, PTL

\* restartDistributor is never given a list that is not newer than the one
\* in use.
THEOREM InOrder == Spec => NeverOlderList
<1> DEFINE Newer == \A n \in Publication :
                      refresher[n] # "start" /\ refresher'[n] = "start" => n > dist
<1>1. IInv /\ [Next]_vars => [Newer]_vars
  <2> SUFFICES ASSUME IInv, [Next]_vars PROVE Newer \/ UNCHANGED vars
    OBVIOUS
  <2>0. TypeOK /\ OrderInv
    BY DEF IInv
  <2>1. CASE Restart
    BY <2>0, <2>1 DEF Restart, OrderInv, TypeOK
  <2>2. ASSUME NEW m \in Publication, RefresherStep(m) PROVE Newer
    <3>1. \E at \in {"refresh", "wait", "ended"} : refresher' = [refresher EXCEPT ![m] = at]
      BY <2>2 DEF RefresherStep, RefresherStart, RefreshRoots, RefresherTick, RefresherEnds,
        RefresherGoto
    <3> QED
      BY <2>0, <3>1 DEF TypeOK
  <2>3. ASSUME NEW r \in Requests, RequestStep(r) PROVE Newer
    BY <2>3 DEF RequestStep, AddChain, CallDistributor, Choose, Answer, ReqGoto, roots
  <2>4. CASE UNCHANGED <<content, dist, roots, req>>
    BY <2>4 DEF roots
  <2> QED
    BY <2>1, <2>2, <2>3, <2>4, ElsewhereStep DEF Next, LoopStep, Stopped
<1> QED
  BY <1>1, Inductive, PTL DEF Spec, NeverOlderList

-----------------------------------------------------------------------------
(* The hammer: what a step does to the log.                                 *)

Grew ==
  /\ cfg' = cfg /\ honest' = honest /\ faults <= faults'
  /\ now' \in Nat /\ faults' \in Nat /\ foreign' \in Nat
  /\ tree' \in Seq(Leaf) /\ queued' \subseteq Leaf
  /\ Len(tree) <= Len(tree') /\ \A i \in 1 .. Len(tree) : tree'[i] = tree[i]
  /\ Leaves \subseteq Leaves'
  /\ LogInv'

LEMMA SeqToSet ==
  ASSUME NEW S, NEW s \in Seq(S)
  PROVE  /\ \A x : x \in ToSet(s) <=> \E i \in 1 .. Len(s) : s[i] = x
         /\ ToSet(s) \subseteq S
  BY DEF ToSet

\* A step either leaves the log alone or is one of those that change it.
LEMMA LogChanges ==
  ASSUME [HammerNext]_hammerVars
  PROVE  /\ cfg' = cfg
         /\ UNCHANGED log \/ Tick \/ Integrate \/ AddForeign \/ Fault
              \/ AddWithoutRoot \/ \E i \in DOMAIN adders : Submit(i)
<1>1. CASE UNCHANGED hammerVars
  BY <1>1 DEF hammerVars, log
<1>2. CASE LogStep
  BY <1>2 DEF LogStep
<1>3. CASE ChooseOp \/ AddMultiple \/ AddDone
  BY <1>3 DEF ChooseOp, AddMultiple, AddDone, log
<1>4. CASE AddInvalid \/ GetSTH \/ GetRoots \/ GetEntries \/ EntriesInvalid
  BY <1>4 DEF AddInvalid, GetSTH, GetRoots, GetEntries, EntriesInvalid, Answered, hammerData
<1>5. CASE ChooseSTHs \/ GetSTHConsistency \/ ConsistencyInvalid
  BY <1>5 DEF ChooseSTHs, GetSTHConsistency, ConsistencyInvalid, Answered, hammerData
<1>6. CASE ProofSTH \/ GetProofByHash \/ ProofInvalid
  BY <1>6 DEF ProofSTH, GetProofByHash, ProofInvalid, Answered, hammerData
<1>7. CASE \E i \in DOMAIN adders : Adder(i)
  BY <1>7 DEF Adder, GetChain, Submit, TryAppend, adderData, log
<1>8. CASE AddWithoutRoot
  BY <1>8 DEF AddWithoutRoot
<1> QED
  BY <1>1, <1>2, <1>3, <1>4, <1>5, <1>6, <1>7, <1>8 DEF HammerNext

\* The leaf of a certificate is one that the log has, or a new one.
LEMMA LeafFacts ==
  ASSUME NEW cert, now \in Nat, cert \in Kinds \X Nat
  PROVE  LeafOf(cert) \notin Leaves =>
           LeafOf(cert) = [cert |-> cert, ts |-> now] /\ LeafOf(cert) \in Leaf
<1>1. [cert |-> cert, ts |-> now] \in Leaf
  BY DEF Leaf
<1> QED
  BY <1>1 DEF LeafOf

LEMMA QueueGrows ==
  ASSUME HammerInv, NEW l \in Leaf, l \notin Leaves, l.ts = now,
         tree' = tree, now' = now, honest' = honest, cfg' = cfg,
         queued' = queued \cup {l}, foreign' \in Nat, foreign <= foreign',
         l.cert[1] = "foreign" => l.cert[2] < foreign',
         faults' \in Nat, faults <= faults'
  PROVE  Grew
<1> USE DEF HammerInv, HammerTypes
<1>1. Leaves' = Leaves \cup {l}
  BY DEF Leaves
<1>2. queued \subseteq Leaf /\ ToSet(tree) \subseteq Leaf
  BY SeqToSet
<1>3. \A k \in Leaf : k.cert[2] \in Nat
  BY DEF Leaf
<1>4. \A k \in Leaves' : k.cert[1] = "foreign" => k.cert[2] < foreign'
  <2>1. \A k \in Leaves : k \in Leaf /\ (k.cert[1] = "foreign" => k.cert[2] < foreign)
    BY <1>2 DEF LogInv, Leaves
  <2> QED
    BY <2>1, <1>1, <1>3
<1>5. honest' => \A k \in queued' : now' <= k.ts + MMD
  <2>1. now <= l.ts + MMD
    BY HammerAssumption
  <2> QED
    BY <2>1 DEF LogInv
<1>6. queued' \cap ToSet(tree') = {}
  BY DEF LogInv, Leaves
<1>7. LogInv'
  BY <1>4, <1>5, <1>6 DEF LogInv
<1> QED
  BY <1>1, <1>7 DEF Grew

\* A certificate is added, unless the log has it.
LEMMA LeafQueued ==
  ASSUME HammerInv, cfg' = cfg, NEW cert \in Kinds \X Nat,
         UNCHANGED <<now, tree, honest, foreign>>, faults' \in Nat, faults <= faults',
         queued' = queued \/ (LeafOf(cert) \notin Leaves /\ queued' = queued \cup {LeafOf(cert)})
  PROVE  Grew
<1> USE DEF HammerInv, HammerTypes
<1>1. PICK leaf : leaf = LeafOf(cert)
  OBVIOUS
<1>2. CASE queued' = queued
  <2>1. Leaves' = Leaves
    BY <1>2 DEF Leaves
  <2>2. LogInv'
    BY <1>2, <2>1 DEF LogInv
  <2> QED
    BY <1>2, <2>1, <2>2 DEF Grew
<1>3. CASE leaf \notin Leaves /\ queued' = queued \cup {leaf}
  <2>1. leaf = [cert |-> cert, ts |-> now] /\ leaf \in Leaf
    BY <1>1, <1>3, LeafFacts
  <2>2. leaf.ts = now /\ leaf.cert[1] # "foreign"
    BY <2>1 DEF Kinds
  <2>3. foreign' \in Nat /\ foreign <= foreign'
    OBVIOUS
  <2> QED
    BY <1>3, <2>1, <2>2, <2>3, QueueGrows
<1> QED
  BY <1>1, <1>2, <1>3

\* The log's part of the invariant is kept, and what the log has it keeps.
LEMMA LogGrows ==
  ASSUME HammerInv, [HammerNext]_hammerVars
  PROVE  Grew
<1> USE DEF HammerInv, HammerTypes
<1>0. cfg' = cfg
  BY LogChanges
<1>1. CASE UNCHANGED log
  <2>1. Leaves' = Leaves
    BY <1>1 DEF log, Leaves
  <2>2. LogInv'
    BY <1>1, <2>1 DEF log, LogInv
  <2> QED
    BY <1>0, <1>1, <2>1, <2>2 DEF Grew, log
<1>2. CASE Tick
  <2>1. Leaves' = Leaves /\ now' = now + 1
    BY <1>2 DEF Tick, Leaves
  <2>2. \A l \in queued : l.ts \in Nat
    BY DEF Leaf
  <2>3. honest' => \A l \in queued' : now' <= l.ts + MMD
    BY <1>2, <2>2, HammerAssumption DEF Tick
  <2>4. LogInv'
    BY <1>2, <2>1, <2>3 DEF LogInv, Tick
  <2> QED
    BY <1>0, <1>2, <2>1, <2>4 DEF Grew, Tick
<1>3. CASE Integrate
  <2>1. PICK l \in queued : /\ Len(tree) < MaxTree
                            /\ tree' = Append(tree, l)
                            /\ queued' = queued \ {l}
                            /\ UNCHANGED <<now, honest, faults, foreign>>
    BY <1>3 DEF Integrate
  <2>2. l \in Leaf /\ tree' \in Seq(Leaf) /\ Len(tree') = Len(tree) + 1
        /\ tree'[Len(tree) + 1] = l /\ \A i \in 1 .. Len(tree) : tree'[i] = tree[i]
    BY <2>1
  <2>3. ToSet(tree') = ToSet(tree) \cup {l}
    <3>1. \A x : x \in ToSet(tree) <=> \E i \in 1 .. Len(tree) : tree[i] = x
      BY SeqToSet
    <3>2. \A x : x \in ToSet(tree') <=> \E i \in 1 .. Len(tree') : tree'[i] = x
      BY <2>2, SeqToSet
    <3>3. ASSUME NEW x PROVE x \in ToSet(tree') <=> x \in ToSet(tree) \/ x = l
      <4>1. (\E i \in 1 .. Len(tree') : tree'[i] = x) <=> (\E i \in 1 .. Len(tree) : tree[i] = x) \/ x = l
        <5>1. Len(tree) \in Nat
          OBVIOUS
        <5>2. ASSUME NEW i \in 1 .. Len(tree'), tree'[i] = x
              PROVE  (\E k \in 1 .. Len(tree) : tree[k] = x) \/ x = l
          <6>1. CASE i \in 1 .. Len(tree)
            BY <5>2, <6>1, <2>2
          <6>2. CASE i = Len(tree) + 1
            BY <5>2, <6>2, <2>2
          <6> QED
            BY <5>1, <6>1, <6>2, <2>2
        <5>3. ASSUME NEW i \in 1 .. Len(tree), tree[i] = x
              PROVE  \E k \in 1 .. Len(tree') : tree'[k] = x
          <6>1. i \in 1 .. Len(tree')
            BY <5>1, <2>2
          <6>2. tree'[i] = x
            BY <5>3, <2>2
          <6> QED
            BY <6>1, <6>2
        <5>4. Len(tree) + 1 \in 1 .. Len(tree')
          BY <5>1, <2>2
        <5> QED
          BY <5>2, <5>3, <5>4, <2>2
      <4> QED
        BY <3>1, <3>2, <4>1
    <3> QED
      BY <3>3
  <2>4. Leaves' = Leaves
    BY <2>1, <2>3 DEF Leaves
  <2>5. IsInjective(tree')
    <3>1. \A i \in 1 .. Len(tree) : tree[i] # l
      BY <2>1, SeqToSet DEF LogInv
    <3>2. \A i, j \in 1 .. Len(tree) : tree[i] = tree[j] => i = j
      BY DEF LogInv, IsInjective
    <3>3. \A i, j \in 1 .. Len(tree) + 1 : tree'[i] = tree'[j] => i = j
      <4> SUFFICES ASSUME NEW i \in 1 .. Len(tree) + 1, NEW j \in 1 .. Len(tree) + 1, tree'[i] = tree'[j]
                   PROVE  i = j
        OBVIOUS
      <4>1. CASE i \in 1 .. Len(tree) /\ j \in 1 .. Len(tree)
        BY <4>1, <2>2, <3>2
      <4>2. CASE i = Len(tree) + 1 /\ j \in 1 .. Len(tree)
        BY <4>2, <2>2, <3>1
      <4>3. CASE i \in 1 .. Len(tree) /\ j = Len(tree) + 1
        BY <4>3, <2>2, <3>1
      <4> QED
        <5>1. Len(tree) \in Nat
          OBVIOUS
        <5>2. \A k \in 1 .. Len(tree) + 1 : k \in 1 .. Len(tree) \/ k = Len(tree) + 1
          BY <5>1
        <5> QED
          BY <5>2, <4>1, <4>2, <4>3
    <3> QED
      BY <2>2, <3>3 DEF IsInjective
  <2>6. Len(tree') <= MaxTree
    BY <2>1, <2>2, HammerAssumption
  <2>7. LogInv'
    BY <2>1, <2>3, <2>4, <2>5, <2>6 DEF LogInv
  <2> QED
    BY <1>0, <2>1, <2>2, <2>4, <2>7 DEF Grew
<1>4. CASE AddForeign
  <2>1. PICK l : l = [cert |-> <<"foreign", foreign>>, ts |-> now]
    OBVIOUS
  <2>2. l \in Leaf /\ l.ts = now /\ l.cert[1] = "foreign" /\ l.cert[2] = foreign
    BY <2>1 DEF Leaf
  <2>3. l \notin Leaves
    BY <2>2 DEF LogInv
  <2>4. foreign' = foreign + 1 /\ queued' = queued \cup {l} /\ UNCHANGED <<now, tree, honest, faults>>
    BY <1>4, <2>1 DEF AddForeign
  <2> QED
    BY <1>0, <2>2, <2>3, <2>4, QueueGrows
<1>5. CASE Fault
  <2>1. Leaves' = Leaves /\ faults' = faults + 1 /\ UNCHANGED <<now, queued, tree, honest, foreign>>
    BY <1>5 DEF Fault, Leaves
  <2>2. LogInv'
    BY <2>1 DEF LogInv
  <2> QED
    BY <1>0, <2>1, <2>2 DEF Grew
<1>6. ASSUME NEW i \in DOMAIN adders, Submit(i)
      PROVE  Grew
  <2>1. PICK cert : cert = adders[i].cert
    OBVIOUS
  <2>2. cert \in Kinds \X Nat
    BY <1>6, <2>1 DEF Submit, AddersInv
  <2>3. faults' \in Nat /\ faults <= faults' /\ UNCHANGED <<now, tree, honest, foreign>>
    BY <1>6 DEF Submit, Fault
  <2>4. queued' = queued \/ (LeafOf(cert) \notin Leaves /\ queued' = queued \cup {LeafOf(cert)})
    BY <1>6, <2>1 DEF Submit, Fault
  <2> QED
    BY <1>0, <2>2, <2>3, <2>4, LeafQueued
<1>7. CASE AddWithoutRoot
  <2>1. PICK kind \in Kinds :
          /\ queued' = IF LeafOf(<<kind, fresh>>) \in Leaves THEN queued
                       ELSE queued \cup {LeafOf(<<kind, fresh>>)}
          /\ faults' = faults \/ faults' = faults + 1
          /\ UNCHANGED <<now, tree, honest, foreign>>
    BY <1>7 DEF AddWithoutRoot
  <2>2. PICK cert : cert = <<kind, fresh>>
    OBVIOUS
  <2>3. cert \in Kinds \X Nat
    BY <2>2
  <2>4. faults' \in Nat /\ faults <= faults' /\ UNCHANGED <<now, tree, honest, foreign>>
    BY <2>1
  <2>5. queued' = queued \/ (LeafOf(cert) \notin Leaves /\ queued' = queued \cup {LeafOf(cert)})
    BY <2>1, <2>2
  <2> QED
    BY <1>0, <2>3, <2>4, <2>5, LeafQueued
<1> QED
  BY <1>1, <1>2, <1>3, <1>4, <1>5, <1>6, <1>7, LogChanges

-----------------------------------------------------------------------------
(* What the log answers.                                                    *)

LEMMA AnswersDiffer ==
  ASSUME NEW s, NEW b
  PROVE  R!Body(b).status = "OK" /\ R!Status(s).status = s /\ R!Body(b).body = b
  BY DEF R!Body, R!Status

\* A proof between two sizes of the tree is served.
LEMMA ConsistencyServed ==
  ASSUME NEW root \in Nat, NEW m \in 1 .. root, NEW n \in 1 .. root, m <= n
  PROVE  R!GetSTHConsistencyResult(m, n, root) = R!Body(<<"cons", m, n>>)
<1>1. R!ConsistencyProof(m, n, root) = <<"cons", m, n>>
  BY DEF R!ConsistencyProof
<1>2. <<"cons", m, n>> # None
  BY HammerAssumption
<1> QED
  BY <1>1, <1>2 DEF R!GetSTHConsistencyResult

LEMMA ConsistencyRefused ==
  ASSUME NEW root \in Nat, NEW m \in Int, NEW n \in Int,
         m < 0 \/ n < m \/ (m > 0 /\ n > root)
  PROVE  R!GetSTHConsistencyResult(m, n, root).status # "OK"
<1>1. R!GetSTHConsistencyResult(m, n, root) = R!Status("BadRequest")
  BY DEF R!GetSTHConsistencyResult
<1> QED
  BY <1>1 DEF R!Status

\* A proof of inclusion is served for what is in the tree of that size, and for
\* nothing else.
LEMMA InclusionServed ==
  ASSUME NEW root \in Nat, NEW n \in 0 .. root, NEW i \in Nat
  PROVE  R!GetProofByHashResult(i, n, root) = R!Body(<<"in", i, n>>) <=> i < n
<1>1. CASE i < n
  <2>1. R!InclusionProof(i, n, root) = <<"in", i, n>>
    BY <1>1 DEF R!InclusionProof
  <2>2. <<"in", i, n>> # None
    BY HammerAssumption
  <2> QED
    BY <1>1, <2>1, <2>2 DEF R!GetProofByHashResult
<1>2. CASE ~(i < n)
  <2>1. R!InclusionProof(i, n, root) = None
    BY <1>2 DEF R!InclusionProof
  <2>2. \E s \in {"BadRequest", "NotFound"} : R!GetProofByHashResult(i, n, root) = R!Status(s)
    BY <2>1 DEF R!GetProofByHashResult
  <2> QED
    BY <1>2, <2>2, AnswersDiffer
<1> QED
  BY <1>1, <1>2

LEMMA InclusionRefused ==
  ASSUME NEW root \in Nat, NEW i, NEW n \in Int, n < 1 \/ n > root
  PROVE  R!GetProofByHashResult(i, n, root).status # "OK"
<1>1. \E s \in {"BadRequest", "NotFound"} : R!GetProofByHashResult(i, n, root) = R!Status(s)
  BY DEF R!GetProofByHashResult
<1> QED
  BY <1>1 DEF R!Status

LEMMA NoWrap ==
  ASSUME NEW n \in Int, -1 <= n, n <= 4 * InvalidStretch
  PROVE  R!Wrap(n) = n
  BY HammerAssumption DEF R!Wrap

\* Entries of the tree are served, also if more are asked for than there are.
LEMMA EntriesServedFrom ==
  ASSUME tree \in Seq(Leaf), Len(tree) <= MaxTree,
         NEW start \in 0 .. Len(tree) - 1, NEW end \in Nat, start <= end, end - start < MaxGetEntries
  PROVE  EntriesOf(start, end).status = "OK"
<1>0. Len(tree) \in Nat /\ start \in Nat /\ InvalidStretch \in Nat /\ MaxGetEntries \in Nat /\ MaxGetEntries <= InvalidStretch
      /\ Len(tree) <= InvalidStretch
  BY HammerAssumption
<1>1. R!Wrap(end - start) = end - start /\ R!Wrap((end - start) + 1) = (end - start) + 1
  BY <1>0, NoWrap
<1>2. R!Wrap(end + 1) = end + 1 /\ R!Wrap((end + 1) - start) = (end + 1) - start
  BY <1>0, NoWrap
<1>3. R!ParseGetEntriesRange(start, end) = end
  BY <1>0, <1>1 DEF R!ParseGetEntriesRange
<1>4. end # None
  BY HammerAssumption
<1>5. PICK k : k = (IF end < Len(tree) THEN end ELSE Len(tree) - 1) - start + 1
  OBVIOUS
<1>6. k \in Nat /\ k <= (end + 1) - start
  BY <1>0, <1>5
<1>7. PICK leaves : leaves = [i \in 1 .. k |-> start + i - 1]
  OBVIOUS
<1>8. Len(leaves) = k /\ \A i \in 1 .. Len(leaves) : leaves[i] = start + i - 1
  BY <1>6, <1>7
<1>9. R!RunFrom(start, end, leaves) = R!Body(leaves)
  BY <1>2, <1>6, <1>8 DEF R!RunFrom
<1>10. R!GetEntriesResult(start, end, Len(tree), leaves) = R!Body(leaves)
  <2>1. ~(Len(tree) <= start) /\ ~((end + 1) - start < 0)
    BY <1>0
  <2> QED
    BY <1>2, <1>3, <1>4, <1>9, <2>1 DEF R!GetEntriesResult
<1> QED
  BY <1>5, <1>7, <1>10, AnswersDiffer DEF EntriesOf

\* None are from before its start or from beyond it.
LEMMA EntriesRefused ==
  ASSUME tree \in Seq(Leaf), NEW start \in Int, NEW end \in Int, start < 0 \/ Len(tree) <= start
  PROVE  EntriesOf(start, end).status # "OK"
<1>1. start < 0 => R!ParseGetEntriesRange(start, end) = None
  BY DEF R!ParseGetEntriesRange
<1>2. ASSUME NEW leaves
      PROVE  R!GetEntriesResult(start, end, Len(tree), leaves) = R!Status("BadRequest")
  BY <1>1 DEF R!GetEntriesResult
<1>3. R!Status("BadRequest").status # "OK"
  BY DEF R!Status
<1> QED
  BY <1>2, <1>3 DEF EntriesOf

-----------------------------------------------------------------------------
(* The end of an operation.                                                 *)

Ended == count' \in Nat /\ pc' \in {"choose", "perform", "done"} /\ NoFalseAlarm'

LEMMA SucceedEnds ==
  ASSUME HammerInv, Succeed, cfg' = cfg
  PROVE  Ended
<1>1. cfg.operations \in Nat /\ count \in Nat
  BY HammerAssumption DEF HammerInv, HammerTypes
<1> QED
  BY <1>1 DEF Succeed, NextOperation, Ended, NoFalseAlarm

LEMMA FailEnds ==
  ASSUME HammerInv, Fail,
         honest' => faults' > 0 \/ (cfg'.direct /\ op.invalid /\ op.ep \in Kinds)
  PROVE  Ended
  BY DEF HammerInv, HammerTypes, Fail, NextOperation, Ended, NoFalseAlarm

LEMMA RefusedEnds ==
  ASSUME HammerInv, NEW status, status # "OK", Refused(status), cfg' = cfg
  PROVE  Ended
  BY SucceedEnds DEF Refused

LEMMA FaultEnds ==
  ASSUME HammerInv, Fault, Fail
  PROVE  Ended
<1>1. faults' > 0
  BY DEF Fault, HammerInv, HammerTypes
<1> QED
  BY <1>1, FailEnds

LEMMA SkipEnds ==
  ASSUME HammerInv, NEW ops, Skip(ops), cfg' = cfg
  PROVE  Ended
  BY SucceedEnds DEF Skip, Succeed

\* What the hammer keeps stays true of a log that grows.
LEMMA KeptStays ==
  ASSUME HammerInv, Grew, UNCHANGED <<pending, sth>>
  PROVE  KeptInv'
<1>1. ToSet(pending') = ToSet(pending)
  OBVIOUS
<1>2. \A i \in DOMAIN sth : sth[i] # None => sth[i] \in Nat /\ sth[i] <= Len(tree)
  BY DEF HammerInv, HammerTypes, KeptInv
<1>3. Len(tree) \in Nat /\ Len(tree') \in Nat /\ Len(tree) <= Len(tree')
  BY DEF HammerInv, HammerTypes, Grew
<1>4. \A i \in DOMAIN sth' : sth'[i] # None => sth'[i] <= Len(tree')
  BY <1>2, <1>3
<1> QED
  BY <1>1, <1>4 DEF HammerInv, KeptInv, Grew

LEMMA AddersStay ==
  ASSUME HammerInv, Grew, adders' = adders, pc' = "adding" => op'.ep \in Kinds
  PROVE  AddersInv'
<1>1. faults \in Nat /\ faults' \in Nat /\ faults <= faults' /\ Leaves \subseteq Leaves'
  BY DEF HammerInv, HammerTypes, Grew
<1>2. AddersInv
  BY DEF HammerInv
<1> QED
  BY <1>1, <1>2 DEF AddersInv

LEMMA HeldStays ==
  ASSUME HammerInv, Grew, UNCHANGED <<pc, held, pending>>
  PROVE  HeldInv'
<1>0. Len(tree) \in Nat /\ Len(tree') \in Nat /\ Len(tree) <= Len(tree') /\ honest' = honest
  BY DEF HammerInv, HammerTypes, Grew
<1>1. ASSUME pc = "consistency"
      PROVE  \E m, n \in 1 .. Len(tree') : m <= n /\ held' = [old |-> m, new |-> n]
  <2>1. PICK m \in 1 .. Len(tree), n \in 1 .. Len(tree) : m <= n /\ held = [old |-> m, new |-> n]
    BY <1>1 DEF HammerInv, HeldInv
  <2>2. m \in 1 .. Len(tree') /\ n \in 1 .. Len(tree')
    BY <1>0
  <2> QED
    BY <2>1, <2>2
<1>2. ASSUME pc = "proof"
      PROVE  /\ pending # <<>>
             /\ \E n \in 0 .. Len(tree') :
                  /\ held' = [leaf |-> Head(pending), size |-> n]
                  /\ honest' => \E i \in 1 .. n : tree'[i] = Head(pending)
  <2>1. PICK n \in 0 .. Len(tree) : /\ held = [leaf |-> Head(pending), size |-> n]
                                    /\ honest => \E i \in 1 .. n : tree[i] = Head(pending)
    BY <1>2 DEF HammerInv, HeldInv
  <2>2. n \in 0 .. Len(tree')
    BY <1>0
  <2>3. ASSUME NEW i \in 1 .. n PROVE tree'[i] = tree[i]
    BY <1>0 DEF Grew
  <2>4. honest' => \E i \in 1 .. n : tree'[i] = Head(pending)
    BY <1>0, <2>1, <2>3
  <2> QED
    BY <1>2, <2>1, <2>2, <2>4 DEF HammerInv, HeldInv
<1> QED
  BY <1>1, <1>2 DEF HeldInv

\* An operation that ends, and neither adds nor drops a leaf, keeps the
\* invariant.
LEMMA SettlesFresh ==
  ASSUME HammerInv, Grew, Ended, UNCHANGED <<pending, sth, first, adders>>, fresh' \in Nat
  PROVE  HammerInv'
<1>1. HammerTypes'
  BY DEF HammerInv, HammerTypes, Grew, Ended
<1>2. LogInv' /\ NoFalseAlarm'
  BY DEF Grew, Ended
<1>3. KeptInv'
  BY KeptStays
<1>4. AddersInv'
  BY AddersStay DEF Ended
<1>5. HeldInv'
  BY DEF Ended, HeldInv
<1> QED
  BY <1>1, <1>2, <1>3, <1>4, <1>5 DEF HammerInv

LEMMA Settles ==
  ASSUME HammerInv, Grew, Ended, UNCHANGED <<pending, sth, first, fresh, adders>>
  PROVE  HammerInv'
  BY SettlesFresh DEF HammerInv, HammerTypes

-----------------------------------------------------------------------------
(* The steps of the hammer.                                                 *)

LEMMA HammerInitInv == HammerInit => HammerInv
<1> SUFFICES ASSUME HammerInit PROVE HammerInv
  OBVIOUS
<1>1. HammerTypes
  <2>1. first \in [Kinds -> {None} \cup [cert : Kinds \X Nat, integrated : Nat]]
    BY DEF HammerInit
  <2>2. sth \in Seq({None} \cup Nat) /\ Len(sth) = SthCount
    BY HammerAssumption DEF HammerInit
  <2>3. tree \in Seq(Leaf) /\ queued \subseteq Leaf /\ pending \in Seq(Leaf) /\ adders \in Seq(AdderState)
    BY DEF HammerInit
  <2>4. now \in Nat /\ faults \in Nat /\ foreign \in Nat /\ fresh \in Nat /\ count \in Nat /\ cfg \in Configs
    BY DEF HammerInit
  <2> QED
    BY <2>1, <2>2, <2>3, <2>4 DEF HammerTypes
<1>2. ToSet(tree) = {} /\ ToSet(pending) = {}
  BY DEF HammerInit, ToSet
<1>3. LogInv
  BY <1>2, HammerAssumption DEF HammerInit, LogInv, Leaves, IsInjective
<1>4. KeptInv
  BY <1>2 DEF HammerInit, KeptInv
<1>5. AddersInv /\ HeldInv /\ NoFalseAlarm
  BY DEF HammerInit, AddersInv, HeldInv, NoFalseAlarm
<1> QED
  BY <1>1, <1>3, <1>4, <1>5 DEF HammerInv

LEMMA LogStepInv ==
  ASSUME HammerInv, Grew, LogStep \/ UNCHANGED hammerVars
  PROVE  HammerInv'
<1>1. UNCHANGED <<cfg, count, pc, op, deadline, sth, pending, first, fresh, nextOp, adders, held>>
  BY DEF LogStep, hammerVars
<1>2. HammerTypes' /\ LogInv'
  BY <1>1 DEF HammerInv, HammerTypes, Grew
<1>3. KeptInv' /\ HeldInv'
  BY <1>1, KeptStays, HeldStays
<1>4. AddersInv'
  BY <1>1, AddersStay DEF HammerInv, AddersInv
<1>5. NoFalseAlarm'
  BY <1>1 DEF HammerInv, HammerTypes, NoFalseAlarm, Grew
<1> QED
  BY <1>2, <1>3, <1>4, <1>5 DEF HammerInv

LEMMA LastSize ==
  ASSUME HammerInv
  PROVE  LastTreeSize \in 0 .. Len(tree) /\ Len(tree) \in Nat
<1>1. 1 \in DOMAIN sth /\ Len(tree) \in Nat
  BY HammerAssumption DEF HammerInv, HammerTypes
<1>2. sth[1] # None => sth[1] \in Nat /\ sth[1] <= Len(tree)
  BY <1>1 DEF HammerInv, HammerTypes, KeptInv
<1> QED
  BY <1>1, <1>2 DEF LastTreeSize

\* Operations that ask for nothing twice: what fails, fails for a lost request.
LEMMA ReadInv ==
  ASSUME HammerInv, Grew, GetRoots \/ GetEntries \/ EntriesInvalid \/ AddInvalid
  PROVE  HammerInv'
<1>0. cfg' = cfg
  BY DEF Grew
<1>1. UNCHANGED <<pending, sth, first, fresh, adders>>
  BY DEF GetRoots, GetEntries, EntriesInvalid, AddInvalid, hammerData
<1>2. LastTreeSize \in 0 .. Len(tree) /\ Len(tree) \in Nat
  BY LastSize
<1>3. tree \in Seq(Leaf) /\ Len(tree) <= MaxTree
  BY DEF HammerInv, HammerTypes, LogInv
<1>4. CASE GetRoots
  BY <1>0, <1>1, <1>4, SucceedEnds, FaultEnds, Settles DEF GetRoots
<1>5. CASE AddInvalid
  <2>1. Refused("BadRequest")
    BY <1>5 DEF AddInvalid
  <2> QED
    BY <1>0, <1>1, <2>1, RefusedEnds, Settles
<1>6. CASE EntriesInvalid
  <2>1. CASE Succeed \/ Refused("BadRequest")
    BY <1>0, <1>1, <2>1, SucceedEnds, RefusedEnds, Settles
  <2>2. CASE Refused(EntriesOf(LastTreeSize + InvalidStretch - 4, LastTreeSize + InvalidStretch).status)
    <3>1. PICK a, b : a = LastTreeSize + InvalidStretch - 4 /\ b = LastTreeSize + InvalidStretch
      OBVIOUS
    <3>2. a \in Int /\ b \in Int /\ Len(tree) <= a
      BY <1>2, <1>3, <3>1, HammerAssumption
    <3>3. EntriesOf(a, b).status # "OK"
      BY <1>3, <3>2, EntriesRefused
    <3> QED
      BY <1>0, <1>1, <2>2, <3>1, <3>3, RefusedEnds, Settles
  <2>3. CASE Refused(EntriesOf(-2, 10).status)
    <3>1. EntriesOf(-2, 10).status # "OK"
      BY <1>3, EntriesRefused
    <3> QED
      BY <1>0, <1>1, <2>3, <3>1, RefusedEnds, Settles
  <2> QED
    BY <1>6, <2>1, <2>2, <2>3 DEF EntriesInvalid
<1>7. CASE GetEntries
  <2>1. CASE LastTreeSize = 0
    <3>1. PICK ops : Skip(ops)
      BY <1>7, <2>1 DEF GetEntries
    <3> QED
      BY <1>0, <1>1, <3>1, SkipEnds, Settles
  <2>2. CASE LastTreeSize # 0 /\ Fault /\ Fail
    BY <1>1, <2>2, FaultEnds, Settles
  <2>3. ASSUME LastTreeSize # 0,
               NEW start \in 0 .. LastTreeSize - 1, NEW n \in MinGetEntries .. MaxGetEntries - 1, NEW end,
               end = IF ~cfg.oversized /\ start + n >= LastTreeSize THEN LastTreeSize - 1 ELSE start + n,
               IF EntriesOf(start, end).status = "OK" THEN Succeed ELSE Fail
        PROVE  HammerInv'
    <3>1. n \in Nat /\ n < MaxGetEntries /\ MaxGetEntries \in Nat
      BY HammerAssumption
    <3>2. end \in Nat /\ start <= end /\ end - start < MaxGetEntries /\ start \in 0 .. Len(tree) - 1
      BY <1>2, <2>3, <3>1
    <3>3. EntriesOf(start, end).status = "OK"
      BY <1>3, <3>2, EntriesServedFrom
    <3> QED
      BY <1>0, <1>1, <2>3, <3>3, SucceedEnds, Settles
  <2>4. CASE LastTreeSize # 0 /\ ~(Fault /\ Fail)
    <3>1. PICK start \in 0 .. LastTreeSize - 1, n \in MinGetEntries .. MaxGetEntries - 1 :
            LET end == IF ~cfg.oversized /\ start + n >= LastTreeSize THEN LastTreeSize - 1 ELSE start + n
            IN  IF EntriesOf(start, end).status = "OK" THEN Succeed ELSE Fail
      BY <1>7, <2>4 DEF GetEntries
    <3> QED
      BY <2>3, <2>4, <3>1
  <2> QED
    BY <2>1, <2>2, <2>4
<1> QED
  BY <1>4, <1>5, <1>6, <1>7

LEMMA ChooseInv ==
  ASSUME HammerInv, Grew, ChooseOp
  PROVE  HammerInv'
<1>1. Ended
  BY DEF ChooseOp, Ended, NoFalseAlarm, HammerInv, HammerTypes
<1> QED
  BY <1>1, Settles DEF ChooseOp

\* getSTH: the sizes that stay are older ones.
LEMMA STHInv ==
  ASSUME HammerInv, Grew, GetSTH
  PROVE  HammerInv'
<1>0. cfg' = cfg
  BY DEF Grew
<1>1. Ended
  BY <1>0, SucceedEnds, FaultEnds DEF GetSTH
<1>2. PICK x \in {None, Len(tree)} : sth' = <<x>> \o SubSeq(sth, 1, SthCount - 1)
  BY DEF GetSTH
<1>3. sth \in Seq({None} \cup Nat) /\ Len(sth) = SthCount /\ SthCount \in Nat /\ SthCount >= 1
  BY HammerAssumption DEF HammerInv, HammerTypes
<1>4. Len(tree) \in Nat /\ Len(tree') \in Nat /\ Len(tree) <= Len(tree')
  BY DEF HammerInv, HammerTypes, Grew
<1>5. PICK rest : rest = SubSeq(sth, 1, SthCount - 1)
  OBVIOUS
<1>6. rest \in Seq({None} \cup Nat) /\ Len(rest) = SthCount - 1
  BY <1>3, <1>5
<1>7. \A i \in 1 .. SthCount - 1 : rest[i] = sth[i]
  BY <1>3, <1>5
<1>8. <<x>> \in Seq({None} \cup Nat)
  BY <1>4
<1>9. sth' \in Seq({None} \cup Nat) /\ Len(sth') = SthCount
  BY <1>2, <1>3, <1>5, <1>6, <1>8
<1>10. sth'[1] = x /\ \A i \in 2 .. SthCount : sth'[i] = rest[i - 1]
  BY <1>2, <1>3, <1>5, <1>6, <1>8
<1>11. ASSUME NEW i \in DOMAIN sth', sth'[i] # None PROVE sth'[i] <= Len(tree')
  <2>1. i \in 1 .. SthCount
    BY <1>9
  <2>2. CASE i = 1
    BY <1>2, <1>4, <1>10, <1>11, <2>2
  <2>3. CASE i # 1
    <3>1. i - 1 \in 1 .. SthCount - 1 /\ i - 1 \in DOMAIN sth
      BY <1>3, <2>1, <2>3
    <3>2. sth'[i] = sth[i - 1]
      BY <1>3, <1>7, <1>10, <2>1, <2>3, <3>1
    <3>3. sth[i - 1] \in Nat /\ sth[i - 1] <= Len(tree)
      BY <1>3, <1>11, <3>1, <3>2 DEF HammerInv, KeptInv
    <3> QED
      BY <1>4, <3>2, <3>3
  <2> QED
    BY <2>2, <2>3
<1>12. UNCHANGED <<pending, first, fresh, adders>>
  BY DEF GetSTH
<1>13. ToSet(pending') \subseteq Leaves'
  BY <1>12 DEF HammerInv, KeptInv, Grew
<1>14. KeptInv'
  BY <1>11, <1>13 DEF KeptInv
<1>15. HammerTypes'
  BY <1>1, <1>9, <1>12 DEF HammerInv, HammerTypes, Grew, Ended
<1>16. AddersInv'
  BY <1>1, <1>12, AddersStay DEF Ended
<1>17. HeldInv'
  BY <1>1 DEF Ended, HeldInv
<1> QED
  BY <1>1, <1>14, <1>15, <1>16, <1>17 DEF HammerInv, Ended, Grew

\* getSTHConsistency: the sizes it holds are of trees that the log had.
LEMMA ChooseSTHsInv ==
  ASSUME HammerInv, Grew, ChooseSTHs
  PROVE  HammerInv'
<1>0. cfg' = cfg
  BY DEF Grew
<1>1. UNCHANGED <<pending, sth, first, fresh, adders>>
  BY DEF ChooseSTHs, hammerData
<1>2. CASE Ended
  BY <1>1, <1>2, Settles
<1>3. ASSUME NEW m \in 1 .. Len(tree), held' = [old |-> m, new |-> Len(tree)], pc' = "consistency", count' = count
      PROVE  HammerInv'
  <2>1. HammerTypes' /\ LogInv' /\ NoFalseAlarm'
    BY <1>1, <1>3 DEF HammerInv, HammerTypes, Grew, NoFalseAlarm
  <2>2. KeptInv' /\ AddersInv'
    BY <1>1, <1>3, KeptStays, AddersStay
  <2>3. Len(tree) \in Nat /\ Len(tree') \in Nat /\ Len(tree) <= Len(tree')
    BY DEF HammerInv, HammerTypes, Grew
  <2>4. m \in 1 .. Len(tree') /\ Len(tree) \in 1 .. Len(tree') /\ m <= Len(tree)
    BY <2>3
  <2>5. HeldInv'
    BY <1>3, <2>4 DEF HeldInv
  <2> QED
    BY <2>1, <2>2, <2>5 DEF HammerInv
<1>4. CASE Fault /\ Fail
  BY <1>2, <1>4, FaultEnds
<1>5. CASE ~(Fault /\ Fail)
  <2>1. PICK old \in ToSet(sth) :
             LET size == Len(tree)
                 need == NeededFirst(old, size)
             IN  CASE need = <<>> -> held' = [old |-> old, new |-> size] /\ pc' = "consistency"
                                       /\ UNCHANGED <<count, op, deadline, nextOp>>
                   [] need # <<>> /\ (cfg.strict \/ size < 2) -> Skip(need) /\ UNCHANGED held
                   [] OTHER -> /\ \E n \in 1 .. size : held' = [old |-> n, new |-> size]
                               /\ pc' = "consistency" /\ nextOp' = nextOp \o need
                               /\ UNCHANGED <<count, op, deadline>>
    BY <1>5 DEF ChooseSTHs
  <2>2. PICK need : need = NeededFirst(old, Len(tree))
    OBVIOUS
  <2>3. CASE need = <<>>
    <3>1. old # None /\ old # 0 /\ old # Len(tree)
      BY <2>2, <2>3 DEF NeededFirst
    <3>2. PICK i \in DOMAIN sth : sth[i] = old
      BY <2>1 DEF HammerInv, HammerTypes, ToSet
    <3>3. old \in Nat /\ old <= Len(tree) /\ Len(tree) \in Nat
      BY <3>1, <3>2 DEF HammerInv, HammerTypes, KeptInv
    <3>4. old \in 1 .. Len(tree)
      BY <3>1, <3>3
    <3> QED
      BY <1>3, <2>1, <2>2, <2>3, <3>4
  <2>4. CASE need # <<>> /\ (cfg.strict \/ Len(tree) < 2)
    <3>1. Skip(need)
      BY <2>1, <2>2, <2>4
    <3> QED
      BY <1>0, <1>2, <3>1, SkipEnds
  <2>5. CASE need # <<>> /\ ~(cfg.strict \/ Len(tree) < 2)
    <3>1. (\E n \in 1 .. Len(tree) : held' = [old |-> n, new |-> Len(tree)]) /\ pc' = "consistency" /\ count' = count
      BY <2>1, <2>2, <2>5
    <3> QED
      BY <1>3, <3>1
  <2> QED
    BY <2>3, <2>4, <2>5
<1> QED
  BY <1>4, <1>5

LEMMA ConsistencyInv ==
  ASSUME HammerInv, Grew, GetSTHConsistency
  PROVE  HammerInv'
<1>0. cfg' = cfg
  BY DEF Grew
<1>1. UNCHANGED <<pending, sth, first, fresh, adders>>
  BY DEF GetSTHConsistency, hammerData
<1>2. PICK m \in 1 .. Len(tree), n \in 1 .. Len(tree) : m <= n /\ held = [old |-> m, new |-> n]
  BY DEF GetSTHConsistency, HammerInv, HeldInv
<1>3. Len(tree) \in Nat
  BY DEF HammerInv, HammerTypes
<1>4. held.old = m /\ held.new = n
  BY <1>2
<1>5. R!GetSTHConsistencyResult(held.old, held.new, Len(tree)) = R!Body(<<"cons", held.old, held.new>>)
  BY <1>2, <1>3, <1>4, ConsistencyServed
<1> QED
  BY <1>0, <1>1, <1>5, SucceedEnds, FaultEnds, Settles DEF GetSTHConsistency

LEMMA ConsistencyInvalidInv ==
  ASSUME HammerInv, Grew, ConsistencyInvalid
  PROVE  HammerInv'
<1>0. cfg' = cfg
  BY DEF Grew
<1>1. UNCHANGED <<pending, sth, first, fresh, adders>>
  BY DEF ConsistencyInvalid, hammerData
<1>2. LastTreeSize \in 0 .. Len(tree) /\ Len(tree) \in Nat
  BY LastSize
<1>3. PICK beyond : beyond = LastTreeSize + InvalidStretch
  OBVIOUS
<1>4. beyond \in Int /\ beyond > 0 /\ beyond + 100 \in Int /\ beyond + 100 > Len(tree)
  BY <1>2, <1>3, HammerAssumption DEF HammerInv, LogInv
<1>5. CASE Fault /\ Fail
  BY <1>1, <1>5, FaultEnds, Settles
<1>6. CASE \E ops : Skip(ops)
  BY <1>0, <1>1, <1>6, SkipEnds, Settles
<1>7. ASSUME NEW m \in Int, NEW n \in Int, m < 0 \/ n < m \/ (m > 0 /\ n > Len(tree)),
             Refused(R!GetSTHConsistencyResult(m, n, Len(tree)).status)
      PROVE  HammerInv'
  <2>1. R!GetSTHConsistencyResult(m, n, Len(tree)).status # "OK"
    BY <1>2, <1>7, ConsistencyRefused
  <2> QED
    BY <1>0, <1>1, <1>7, <2>1, RefusedEnds, Settles
<1>8. ASSUME NEW old \in ToSet(sth), NeededFirst(old, Len(tree)) = <<>>,
             Refused(R!GetSTHConsistencyResult(Len(tree), old, Len(tree)).status)
      PROVE  HammerInv'
  <2>1. old # None /\ old # 0 /\ old # Len(tree)
    BY <1>8 DEF NeededFirst
  <2>2. PICK i \in DOMAIN sth : sth[i] = old
    BY <1>8 DEF HammerInv, HammerTypes, ToSet
  <2>3. old \in Nat /\ old <= Len(tree)
    BY <2>1, <2>2 DEF HammerInv, HammerTypes, KeptInv
  <2>4. old \in Int /\ Len(tree) \in Int /\ old < Len(tree)
    BY <1>2, <2>1, <2>3
  <2> QED
    BY <1>7, <1>8, <2>4
<1>9. \/ Fault /\ Fail
      \/ \E ops : Skip(ops)
      \/ Refused(R!GetSTHConsistencyResult(beyond, beyond + 100, Len(tree)).status)
      \/ Refused(R!GetSTHConsistencyResult(-3, -1, Len(tree)).status)
      \/ \E old \in ToSet(sth) : /\ NeededFirst(old, Len(tree)) = <<>>
                                 /\ Refused(R!GetSTHConsistencyResult(Len(tree), old, Len(tree)).status)
  BY <1>3 DEF ConsistencyInvalid
<1>10. CASE Refused(R!GetSTHConsistencyResult(beyond, beyond + 100, Len(tree)).status)
  BY <1>4, <1>7, <1>10
<1>11. CASE Refused(R!GetSTHConsistencyResult(-3, -1, Len(tree)).status)
  BY <1>7, <1>11
<1> QED
  BY <1>5, <1>6, <1>8, <1>9, <1>10, <1>11

\* A leaf at its index.
LEMMA IndexFacts ==
  ASSUME HammerInv, NEW leaf
  PROVE  /\ IndexOf(leaf) \in Nat
         /\ leaf \notin ToSet(tree) => IndexOf(leaf) = Len(tree)
         /\ \A i \in 1 .. Len(tree) : tree[i] = leaf => IndexOf(leaf) = i - 1
<1>1. tree \in Seq(Leaf) /\ Len(tree) \in Nat /\ DOMAIN tree = 1 .. Len(tree)
  BY DEF HammerInv, HammerTypes
<1>2. CASE leaf \notin ToSet(tree)
  <2>1. \A i \in 1 .. Len(tree) : tree[i] # leaf
    BY <1>1, <1>2, SeqToSet
  <2> QED
    BY <1>1, <1>2, <2>1 DEF IndexOf
<1>3. CASE leaf \in ToSet(tree)
  <2>1. PICK i \in 1 .. Len(tree) : tree[i] = leaf
    BY <1>1, <1>3, SeqToSet
  <2>2. PICK j : j = CHOOSE k \in DOMAIN tree : tree[k] = leaf
    OBVIOUS
  <2>3. j \in 1 .. Len(tree) /\ tree[j] = leaf
    BY <1>1, <2>1, <2>2
  <2>4. IndexOf(leaf) = j - 1
    BY <1>3, <2>2 DEF IndexOf
  <2>5. \A k \in 1 .. Len(tree) : tree[k] = leaf => k = j
    BY <1>1, <2>3 DEF HammerInv, LogInv, IsInjective
  <2> QED
    BY <1>1, <1>3, <2>3, <2>4, <2>5
<1> QED
  BY <1>2, <1>3

\* getProofByHash: a leaf whose time is up is in the tree of an honest log.
LEMMA ProofSTHInv ==
  ASSUME HammerInv, Grew, ProofSTH
  PROVE  HammerInv'
<1>0. cfg' = cfg
  BY DEF Grew
<1>1. UNCHANGED <<pending, sth, first, fresh, adders>>
  BY DEF ProofSTH, hammerData
<1>2. CASE Succeed \/ (Fault /\ Fail)
  BY <1>0, <1>1, <1>2, SucceedEnds, FaultEnds, Settles
<1>3. CASE /\ OldestIfMMDPassed # None /\ Answered
           /\ held' = [leaf |-> OldestIfMMDPassed, size |-> Len(tree)] /\ pc' = "proof" /\ count' = count
  <2>1. pending # <<>> /\ now > Head(pending).ts + MMD /\ OldestIfMMDPassed = Head(pending)
    BY <1>3 DEF OldestIfMMDPassed
  <2>2. tree' = tree /\ tree \in Seq(Leaf) /\ Len(tree) \in Nat
    BY <1>3 DEF Answered, log, HammerInv, HammerTypes
  <2>3. ASSUME honest PROVE \E i \in 1 .. Len(tree) : tree[i] = Head(pending)
    <3>1. pending \in Seq(Leaf) /\ Head(pending) \in ToSet(pending)
      BY <2>1, SeqToSet DEF HammerInv, HammerTypes
    <3>2. Head(pending) \in Leaves /\ Head(pending).ts \in Nat
      <4>1. Head(pending) \in Leaf
        BY <3>1, SeqToSet
      <4> QED
        BY <3>1, <4>1 DEF HammerInv, KeptInv, Leaf
    <3>3. Head(pending) \notin queued
      BY <2>1, <2>3, <3>2, HammerAssumption DEF HammerInv, HammerTypes, LogInv
    <3> QED
      BY <2>2, <3>2, <3>3, SeqToSet DEF Leaves
  <2>4. HammerTypes' /\ LogInv' /\ NoFalseAlarm'
    BY <1>1, <1>3 DEF HammerInv, HammerTypes, Grew, NoFalseAlarm
  <2>5. KeptInv' /\ AddersInv'
    BY <1>1, <1>3, KeptStays, AddersStay
  <2>6. Len(tree) \in 0 .. Len(tree')
    BY <2>2
  <2>7. HeldInv'
    BY <1>1, <1>3, <2>1, <2>2, <2>3, <2>6 DEF HeldInv, Grew
  <2> QED
    BY <2>4, <2>5, <2>7 DEF HammerInv
<1> QED
  BY <1>2, <1>3 DEF ProofSTH

\* Its second request: what is served, and dropped, is in the tree.
LEMMA ProofServed ==
  ASSUME HammerInv, pc = "proof"
  PROVE  /\ held.leaf = Head(pending) /\ pending # <<>>
         /\ R!GetProofByHashResult(IndexOf(held.leaf), held.size, Len(tree))
              = R!Body(<<"in", IndexOf(held.leaf), held.size>>) => held.leaf \in ToSet(tree)
         /\ honest => R!GetProofByHashResult(IndexOf(held.leaf), held.size, Len(tree))
              = R!Body(<<"in", IndexOf(held.leaf), held.size>>)
<1>1. PICK n \in 0 .. Len(tree) : /\ held = [leaf |-> Head(pending), size |-> n]
                                  /\ honest => \E i \in 1 .. n : tree[i] = Head(pending)
  BY DEF HammerInv, HeldInv
<1>2. held.leaf = Head(pending) /\ held.size = n /\ pending # <<>>
  BY <1>1 DEF HammerInv, HeldInv
<1>3. Len(tree) \in Nat
  BY DEF HammerInv, HammerTypes
<1>4. PICK k : k = IndexOf(held.leaf)
  OBVIOUS
<1>5. k \in Nat
  BY <1>4, IndexFacts
<1>6. R!GetProofByHashResult(k, n, Len(tree)) = R!Body(<<"in", k, n>>) <=> k < n
  BY <1>3, <1>5, InclusionServed
<1>7. k < n => held.leaf \in ToSet(tree)
  BY <1>3, <1>4, <1>5, IndexFacts
<1>8. honest => k < n
  <2> SUFFICES ASSUME honest PROVE k < n
    OBVIOUS
  <2>1. PICK i \in 1 .. n : tree[i] = held.leaf
    BY <1>1, <1>2
  <2>2. i \in 1 .. Len(tree)
    BY <1>3
  <2>3. k = i - 1
    BY <1>4, <2>1, <2>2, IndexFacts
  <2> QED
    BY <1>3, <2>3
<1> QED
  BY <1>2, <1>4, <1>6, <1>7, <1>8

LEMMA ProofInv ==
  ASSUME HammerInv, Grew, GetProofByHash
  PROVE  HammerInv'
<1>0. cfg' = cfg /\ honest' = honest
  BY DEF Grew
<1>1. UNCHANGED <<sth, first, fresh, adders>> /\ pc = "proof"
  BY DEF GetProofByHash
<1>2. Ended
  <2>1. CASE Fault /\ Fail
    BY <2>1, FaultEnds
  <2>2. CASE Succeed
    BY <1>0, <2>2, SucceedEnds
  <2>3. CASE Fail /\ R!GetProofByHashResult(IndexOf(held.leaf), held.size, Len(tree))
                        # R!Body(<<"in", IndexOf(held.leaf), held.size>>)
    BY <1>0, <1>1, <2>3, ProofServed, FailEnds
  <2> QED
    BY <2>1, <2>2, <2>3 DEF GetProofByHash
<1>3. CASE pending' = pending
  BY <1>1, <1>2, <1>3, Settles
<1>4. CASE pending' = Tail(pending)
  <2>1. pending \in Seq(Leaf) /\ pending # <<>>
    BY <1>1, ProofServed DEF HammerInv, HammerTypes
  <2>2. pending' \in Seq(Leaf) /\ \A i \in 1 .. Len(pending') : i + 1 \in 1 .. Len(pending) /\ pending'[i] = pending[i + 1]
    BY <1>4, <2>1
  <2>3. ToSet(pending') \subseteq ToSet(pending)
    <3> SUFFICES ASSUME NEW x \in ToSet(pending') PROVE x \in ToSet(pending)
      OBVIOUS
    <3>1. PICK i \in 1 .. Len(pending') : pending'[i] = x
      BY <2>2, SeqToSet
    <3>2. i + 1 \in 1 .. Len(pending) /\ pending[i + 1] = x
      BY <2>2, <3>1
    <3> QED
      BY <2>1, <3>2, SeqToSet
  <2>4. ToSet(pending') \subseteq Leaves'
    BY <2>3 DEF HammerInv, KeptInv, Grew
  <2>5. \A i \in DOMAIN sth' : sth'[i] # None => sth'[i] <= Len(tree')
    <3>1. \A i \in DOMAIN sth : sth[i] # None => sth[i] \in Nat /\ sth[i] <= Len(tree)
      BY DEF HammerInv, HammerTypes, KeptInv
    <3>2. Len(tree) \in Nat /\ Len(tree') \in Nat /\ Len(tree) <= Len(tree')
      BY DEF HammerInv, HammerTypes, Grew
    <3> QED
      BY <1>1, <3>1, <3>2
  <2>6. KeptInv'
    BY <2>4, <2>5 DEF KeptInv
  <2>7. HammerTypes'
    BY <1>1, <1>2, <2>2 DEF HammerInv, HammerTypes, Grew, Ended
  <2>8. AddersInv'
    BY <1>1, <1>2, AddersStay DEF Ended
  <2>9. HeldInv'
    BY <1>2 DEF Ended, HeldInv
  <2> QED
    BY <1>2, <2>6, <2>7, <2>8, <2>9 DEF HammerInv, Ended, Grew
<1> QED
  BY <1>3, <1>4 DEF GetProofByHash

LEMMA ProofInvalidInv ==
  ASSUME HammerInv, Grew, ProofInvalid
  PROVE  HammerInv'
<1>0. cfg' = cfg
  BY DEF Grew
<1>1. UNCHANGED <<pending, sth, first, fresh, adders>>
  BY DEF ProofInvalid, hammerData
<1>2. LastTreeSize \in 0 .. Len(tree) /\ Len(tree) \in Nat
  BY LastSize
<1>3. CASE Succeed \/ Refused("BadRequest")
  BY <1>0, <1>1, <1>3, SucceedEnds, RefusedEnds, Settles
<1>4. ASSUME NEW n \in {LastTreeSize + InvalidStretch, -1},
             Refused(R!GetProofByHashResult(IndexOf(OldestIfMMDPassed), n, Len(tree)).status)
      PROVE  HammerInv'
  <2>1. n \in Int /\ (n < 1 \/ n > Len(tree))
    BY <1>2, HammerAssumption DEF HammerInv, LogInv
  <2>2. R!GetProofByHashResult(IndexOf(OldestIfMMDPassed), n, Len(tree)).status # "OK"
    BY <1>2, <2>1, InclusionRefused
  <2> QED
    BY <1>0, <1>1, <1>4, <2>2, RefusedEnds, Settles
<1> QED
  BY <1>3, <1>4 DEF ProofInvalid

-----------------------------------------------------------------------------
(* The goroutines that add chains.                                          *)

\* What all of their steps leave alone.
LEMMA AddersSettle ==
  ASSUME HammerInv, Grew, UNCHANGED <<count, op, sth, pending>>, pc' = "adding", op.ep \in Kinds,
         adders' \in Seq(AdderState), fresh' \in Nat,
         first' \in [Kinds -> {None} \cup [cert : Kinds \X Nat, integrated : Nat]],
         \A i \in DOMAIN adders' :
           /\ adders'[i].at = "submit" => adders'[i].cert \in Kinds \X Nat
           /\ adders'[i].at = "append" => adders'[i].leaf \in Leaves'
           /\ adders'[i].at = "failed" => faults' > 0
  PROVE  HammerInv'
<1>1. HammerTypes' /\ LogInv'
  BY DEF HammerInv, HammerTypes, Grew
<1>2. KeptInv'
  BY KeptStays
<1>3. AddersInv'
  BY DEF AddersInv
<1>4. HeldInv' /\ NoFalseAlarm'
  BY DEF HeldInv, NoFalseAlarm
<1> QED
  BY <1>1, <1>2, <1>3, <1>4 DEF HammerInv

LEMMA AddMultipleInv ==
  ASSUME HammerInv, Grew, AddMultiple
  PROVE  HammerInv'
<1>1. PICK kind \in Kinds, n \in 1 .. cfg.parallel :
        /\ Performs(kind, FALSE)
        /\ adders' = [i \in 1 .. n |-> [at |-> "chain", cert |-> None, leaf |-> None]]
        /\ pc' = "adding"
        /\ UNCHANGED <<count, op, sth, pending, first, fresh>>
  BY DEF AddMultiple
<1>2. n \in Nat
  BY HammerAssumption DEF HammerInv, HammerTypes
<1>3. op.ep \in Kinds
  BY <1>1 DEF Performs
<1>4. PICK a : a = [at |-> "chain", cert |-> None, leaf |-> None]
  OBVIOUS
<1>5. a \in AdderState /\ a.at = "chain"
  BY <1>4 DEF AdderState
<1>6. adders' \in Seq(AdderState) /\ \A i \in DOMAIN adders' : adders'[i] = a
  BY <1>1, <1>2, <1>4, <1>5
<1>7. fresh' \in Nat /\ first' \in [Kinds -> {None} \cup [cert : Kinds \X Nat, integrated : Nat]]
  BY <1>1 DEF HammerInv, HammerTypes
<1> QED
  BY <1>1, <1>3, <1>5, <1>6, <1>7, AddersSettle

\* One goroutine's entry changes; the others' stay good.
LEMMA OneAdder ==
  ASSUME HammerInv, Grew, NEW i \in DOMAIN adders, NEW a \in AdderState, adders' = [adders EXCEPT ![i] = a],
         a.at = "submit" => a.cert \in Kinds \X Nat,
         a.at = "append" => a.leaf \in Leaves',
         a.at = "failed" => faults' > 0
  PROVE  /\ adders' \in Seq(AdderState)
         /\ \A j \in DOMAIN adders' :
              /\ adders'[j].at = "submit" => adders'[j].cert \in Kinds \X Nat
              /\ adders'[j].at = "append" => adders'[j].leaf \in Leaves'
              /\ adders'[j].at = "failed" => faults' > 0
<1>1. adders \in Seq(AdderState)
  BY DEF HammerInv, HammerTypes
<1>2. adders' \in Seq(AdderState) /\ DOMAIN adders' = DOMAIN adders
  BY <1>1
<1>3. \A j \in DOMAIN adders : adders'[j] = IF j = i THEN a ELSE adders[j]
  BY <1>1
<1>4. Leaves \subseteq Leaves' /\ faults \in Nat /\ faults' \in Nat /\ faults <= faults'
  BY DEF HammerInv, HammerTypes, Grew
<1>5. \A j \in DOMAIN adders :
              /\ adders[j].at = "submit" => adders[j].cert \in Kinds \X Nat
              /\ adders[j].at = "append" => adders[j].leaf \in Leaves'
              /\ adders[j].at = "failed" => faults' > 0
  BY <1>4 DEF HammerInv, AddersInv
<1> QED
  BY <1>2, <1>3, <1>5

LEMMA AtUpdate ==
  ASSUME adders \in Seq(AdderState), NEW i \in DOMAIN adders, NEW p
  PROVE  [adders EXCEPT ![i].at = p]
           = [adders EXCEPT ![i] = [at |-> p, cert |-> adders[i].cert, leaf |-> adders[i].leaf]]
<1>1. PICK x \in AdderState : x = adders[i]
  OBVIOUS
<1>2. DOMAIN x = {"at", "cert", "leaf"}
  BY DEF AdderState
<1>3. [x EXCEPT !.at = p] = [at |-> p, cert |-> x.cert, leaf |-> x.leaf]
  BY <1>2
<1> QED
  BY <1>1, <1>3

LEMMA CertUpdate ==
  ASSUME adders \in Seq(AdderState), NEW i \in DOMAIN adders, NEW p, NEW c
  PROVE  [adders EXCEPT ![i].at = p, ![i].cert = c]
           = [adders EXCEPT ![i] = [at |-> p, cert |-> c, leaf |-> adders[i].leaf]]
<1>1. PICK x \in AdderState : x = adders[i]
  OBVIOUS
<1>2. DOMAIN x = {"at", "cert", "leaf"}
  BY DEF AdderState
<1>3. [x EXCEPT !.at = p] = [at |-> p, cert |-> x.cert, leaf |-> x.leaf]
  BY <1>2
<1>4. [[at |-> p, cert |-> x.cert, leaf |-> x.leaf] EXCEPT !.cert = c] = [at |-> p, cert |-> c, leaf |-> x.leaf]
  OBVIOUS
<1> QED
  BY <1>1, <1>3, <1>4

LEMMA GetChainInv ==
  ASSUME HammerInv, Grew, NEW i \in DOMAIN adders, GetChain(i)
  PROVE  HammerInv'
<1>1. adders \in Seq(AdderState) /\ adders[i] \in AdderState /\ fresh \in Nat
      /\ first \in [Kinds -> {None} \cup [cert : Kinds \X Nat, integrated : Nat]]
  BY DEF HammerInv, HammerTypes
<1>2. UNCHANGED <<count, op, sth, pending>> /\ pc' = "adding" /\ op.ep \in Kinds
  BY DEF GetChain, adderData, HammerInv, AddersInv
<1>3. ASSUME NEW cert \in Kinds \X Nat, adders' = [adders EXCEPT ![i].at = "submit", ![i].cert = cert],
             fresh' \in Nat, first' \in [Kinds -> {None} \cup [cert : Kinds \X Nat, integrated : Nat]]
      PROVE  HammerInv'
  <2>1. PICK a : a = [at |-> "submit", cert |-> cert, leaf |-> adders[i].leaf]
    OBVIOUS
  <2>2. a \in AdderState /\ a.at = "submit" /\ a.cert = cert
    BY <1>1, <2>1 DEF AdderState
  <2>3. adders' = [adders EXCEPT ![i] = a]
    BY <1>1, <1>3, <2>1, CertUpdate
  <2>4. /\ adders' \in Seq(AdderState)
        /\ \A j \in DOMAIN adders' :
             /\ adders'[j].at = "submit" => adders'[j].cert \in Kinds \X Nat
             /\ adders'[j].at = "append" => adders'[j].leaf \in Leaves'
             /\ adders'[j].at = "failed" => faults' > 0
    BY <2>2, <2>3, OneAdder
  <2> QED
    BY <1>2, <1>3, <2>4, AddersSettle
<1>4. CASE /\ fresh' = fresh + 1
           /\ adders' = [adders EXCEPT ![i].at = "submit", ![i].cert = <<op.ep, fresh>>]
           /\ first' = IF first[op.ep] # None THEN first
                       ELSE [first EXCEPT ![op.ep] = [cert |-> <<op.ep, fresh>>, integrated |-> now + MMD]]
  <2>1. <<op.ep, fresh>> \in Kinds \X Nat /\ now + MMD \in Nat
    BY <1>1, <1>2, HammerAssumption DEF HammerInv, HammerTypes
  <2>2. PICK f : f = [cert |-> <<op.ep, fresh>>, integrated |-> now + MMD]
    OBVIOUS
  <2>3. f \in [cert : Kinds \X Nat, integrated : Nat]
    BY <2>1, <2>2
  <2>4. first' \in [Kinds -> {None} \cup [cert : Kinds \X Nat, integrated : Nat]]
    BY <1>1, <1>2, <1>4, <2>2, <2>3
  <2>5. fresh' \in Nat
    BY <1>1, <1>4
  <2> QED
    BY <1>3, <1>4, <2>1, <2>4, <2>5
<1>5. CASE /\ first[op.ep] # None
           /\ adders' = [adders EXCEPT ![i].at = "submit", ![i].cert = first[op.ep].cert]
           /\ UNCHANGED <<first, fresh>>
  <2>1. first[op.ep].cert \in Kinds \X Nat
    BY <1>1, <1>2, <1>5
  <2> QED
    BY <1>1, <1>3, <1>5, <2>1
<1> QED
  BY <1>4, <1>5 DEF GetChain

LEMMA SubmitInv ==
  ASSUME HammerInv, Grew, NEW i \in DOMAIN adders, Submit(i)
  PROVE  HammerInv'
<1>1. adders \in Seq(AdderState) /\ adders[i] \in AdderState /\ faults \in Nat /\ now \in Nat
      /\ queued \subseteq Leaf /\ tree \in Seq(Leaf)
  BY DEF HammerInv, HammerTypes
<1>2. UNCHANGED <<count, op, sth, pending>> /\ pc' = "adding" /\ op.ep \in Kinds
  BY DEF Submit, adderData, HammerInv, AddersInv
<1>3. fresh' \in Nat /\ first' \in [Kinds -> {None} \cup [cert : Kinds \X Nat, integrated : Nat]]
  BY DEF Submit, HammerInv, HammerTypes
<1>4. PICK leaf : leaf = LeafOf(adders[i].cert)
  OBVIOUS
<1>5. leaf \in Leaf
  <2>1. adders[i].cert \in Kinds \X Nat
    BY DEF Submit, HammerInv, AddersInv
  <2>2. ToSet(tree) \subseteq Leaf
    BY <1>1, SeqToSet
  <2>3. leaf \in Leaves => leaf \in Leaf
    BY <1>1, <2>2 DEF Leaves
  <2> QED
    BY <1>1, <1>4, <2>1, <2>3, LeafFacts
<1>6. CASE adders' = [adders EXCEPT ![i].at = "failed"] /\ faults' = faults + 1
  <2>1. PICK a : a = [at |-> "failed", cert |-> adders[i].cert, leaf |-> adders[i].leaf]
    OBVIOUS
  <2>2. a \in AdderState /\ a.at = "failed"
    BY <1>1, <2>1 DEF AdderState
  <2>3. adders' = [adders EXCEPT ![i] = a]
    BY <1>1, <1>6, <2>1, AtUpdate
  <2>4. faults' > 0
    BY <1>1, <1>6
  <2>5. /\ adders' \in Seq(AdderState)
        /\ \A j \in DOMAIN adders' :
             /\ adders'[j].at = "submit" => adders'[j].cert \in Kinds \X Nat
             /\ adders'[j].at = "append" => adders'[j].leaf \in Leaves'
             /\ adders'[j].at = "failed" => faults' > 0
    BY <2>2, <2>3, <2>4, OneAdder
  <2> QED
    BY <1>2, <1>3, <2>5, AddersSettle
<1>7. CASE /\ queued' = (IF leaf \in Leaves THEN queued ELSE queued \cup {leaf}) /\ tree' = tree
           /\ adders' = [adders EXCEPT ![i].at = "append", ![i].leaf = leaf]
  <2>1. PICK a : a = [at |-> "append", cert |-> adders[i].cert, leaf |-> leaf]
    OBVIOUS
  <2>2. a \in AdderState /\ a.at = "append" /\ a.leaf = leaf
    BY <1>1, <1>5, <2>1 DEF AdderState
  <2>3. adders' = [adders EXCEPT ![i] = a]
    <3>1. PICK x \in AdderState : x = adders[i]
      BY <1>1
    <3>2. DOMAIN x = {"at", "cert", "leaf"}
      BY DEF AdderState
    <3>3. [x EXCEPT !.at = "append"] = [at |-> "append", cert |-> x.cert, leaf |-> x.leaf]
      BY <3>2
    <3>4. [[at |-> "append", cert |-> x.cert, leaf |-> x.leaf] EXCEPT !.leaf = leaf] = a
      BY <2>1, <3>1
    <3> QED
      BY <1>1, <1>7, <3>1, <3>3, <3>4
  <2>4. leaf \in Leaves'
    BY <1>7 DEF Leaves
  <2>5. /\ adders' \in Seq(AdderState)
        /\ \A j \in DOMAIN adders' :
             /\ adders'[j].at = "submit" => adders'[j].cert \in Kinds \X Nat
             /\ adders'[j].at = "append" => adders'[j].leaf \in Leaves'
             /\ adders'[j].at = "failed" => faults' > 0
    BY <2>2, <2>3, <2>4, OneAdder
  <2> QED
    BY <1>2, <1>3, <2>5, AddersSettle
<1> QED
  BY <1>4, <1>6, <1>7 DEF Submit, Fault

LEMMA TryAppendInv ==
  ASSUME HammerInv, Grew, NEW i \in DOMAIN adders, TryAppend(i)
  PROVE  HammerInv'
<1>1. adders \in Seq(AdderState) /\ adders[i] \in AdderState /\ pending \in Seq(Leaf)
  BY DEF HammerInv, HammerTypes
<1>2. UNCHANGED <<log, cfg, count, op, sth, first, fresh>> /\ pc' = "adding" /\ op.ep \in Kinds
  BY DEF TryAppend, adderData, HammerInv, AddersInv
<1>3. adders[i].leaf \in Leaves /\ adders[i].leaf \in Leaf
  <2>1. adders[i].leaf \in Leaves
    BY DEF TryAppend, HammerInv, AddersInv
  <2>2. Leaves \subseteq Leaf
    BY SeqToSet DEF HammerInv, HammerTypes, Leaves
  <2> QED
    BY <2>1, <2>2
<1>4. pending' \in Seq(Leaf) /\ ToSet(pending') \subseteq Leaves
  <2>1. CASE pending' = pending
    BY <1>1, <2>1 DEF HammerInv, KeptInv
  <2>2. CASE pending' = Append(pending, adders[i].leaf)
    <3>1. pending' \in Seq(Leaf) /\ Len(pending') = Len(pending) + 1 /\ Len(pending) \in Nat
          /\ pending'[Len(pending) + 1] = adders[i].leaf /\ \A j \in 1 .. Len(pending) : pending'[j] = pending[j]
      BY <1>1, <1>3, <2>2
    <3>2. ASSUME NEW x \in ToSet(pending') PROVE x \in Leaves
      <4>1. PICK j \in 1 .. Len(pending') : pending'[j] = x
        BY <3>1, SeqToSet
      <4>2. CASE j = Len(pending) + 1
        BY <1>3, <3>1, <4>1, <4>2
      <4>3. CASE j \in 1 .. Len(pending)
        <5>1. x \in ToSet(pending)
          BY <1>1, <3>1, <4>1, <4>3, SeqToSet
        <5> QED
          BY <5>1 DEF HammerInv, KeptInv
      <4> QED
        BY <3>1, <4>2, <4>3
    <3> QED
      BY <3>1, <3>2
  <2> QED
    BY <2>1, <2>2 DEF TryAppend
<1>5. PICK a : a = [at |-> "ended", cert |-> adders[i].cert, leaf |-> adders[i].leaf]
  OBVIOUS
<1>6. a \in AdderState /\ a.at = "ended"
  BY <1>1, <1>5 DEF AdderState
<1>7. adders' = [adders EXCEPT ![i] = a]
  BY <1>1, <1>5, AtUpdate DEF TryAppend
<1>8. AddersInv' /\ adders' \in Seq(AdderState)
  BY <1>2, <1>6, <1>7, OneAdder DEF AddersInv
<1>9. Leaves' = Leaves /\ tree' = tree
  BY <1>2 DEF log, Leaves
<1>10. KeptInv'
  BY <1>2, <1>4, <1>9 DEF HammerInv, KeptInv
<1>11. HammerTypes' /\ LogInv'
  BY <1>2, <1>4, <1>8 DEF HammerInv, HammerTypes, Grew
<1>12. HeldInv' /\ NoFalseAlarm'
  BY <1>2 DEF HeldInv, NoFalseAlarm
<1> QED
  BY <1>8, <1>10, <1>11, <1>12 DEF HammerInv

LEMMA AddDoneInv ==
  ASSUME HammerInv, Grew, AddDone
  PROVE  HammerInv'
<1>0. cfg' = cfg /\ UNCHANGED <<pending, sth, first, fresh, faults>> /\ adders' = <<>>
  BY DEF AddDone, log
<1>1. Ended
  <2>1. CASE \E i \in DOMAIN adders : adders[i].at = "failed"
    <3>1. faults' > 0 /\ Fail
      BY <1>0, <2>1 DEF AddDone, HammerInv, AddersInv
    <3> QED
      BY <3>1, FailEnds
  <2>2. CASE ~\E i \in DOMAIN adders : adders[i].at = "failed"
    BY <1>0, <2>2, SucceedEnds DEF AddDone
  <2> QED
    BY <2>1, <2>2
<1>2. HammerTypes' /\ LogInv' /\ NoFalseAlarm'
  BY <1>0, <1>1 DEF HammerInv, HammerTypes, Grew, Ended
<1>3. KeptInv'
  BY <1>0, KeptStays
<1>4. AddersInv' /\ HeldInv'
  BY <1>0, <1>1 DEF AddersInv, HeldInv, Ended
<1> QED
  BY <1>2, <1>3, <1>4 DEF HammerInv

\* The one operation that an honest log may be blamed for.
LEMMA AddWithoutRootInv ==
  ASSUME HammerInv, Grew, AddWithoutRoot
  PROVE  HammerInv'
<1>1. /\ UNCHANGED <<cfg, pending, sth, first, adders>> /\ fresh' \in Nat
      /\ Succeed \/ Fail
      /\ cfg.direct
  BY DEF AddWithoutRoot, HammerInv, HammerTypes, Refused
<1>2. op.invalid /\ op.ep \in Kinds
  BY DEF AddWithoutRoot, Performs
<1>3. Ended
  BY <1>1, <1>2, SucceedEnds, FailEnds
<1> QED
  BY <1>1, <1>3, SettlesFresh

LEMMA HammerStep ==
  ASSUME HammerInv, [HammerNext]_hammerVars
  PROVE  HammerInv'
<1>1. Grew
  BY LogGrows
<1>2. CASE LogStep \/ UNCHANGED hammerVars
  BY <1>1, <1>2, LogStepInv
<1>3. CASE ChooseOp \/ AddMultiple \/ AddDone
  BY <1>1, <1>3, ChooseInv, AddMultipleInv, AddDoneInv
<1>4. CASE AddInvalid \/ GetSTH \/ GetRoots \/ GetEntries \/ EntriesInvalid
  BY <1>1, <1>4, ReadInv, STHInv
<1>5. CASE ChooseSTHs \/ GetSTHConsistency \/ ConsistencyInvalid
  BY <1>1, <1>5, ChooseSTHsInv, ConsistencyInv, ConsistencyInvalidInv
<1>6. CASE ProofSTH \/ GetProofByHash \/ ProofInvalid
  BY <1>1, <1>6, ProofSTHInv, ProofInv, ProofInvalidInv
<1>7. CASE \E i \in DOMAIN adders : Adder(i)
  BY <1>1, <1>7, GetChainInv, SubmitInv, TryAppendInv DEF Adder
<1>8. CASE AddWithoutRoot
  BY <1>1, <1>8, AddWithoutRootInv
<1> QED
  BY <1>2, <1>3, <1>4, <1>5, <1>6, <1>7, <1>8 DEF HammerNext

\* The hammer's invariant: what it keeps of the log's answers, and what it
\* holds between the two requests of an operation, stays true of the log.
THEOREM HammerInductive == HammerSpec => []HammerInv
<1>1. HammerInv /\ [HammerNext]_hammerVars => HammerInv'
  BY HammerStep
<1> QED
  BY <1>1, HammerInitInv, PTL DEF HammerSpec

\* HammerCTLog accuses no log that integrates within the MMD, for any
\* configuration, any number of goroutines that add, any trees and any times,
\* but for an invalid add where the generator gives a leaf with just its root.
THEOREM NoFalseAlarmAlways == HammerSpec => []NoFalseAlarm
<1>1. HammerInv => NoFalseAlarm
  BY DEF HammerInv
<1> QED
  BY <1>1, HammerInductive, PTL

\* pendingCerts: dropOldest drops a leaf only once the log proved that it is in
\* the tree, and nothing else drops one.
THEOREM KeptUntilProvedAlways == HammerSpec => KeptUntilProved
<1>1. ASSUME HammerInv, [HammerNext]_hammerVars
      PROVE  \A l \in ToSet(pending) \ ToSet(pending') : l \in ToSet(tree)
  <2>0. pending \in Seq(Leaf)
    BY <1>1 DEF HammerInv, HammerTypes
  <2>1. CASE pending' = pending
    BY <2>1
  <2>2. CASE \E i \in DOMAIN adders : TryAppend(i)
    <3>1. PICK i \in DOMAIN adders : pending' = pending \/ pending' = Append(pending, adders[i].leaf)
      BY <2>2 DEF TryAppend
    <3>2. CASE pending' = Append(pending, adders[i].leaf)
      <4>1. \A j \in 1 .. Len(pending) : j \in DOMAIN pending' /\ pending'[j] = pending[j]
        BY <2>0, <3>2
      <4>2. ToSet(pending) \subseteq ToSet(pending')
        BY <2>0, <4>1 DEF ToSet
      <4> QED
        BY <4>2
    <3> QED
      BY <2>1, <3>1, <3>2
  <2>3. CASE GetProofByHash /\ pending' # pending
    <3>1. pending' = Tail(pending) /\ pc = "proof"
          /\ R!GetProofByHashResult(IndexOf(held.leaf), held.size, Len(tree))
                = R!Body(<<"in", IndexOf(held.leaf), held.size>>)
      BY <2>3 DEF GetProofByHash
    <3>2. pending # <<>> /\ Head(pending) \in ToSet(tree)
      BY <1>1, <3>1, ProofServed
    <3>3. ASSUME NEW l \in ToSet(pending), l \notin ToSet(pending') PROVE l = Head(pending)
      <4>1. PICK j \in 1 .. Len(pending) : pending[j] = l
        BY <2>0, SeqToSet
      <4>2. CASE j = 1
        BY <2>0, <4>1, <4>2
      <4>3. CASE j # 1
        <5>1. j - 1 \in 1 .. Len(pending') /\ pending'[j - 1] = l /\ pending' \in Seq(Leaf)
          BY <2>0, <3>1, <3>2, <4>1, <4>3
        <5>2. l \in ToSet(pending')
          BY <5>1, SeqToSet
        <5> QED
          BY <3>3, <5>2
      <4> QED
        BY <4>2, <4>3
    <3> QED
      BY <3>2, <3>3
  <2>4. pending' = pending \/ (\E i \in DOMAIN adders : TryAppend(i)) \/ GetProofByHash
    <3>1. CASE LogStep \/ ChooseOp \/ AddMultiple \/ AddDone \/ UNCHANGED hammerVars
      BY <3>1 DEF LogStep, ChooseOp, AddMultiple, AddDone, hammerVars
    <3>2. CASE AddInvalid \/ GetSTH \/ GetRoots \/ GetEntries \/ EntriesInvalid
      BY <3>2 DEF AddInvalid, GetSTH, GetRoots, GetEntries, EntriesInvalid, hammerData
    <3>3. CASE ChooseSTHs \/ GetSTHConsistency \/ ConsistencyInvalid \/ ProofSTH \/ ProofInvalid
      BY <3>3 DEF ChooseSTHs, GetSTHConsistency, ConsistencyInvalid, ProofSTH, ProofInvalid, hammerData
    <3>4. CASE \E i \in DOMAIN adders : Adder(i)
      BY <3>4 DEF Adder, GetChain, Submit, TryAppend
    <3>5. CASE AddWithoutRoot
      BY <3>5 DEF AddWithoutRoot
    <3> QED
      BY <1>1, <3>1, <3>2, <3>3, <3>4, <3>5 DEF HammerNext
  <2> QED
    BY <2>1, <2>2, <2>3, <2>4
<1> QED
  BY <1>1, HammerInductive, PTL DEF KeptUntilProved, HammerSpec
=============================================================================
