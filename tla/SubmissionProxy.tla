--------------------------- MODULE SubmissionProxy ---------------------------
(***************************************************************************)
(* submission: a Proxy keeps a Distributor for the log list published      *)
(* somewhere.  Its LogListManager reads the list every now and then and    *)
(* sends a changed one over LLUpdates; the Proxy's loop builds a new       *)
(* Distributor from it, whose refresher goroutine collects the roots that  *)
(* the logs accept; and requests take the Distributor of the moment to     *)
(* find the logs for a chain.  What GetSCTs then does is SubmissionRace.   *)
(*                                                                         *)
(* Publications of the list are numbered; a Distributor is named by the    *)
(* publication it was built from.  External: the published list, the logs, *)
(* and the validation of chains, which succeeds when the chain's root is   *)
(* in the pool.                                                            *)
(***************************************************************************)
EXTENDS Integers, FiniteSets

CONSTANTS
  Logs,        \* URLs of logs
  Lists,       \* log lists, [usable, pending : SUBSET Logs, parses : BOOLEAN]
  Accepts,     \* the roots each log accepts
  CARoots,     \* the roots with IsCA set (a version 1 root has not)
  Buildable,   \* logs that LogClientBuilder can make a client for
  Chains,      \* chains, [root, fits : SUBSET Logs]: logs for its NotAfter
  Requests,    \* goroutines that serve requests
  MaxPublish   \* bound: how often a list is published

Publication == 1 .. MaxPublish

ASSUME ProxyAssumption ==
  /\ Lists \subseteq [usable : SUBSET Logs, pending : SUBSET Logs, parses : BOOLEAN]
  /\ Buildable \subseteq Logs
  /\ DOMAIN Accepts = Logs
  /\ MaxPublish \in Nat \ {0}

VARIABLES
  content,    \* the list of each publication
  source,     \* the publication to be read now
  ctxDone,    \* the context of Proxy.Run is done
  lastJSON,   \* logListRefresherImpl.lastJSON: what was read last, if anything
  latest,     \* LogListManager.latestLL and previousLL
  previous,
  mgr,        \* control state of the manager's goroutine
  llUpdates,  \* the LLUpdates channel, of capacity one: a publication, or 0
  errors,     \* whether the Errors channel, of capacity one, is full
  loop,       \* control state of the Proxy's goroutine
  update,     \* the list it has received
  initChan,   \* Proxy.Init: "open", "true" (sent and closed) or "closed"
  dist,       \* Proxy.dist, 0 for nil
  cancelled,  \* Distributors whose distCancel was called
  refresher,  \* control state of each Distributor's refresher
  clients,    \* logClients of each Distributor
  known,      \* logRoots: the logs whose roots it knows
  full,       \* rootDataFull
  req         \* per request: where it is, and its local variables

list     == <<content, source>>
manager  == <<lastJSON, latest, previous, mgr>>
channels == <<llUpdates, errors>>
proxy    == <<loop, update, initChan, dist>>
roots    == <<cancelled, refresher, clients, known, full>>
vars == <<list, ctxDone, manager, channels, proxy, roots, req>>

Nothing == 0
Idle == [pc |-> "idle"]

Request ==
  {Idle} \cup [pc : {"call"}, chain : Chains]
         \cup [pc : {"choose", "refused"}, chain : Chains, dist : Publication]
         \cup [pc : {"submit"}, chain : Chains, dist : Publication, logs : SUBSET Logs]

TypeOK ==
  /\ content \in [Publication -> Lists]
  /\ source \in Publication
  /\ <<ctxDone, errors>> \in BOOLEAN \X BOOLEAN
  /\ lastJSON \in Publication \cup {Nothing}
  /\ latest \in Publication \cup {Nothing}
  /\ previous \in Publication \cup {Nothing}
  /\ mgr \in {"start", "refresh", "send", "error", "wait", "ended"}
  /\ llUpdates \in Publication \cup {Nothing}
  /\ loop \in {"select", "restart", "ended"}
  /\ update \in Publication \cup {Nothing}
  /\ initChan \in {"open", "true", "closed"}
  /\ dist \in Publication \cup {Nothing}
  /\ cancelled \subseteq Publication
  /\ refresher \in [Publication -> {"off", "start", "refresh", "wait", "ended"}]
  /\ clients \in [Publication -> SUBSET Logs]
  /\ known \in [Publication -> SUBSET Logs]
  /\ full \in [Publication -> BOOLEAN]
  /\ req \in [Requests -> Request]

Init ==
  /\ content \in [Publication -> Lists]
  /\ source = 1
  /\ ctxDone = FALSE
  /\ lastJSON = Nothing
  /\ latest = Nothing
  /\ previous = Nothing
  /\ mgr = "start"
  /\ llUpdates = Nothing
  /\ errors = FALSE
  /\ loop = "select"
  /\ update = Nothing
  /\ initChan = "open"
  /\ dist = Nothing
  /\ cancelled = {}
  /\ refresher = [n \in Publication |-> "off"]
  /\ clients = [n \in Publication |-> {}]
  /\ known = [n \in Publication |-> {}]
  /\ full = [n \in Publication |-> FALSE]
  /\ req = [r \in Requests |-> Idle]

-----------------------------------------------------------------------------
(* The manager's goroutine: schedule.Every, which calls                     *)
(* refreshLogListAndNotify at once and then at every tick of its ticker.    *)

MgrGoto(pc) == mgr' = pc /\ UNCHANGED <<list, ctxDone, proxy, roots, req>>

MgrStart ==
  /\ mgr = "start"
  /\ MgrGoto(IF ctxDone THEN "ended" ELSE "refresh")
  /\ UNCHANGED <<lastJSON, latest, previous, channels>>

\* A slip: every list read counts as new.
SameJSONNever == FALSE

\* The bytes read are those of the last time.
SameJSON == lastJSON # Nothing /\ content[source] = content[lastJSON]

\* A slip: the bytes are remembered before they have been parsed.
RefreshFailsRemembering ==
  /\ mgr = "refresh"
  /\ lastJSON' = source
  /\ MgrGoto("error")
  /\ UNCHANGED <<latest, previous, channels>>

\* RefreshLogList: the list cannot be read, or does not parse.
RefreshFails ==
  /\ mgr = "refresh"
  /\ MgrGoto("error")
  /\ UNCHANGED <<lastJSON, latest, previous, channels>>

RefreshUnchanged ==
  /\ mgr = "refresh"
  /\ SameJSON
  /\ MgrGoto("wait")
  /\ UNCHANGED <<lastJSON, latest, previous, channels>>

RefreshChanged ==
  /\ mgr = "refresh"
  /\ ~SameJSON
  /\ content[source].parses
  /\ lastJSON' = source
  /\ previous' = latest
  /\ latest' = source
  /\ MgrGoto("send")
  /\ UNCHANGED channels

\* refreshLogListAndNotify blocks while the channel is full.
SendUpdate ==
  /\ mgr = "send"
  /\ llUpdates = Nothing
  /\ llUpdates' = latest
  /\ MgrGoto("wait")
  /\ UNCHANGED <<lastJSON, latest, previous, errors>>

SendError ==
  /\ mgr = "error"
  /\ ~errors
  /\ errors' = TRUE
  /\ MgrGoto("wait")
  /\ UNCHANGED <<lastJSON, latest, previous, llUpdates>>

MgrTick ==
  /\ mgr = "wait"
  /\ MgrGoto("refresh")
  /\ UNCHANGED <<lastJSON, latest, previous, channels>>

MgrEnds ==
  /\ mgr = "wait"
  /\ ctxDone
  /\ MgrGoto("ended")
  /\ UNCHANGED <<lastJSON, latest, previous, channels>>

-----------------------------------------------------------------------------
(* The Proxy's goroutine.                                                   *)

LoopEnds ==
  /\ loop = "select"
  /\ ctxDone
  /\ loop' = "ended"
  /\ initChan' = IF initChan = "open" THEN "closed" ELSE initChan
  /\ UNCHANGED <<list, ctxDone, manager, channels, update, dist, roots, req>>

TakeUpdate ==
  /\ loop = "select"
  /\ llUpdates # Nothing
  /\ update' = llUpdates
  /\ llUpdates' = Nothing
  /\ loop' = "restart"
  /\ UNCHANGED <<list, ctxDone, manager, errors, initChan, dist, roots, req>>

TakeError ==
  /\ loop = "select"
  /\ errors
  /\ errors' = FALSE
  /\ UNCHANGED <<list, ctxDone, manager, llUpdates, proxy, roots, req>>

\* NewDistributor needs a client for each usable log.
CanBuild(l) == l.usable \subseteq Buildable

\* For pending logs it stops, without an error, at the first that fails.
ClientSets(l) ==
  {l.usable \cup P : P \in IF l.pending \subseteq Buildable THEN {l.pending}
                                                      ELSE SUBSET (l.pending \cap Buildable)}

\* restartDistributor fails: the list is lost, the old Distributor stays.
RestartFails ==
  /\ loop = "restart"
  /\ ~CanBuild(content[update])
  /\ loop' = "select"
  /\ UNCHANGED <<list, ctxDone, manager, channels, update, initChan, dist, roots, req>>

\* restartDistributor: a new Distributor with its refresher, and an end to the
\* old one's.
Restart ==
  /\ loop = "restart"
  /\ CanBuild(content[update])
  /\ \E C \in ClientSets(content[update]) : clients' = [clients EXCEPT ![update] = C]
  /\ refresher' = [refresher EXCEPT ![update] = "start"]
  /\ cancelled' = cancelled \cup ({dist} \ {Nothing})
  /\ dist' = update
  /\ initChan' = "true"
  /\ loop' = "select"
  /\ UNCHANGED <<list, ctxDone, manager, channels, update, known, full, req>>

-----------------------------------------------------------------------------
(* The refresher of Distributor n: schedule.Every again.                    *)

RefreshCtxDone(n) == ctxDone \/ n \in cancelled

RefresherGoto(n, pc) ==
  /\ refresher' = [refresher EXCEPT ![n] = pc]
  /\ UNCHANGED <<list, ctxDone, manager, channels, proxy, cancelled, clients, req>>

RefresherStart(n) ==
  /\ refresher[n] = "start"
  /\ RefresherGoto(n, IF RefreshCtxDone(n) THEN "ended" ELSE "refresh")
  /\ UNCHANGED <<known, full>>

\* A slip: root data counts as full once any log has answered.
RefreshRootsAnyFull(n) ==
  /\ refresher[n] = "refresh"
  /\ \E S \in SUBSET clients[n] :
       /\ known' = [known EXCEPT ![n] = S]
       /\ full' = [full EXCEPT ![n] = S # {}]
  /\ RefresherGoto(n, "wait")

\* RefreshRoots: logs that answer in time are known afterwards, all others
\* are not, whether they were before or not.
RefreshRoots(n) ==
  /\ refresher[n] = "refresh"
  /\ \E S \in SUBSET clients[n] :
       /\ known' = [known EXCEPT ![n] = S]
       /\ full' = [full EXCEPT ![n] = S = clients[n]]
  /\ RefresherGoto(n, "wait")

RefresherTick(n) ==
  /\ refresher[n] = "wait"
  /\ RefresherGoto(n, "refresh")
  /\ UNCHANGED <<known, full>>

RefresherEnds(n) ==
  /\ refresher[n] = "wait"
  /\ RefreshCtxDone(n)
  /\ RefresherGoto(n, "ended")
  /\ UNCHANGED <<known, full>>

-----------------------------------------------------------------------------
(* AddChain and AddPreChain of Proxy and Distributor.                       *)

ReqGoto(r, state) ==
  /\ req' = [req EXCEPT ![r] = state]
  /\ UNCHANGED <<list, ctxDone, manager, channels, proxy, roots>>

\* Proxy.AddChain: a nil Distributor is an error at once.
AddChain(r, c) ==
  /\ req[r] = Idle
  /\ dist # Nothing
  /\ ReqGoto(r, [pc |-> "call", chain |-> c])

\* p.dist is read once more, without the lock.
CallDistributor(r) ==
  /\ req[r].pc = "call"
  /\ ReqGoto(r, [pc |-> "choose", chain |-> req[r].chain, dist |-> dist])

\* RootCompatible among the temporally compatible usable logs: a log whose
\* roots are not known counts as compatible, but a root that was found and is
\* not a CA leaves no log at all.
Compatible(n, c, rootFound) ==
  {l \in content[n].usable \cap c.fits :
     /\ rootFound => c.root \in CARoots
     /\ l \notin known[n] \/ (rootFound /\ c.root \in Accepts[l])}

\* compatibleLogsAndChain, under the Distributor's lock.  (Empty or unparsable
\* chains are errors that leave no trace.)
Choose(r) ==
  /\ req[r].pc = "choose"
  /\ LET n == req[r].dist
         c == req[r].chain
         rootFound == c.root \in UNION {Accepts[l] : l \in known[n]}
     IN  ReqGoto(r, IF ~rootFound /\ full[n]
                    THEN [pc |-> "refused", chain |-> c, dist |-> n]
                    ELSE [pc |-> "submit", chain |-> c, dist |-> n,
                          logs |-> Compatible(n, c, rootFound)])

\* The rest of addSomeChain: errors of type and policy, or GetSCTs.
Answer(r) ==
  /\ req[r].pc \in {"refused", "submit"}
  /\ ReqGoto(r, Idle)

-----------------------------------------------------------------------------
Publish ==
  /\ source < MaxPublish
  /\ source' = source + 1
  /\ UNCHANGED <<content, ctxDone, manager, channels, proxy, roots, req>>

CancelContext ==
  /\ ~ctxDone
  /\ ctxDone' = TRUE
  /\ UNCHANGED <<list, manager, channels, proxy, roots, req>>

ManagerStep ==
  \/ MgrStart \/ RefreshFails \/ RefreshUnchanged \/ RefreshChanged
  \/ SendUpdate \/ SendError \/ MgrTick \/ MgrEnds

LoopStep == LoopEnds \/ TakeUpdate \/ TakeError \/ RestartFails \/ Restart

RefresherStep(n) ==
  RefresherStart(n) \/ RefreshRoots(n) \/ RefresherTick(n) \/ RefresherEnds(n)

RequestStep(r) ==
  (\E c \in Chains : AddChain(r, c)) \/ CallDistributor(r) \/ Choose(r) \/ Answer(r)

\* After its loop the Proxy may stand still.
Stopped == loop = "ended" /\ UNCHANGED vars

Next ==
  \/ ManagerStep \/ LoopStep
  \/ \E n \in Publication : RefresherStep(n)
  \/ \E r \in Requests : RequestStep(r)
  \/ Publish \/ CancelContext \/ Stopped

Spec == Init /\ [][Next]_vars

\* Goroutines run and tickers tick; the published list can be read in the end;
\* and a select that is reached with the same channel ready again and again
\* chooses it in the end, as Go's select chooses at random.
FairSpec ==
  /\ Spec
  /\ WF_vars(ManagerStep) /\ WF_vars(LoopStep)
  /\ SF_vars(RefreshUnchanged \/ RefreshChanged)
  /\ SF_vars(TakeUpdate) /\ SF_vars(LoopEnds) /\ SF_vars(MgrEnds)
  /\ \A n \in Publication : WF_vars(RefresherStep(n)) /\ SF_vars(RefresherEnds(n))

-----------------------------------------------------------------------------
(* Properties.                                                              *)

\* addSomeChain: whatever root requests failed in the refreshes so far, and
\* however the Distributor was replaced meanwhile, a usable log that accepts
\* the chain's root is among those to be asked, if that root is a CA as
\* RootCompatible expects; a chain under any root is refused for its root
\* only if no log accepts that.
AcceptingLogsTried ==
  \A r \in Requests :
    LET accepting(S) == {l \in S : req[r].chain.root \in Accepts[l]}
    IN  /\ req[r].pc = "submit" /\ req[r].chain.root \in CARoots =>
             accepting(content[req[r].dist].usable \cap req[r].chain.fits) \subseteq req[r].logs
        /\ req[r].pc = "refused" => accepting(content[req[r].dist].usable) = {}

\* restartDistributor: a Distributor is built only from a list newer than that
\* of the current one, though lists wait in the manager, in the channel and in
\* the loop: clients are neither sent back to an older list nor, by a restart
\* for the same one, to a Distributor that knows no roots yet.
NeverOlderList ==
  [][\A n \in Publication :
       refresher[n] # "start" /\ refresher'[n] = "start" => n > dist]_vars

-----------------------------------------------------------------------------
(* The strengthening that makes the safety properties inductive.            *)

\* Lists are in order on their way from the source to the Distributor, and
\* one that is under way is newer than what is in front of it.
OrderInv ==
  /\ lastJSON = latest /\ latest <= source
  /\ llUpdates <= latest /\ update <= latest /\ dist <= update
  /\ llUpdates # Nothing => llUpdates > update
  /\ mgr = "send" => latest > llUpdates /\ latest > update
  /\ loop = "restart" => update > dist

\* A Distributor has a client for each usable log, and its root data are full
\* only if the roots of all its clients are known; requests hold existing ones.
RootsInv ==
  /\ \A n \in Publication :
       /\ refresher[n] = "off" => ~full[n]
       /\ refresher[n] # "off" => n <= dist /\ content[n].usable \subseteq clients[n]
       /\ full[n] => known[n] = clients[n]
  /\ dist # Nothing => refresher[dist] # "off"
  /\ \A r \in Requests :
       /\ req[r].pc = "call" => dist # Nothing
       /\ req[r].pc \in {"choose", "submit", "refused"} => refresher[req[r].dist] # "off"

IInv == TypeOK /\ OrderInv /\ RootsInv /\ AcceptingLogsTried

-----------------------------------------------------------------------------
(* Liveness.                                                                *)

\* The list published last is in use, if it can be used.
FreshListUsed ==
  content[source].parses /\ CanBuild(content[source]) =>
    ctxDone \/ (dist # Nothing /\ content[dist] = content[source])

\* Replaced Distributors, and all those of a cancelled Proxy, have stopped
\* asking logs for their roots; the Proxy's loop has ended when it was
\* cancelled, and whoever waits for Init goes on.
RefreshersEnded ==
  /\ \A n \in Publication : ctxDone \/ n < dist => refresher[n] \in {"off", "ended"}
  /\ ctxDone => loop = "ended" /\ initChan # "open"

\* Proxy.Run and restartDistributor: whatever unreadable, broken or unusable
\* lists came before it, the last usable list gets into use and stays so, and
\* what was started for earlier ones, or for a cancelled Proxy, ends for good.
ProxyConverges == <>[](FreshListUsed /\ RefreshersEnded)

-----------------------------------------------------------------------------
(* What a comment of the source says and the code does not do.              *)

\* Proxy.Run "Terminates upon context cancellation", the manager it has
\* started included.
ManagerEnds == ctxDone ~> mgr = "ended"
=============================================================================
