--------------------------- MODULE TemporalLogMC ---------------------------
(* Two requests, to one shard or to two, or the roots of the shards, with   *)
(* good configurations and each kind of bad one.                            *)
EXTENDS TemporalLog

CONSTANTS r1, r2

Shard(lower, upper) == [lower |-> lower, upper |-> upper]
MCConfigs ==
  {<<Shard(None, 2), Shard(2, 3)>>, <<Shard(1, None)>>,
   <<>>, <<Shard(2, 2)>>, <<Shard(1, 2), Shard(3, None)>>, <<Shard(1, None), Shard(2, 3)>>,
   <<Shard(1, 2), Shard(None, 3)>>, <<Shard(1, 2), Shard(2, 1)>>}

Chn(notAfter, parses, trusted) == [notAfter |-> notAfter, parses |-> parses, trusted |-> trusted]
MCChains == {(r1 :> Chn(2, TRUE, TRUE)) @@ (r2 :> c) :
               c \in {Chn(2, TRUE, TRUE), Chn(1, TRUE, FALSE), Chn(3, TRUE, TRUE), Chn(3, FALSE, TRUE)}}

\* Answers with all of a response, with a member of the wrong type, with only a
\* timestamp, with nothing, and with another log's signature; Retry-After
\* ahead, past and missing.
OK(r, timestamp, sig, clean) ==
  [kind |-> "ok", fields |-> [timestamp |-> timestamp, sig |-> sig], clean |-> clean]
Signed(by, r, timestamp) == [by |-> by, of |-> r, timestamp |-> timestamp]
MCAnswers ==
  [r \in Requests |->
    {OK(r, 1, Signed(1, r, 1), clean) : clean \in BOOLEAN}
      \cup {OK(r, 2, None, TRUE), OK(r, None, None, TRUE), OK(r, 1, Signed(2, r, 1), TRUE)}
      \cup {[kind |-> "unavailable", retryAfter |-> s] : s \in {None, 0 - 1, 2}}
      \cup {[kind |-> k] : k \in {"error", "timeout", "refused"}}]

MCClients == {1, 2}
MCDeadline == [r \in Requests |-> MaxTime]
MCRoots == <<<<"a", "b", "a">>, <<"b", "c">>>>
=============================================================================
