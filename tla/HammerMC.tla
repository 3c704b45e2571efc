------------------------------ MODULE HammerMC ------------------------------
(* Configurations of the hammer, each with bounds that leave room for what  *)
(* it is about: lost requests, retries, a mirror that others fill, chains   *)
(* added in parallel, and chains of a leaf and its root.                    *)
EXTENDS Hammer

Config == [ignoreErrors |-> FALSE, oversized |-> FALSE, strict |-> FALSE, mirror |-> FALSE, parallel |-> 1,
           bias |-> Entrypoints, operations |-> 4, direct |-> FALSE, maxFaults |-> 0, maxForeign |-> 0]

MCConfigs ==
  {[Config EXCEPT !.maxFaults = 1],
   [Config EXCEPT !.ignoreErrors = TRUE, !.oversized = TRUE, !.strict = TRUE, !.maxFaults = 1,
                  !.bias = Entrypoints \ {"add-pre-chain"}],
   [Config EXCEPT !.mirror = TRUE, !.oversized = TRUE, !.strict = TRUE, !.maxForeign = 2],
   [Config EXCEPT !.parallel = 2, !.operations = 3, !.bias = {"add-chain", "get-sth", "get-proof-by-hash"}],
   [Config EXCEPT !.direct = TRUE, !.maxFaults = 1, !.bias = {"add-chain", "get-sth", "get-proof-by-hash"}]}
=============================================================================
