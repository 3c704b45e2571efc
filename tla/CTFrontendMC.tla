---------------------------- MODULE CTFrontendMC ----------------------------
(* A behaviour is one of the endpoints with state, in CTFrontend, or one of *)
(* the read-only ones, in LogReads, while CTFrontend stands still.          *)
EXTENDS CTFrontend, LogReads

VARIABLE part

MCInit ==
  /\ Init
  /\ \/ part = "front end" /\ align = TRUE /\ byRange = TRUE /\ answer = NoRequest
     \/ part = "reads" /\ mode = "log" /\ ReadInit

MCNext ==
  \/ part = "front end" /\ Next /\ UNCHANGED <<part, readVars>>
  \/ part = "reads" /\ ReadNext /\ UNCHANGED <<part, vars>>

MCSpec == MCInit /\ [][MCNext]_<<part, readVars, vars>> /\ WF_vars(Sequence /\ UNCHANGED <<part, readVars>>)
=============================================================================
