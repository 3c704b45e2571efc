---------------------------- MODULE MigrillianMC ----------------------------
(* Small instances of Migrillian for TLC.                                   *)
EXTENDS Migrillian

CONSTANTS s1, s2

Opt(start, end, continuous, nocheck, stop) ==
  [StartIndex |-> start, EndIndex |-> end, Continuous |-> continuous,
   NoConsistencyCheck |-> nocheck, StopAfter |-> stop]

\* One-off runs from Trillian's root on and of a part of the log, and a
\* continuous run that is restarted every StopAfter.
AllOptions == {Opt(-1, 0, FALSE, FALSE, FALSE), Opt(1, 2, FALSE, TRUE, FALSE),
               Opt(0, 0, TRUE, FALSE, TRUE)}

\* A continuous run that is never stopped.
Endless == {Opt(0, 0, TRUE, FALSE, FALSE)}
=============================================================================
