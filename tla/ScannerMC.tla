----------------------------- MODULE ScannerMC -----------------------------
(* A log of five entries that differ in type, in how they parse and in what *)
(* matchers look at, scanned with the matchers the flags of scanlog give.   *)
EXTENDS Scanner

Entry(type, leaf, parse, verifies, names, issuer, serial, timestamp) ==
  [type |-> type, leaf |-> leaf, parse |-> parse, verifies |-> verifies, names |-> names, issuer |-> issuer,
   serial |-> serial, timestamp |-> timestamp]

MCLog == <<Entry("x509", TRUE, "ok", TRUE, {"a"}, "CA", 1, 1),
           Entry("precert", TRUE, "nonfatal", FALSE, {"a", "b"}, "CA", 2, 2),
           Entry("x509", TRUE, "fatal", FALSE, {"b"}, "CB", 2, 1),
           Entry("precert", FALSE, "ok", FALSE, {}, "", 0, 0),
           Entry("x509", TRUE, "nonfatal", TRUE, {"b"}, "CB", 2, 2)>>

NoFlags == [parseErrors |-> FALSE, validateErrors |-> FALSE, nonFatal |-> FALSE, issuer |-> "", serial |-> 0,
            timestamp |-> 0, subject |-> "a", precertsOnly |-> FALSE]

Flags == {[NoFlags EXCEPT !.parseErrors = TRUE, !.nonFatal = TRUE, !.serial = 1],
          [NoFlags EXCEPT !.issuer = "CB", !.timestamp = 2],
          [NoFlags EXCEPT !.serial = 2],
          [NoFlags EXCEPT !.timestamp = 2],
          [NoFlags EXCEPT !.precertsOnly = TRUE],
          [NoFlags EXCEPT !.validateErrors = TRUE],
          NoFlags}

Option(m, precertOnly, start, end) ==
  [matcher |-> m, precertOnly |-> precertOnly, startIndex |-> start, endIndex |-> end]

MCOptions == {Option(CreateMatcher(f), f.precertsOnly, 0, 0) : f \in Flags}
               \cup {Option([kind |-> "all"], FALSE, 1, 4), Option([kind |-> "none"], TRUE, 2, 9)}
NilOptions == {Option([kind |-> "nil"], FALSE, 0, 0)}
=============================================================================
