------------------------ MODULE DiagnosticCollector -------------------------
(* hwc-diagnostics/src/collector.rs, called by one thread: a collector is the
   severities of its reports and its limit.  Reports that are deduplicated by
   their context, which nothing in src/ makes, are left out. *)
EXTENDS Naturals, Sequences, SequencesExt, FiniteSets

Collector(maxErrors) == [reports |-> <<>>, maxErrors |-> maxErrors]

Errors(c) == Cardinality({i \in DOMAIN c.reports : c.reports[i] = "error"})
HasErrors(c) == Contains(c.reports, "error")
ShouldStop(c) == Errors(c) >= c.maxErrors

(* At the limit everything is dropped, warnings too. *)
Report(c, severity) ==
    IF ShouldStop(c) THEN c ELSE [c EXCEPT !.reports = Append(@, severity)]
=============================================================================
