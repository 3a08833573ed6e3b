-------------------------- MODULE MCReportScheduler --------------------------
(* Small instances of ReportScheduler.  Jobs are numbers: their order is the *)
(* order of the batch.                                                       *)
EXTENDS ReportScheduler

CONSTANT r1

OneJob == {1}
TwoJobs == {1, 2}
OneRequest == {r1}
MCPeriods == {0, 1}
NoCron == {0}
=============================================================================
