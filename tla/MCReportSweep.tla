---------------------------- MODULE MCReportSweep ----------------------------
\* ReportSweep for TLC: one schedule with a mail address, one with a webhook only.
EXTENDS ReportSweep, TLC

CONSTANTS r1, r2

MCCron == r1 :> {1, 2} @@ r2 :> {2}
MCHooks == r1 :> {"u1"} @@ r2 :> {"u1"}
\* The mailed schedule has a URL that cannot be parsed.
MCHooksBad == r1 :> {"u1", "bad"} @@ r2 :> {"u1"}
=============================================================================
