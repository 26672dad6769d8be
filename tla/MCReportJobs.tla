---------------------------- MODULE MCReportJobs ----------------------------
(* TLC instances of ReportJobs.                                            *)
EXTENDS ReportJobs

=============================================================================
