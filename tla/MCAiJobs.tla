------------------------------ MODULE MCAiJobs ------------------------------
(* TLC instances of AiJobs.                                                *)
EXTENDS AiJobs, TLC

=============================================================================
