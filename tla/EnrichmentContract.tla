------------------------- MODULE EnrichmentContract -------------------------
(***************************************************************************)
(* What lead enrichment promises, lead by lead, without jobs, queues or    *)
(* keys (src/docs/implementation-plan.md, sections "Idempotency" and       *)
(* "Failure Handling"; src/docs/Tier C Resolution.md, Milestone 18):       *)
(*                                                                         *)
(*   - a submitted lead is worked on at once, and until it has settled;    *)
(*   - it settles as enriched, with geo data, or as failed, without;       *)
(*   - an enriched lead is never touched again, whatever work is still     *)
(*     requested for it;                                                   *)
(*   - a lead that has settled may be taken up again.                      *)
(***************************************************************************)
CONSTANT Leads

VARIABLES
  status,  \* the lead's status, "absent" before and "deleted" after its row
  filled,  \* does the lead have geo data?
  busy     \* is enrichment requested or in progress?

vars == <<status, filled, busy>>

Init ==
  /\ status = [l \in Leads |-> "absent"]
  /\ filled = [l \in Leads |-> FALSE]
  /\ busy = [l \in Leads |-> FALSE]

Submit(l) ==
  /\ status[l] = "absent"
  /\ status' = [status EXCEPT ![l] = "pending"]
  /\ busy' = [busy EXCEPT ![l] = TRUE]
  /\ UNCHANGED filled

Enrich(l) ==
  /\ busy[l]
  /\ status[l] \in {"pending", "failed"}
  /\ status' = [status EXCEPT ![l] = "enriched"]
  /\ filled' = [filled EXCEPT ![l] = TRUE]
  /\ UNCHANGED busy

Fail(l) ==
  /\ busy[l]
  /\ status[l] \in {"pending", "failed"}
  /\ ~filled[l]
  /\ status' = [status EXCEPT ![l] = "failed"]
  /\ UNCHANGED <<filled, busy>>

\* Work ends only once the lead has settled.
Release(l) ==
  /\ busy[l]
  /\ status[l] # "pending"
  /\ busy' = [busy EXCEPT ![l] = FALSE]
  /\ UNCHANGED <<status, filled>>

\* Re-enrichment is meant for failed leads, but the decision rests on a status
\* read earlier: the lead may have been enriched or deleted meanwhile.
ReEnrich(l) ==
  /\ status[l] \in {"failed", "enriched", "deleted"}
  /\ busy' = [busy EXCEPT ![l] = TRUE]
  /\ UNCHANGED <<status, filled>>

Delete(l) ==
  /\ status[l] \in {"pending", "enriched", "failed"}
  /\ status' = [status EXCEPT ![l] = "deleted"]
  /\ filled' = [filled EXCEPT ![l] = FALSE]
  /\ UNCHANGED busy

Settle(l) == status[l] = "pending" /\ (Enrich(l) \/ Fail(l))

Next ==
  \E l \in Leads :
    Submit(l) \/ Enrich(l) \/ Fail(l) \/ Release(l) \/ ReEnrich(l) \/ Delete(l)

\* A pending lead settles, and the work item of a settled lead ends.
Fairness == \A l \in Leads : WF_vars(Settle(l)) /\ WF_vars(Release(l))

Spec == Init /\ [][Next]_vars /\ Fairness

=============================================================================
