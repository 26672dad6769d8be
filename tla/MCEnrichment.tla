---------------------------- MODULE MCEnrichment ----------------------------
(* TLC instances of Enrichment.                                            *)
EXTENDS Enrichment, TLC

\* Job ids are interchangeable, and so are API calls.  Used by the runs that
\* check safety only.
Symmetry == Permutations(Jobs) \cup Permutations(Requests)

=============================================================================
