------------------------------ MODULE MCServe ------------------------------
(***************************************************************************)
(* Batches for the model checker: one representative of each class of       *)
(* deterministic findings that verdictFor tells apart.                      *)
(***************************************************************************)
EXTENDS Serve, TLC

Clean == {}
Forbidden == {Violation("policy", "critical")}
Looping == {Violation("loop", "warning")}
Gap == {EvidenceGap}
ForbiddenGap == Forbidden \cup Gap

MCClean == {Clean}
MCBatches == {Clean, Looping, Gap, ForbiddenGap}
MCSymmetry == Permutations(Traces) \cup Permutations(Requests)

=============================================================================
