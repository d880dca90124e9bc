----------------------------- MODULE MCCampaign -----------------------------
(***************************************************************************)
(* A campaign of two cells for the model checker: one whose telemetry is    *)
(* left alone and one with a transport fault.                               *)
(***************************************************************************)
EXTENDS Campaign

MCPlan == <<"none", "late_span">>

=============================================================================
