----------------------------- MODULE MCAIUsage -----------------------------
(* A small usage log for TLC: three records, of which the cfg says which    *)
(* one the table refuses.                                                   *)
EXTENDS AIUsage
=============================================================================
