----------------------------- MODULE MCGateway -----------------------------
(* Instances of Gateway for TLC. *)
EXTENDS Gateway

MCMethods == {"call_tool", "ping", "malformed"}
=============================================================================
