----------------------------- MODULE MCDeployment ----------------------------
(* An instance of Deployment for TLC: the three services of SERVICES.       *)
EXTENDS Deployment
CONSTANTS orchestrator, gateway, renderer
=============================================================================
