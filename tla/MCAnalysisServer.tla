-------------------------- MODULE MCAnalysisServer --------------------------
(* An instance of AnalysisServer: two sessions and a REST call. *)
EXTENDS AnalysisServer

CONSTANTS c1, c2, r1

MCClients  == {c1, c2}
MCLeavers  == {c1}
MCRequests == {r1}
=============================================================================
