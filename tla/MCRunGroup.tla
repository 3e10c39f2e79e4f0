----------------------------- MODULE MCRunGroup -----------------------------
(***************************************************************************)
(* Instances of RunGroup: the edge command with its three periodic tasks,  *)
(* and a group with actors of every kind.                                  *)
(***************************************************************************)
EXTENDS RunGroup, TLC

CONSTANTS poller, versionLog, metricsLog, server, api, sigint

=============================================================================
