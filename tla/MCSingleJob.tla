---------------------------- MODULE MCSingleJob ----------------------------
(***************************************************************************)
(* Instances of SingleJob.                                                 *)
(***************************************************************************)
EXTENDS SingleJob
=============================================================================
