---------------------------- MODULE MCJobIntake ----------------------------
(***************************************************************************)
(* Instances of JobIntake.                                                 *)
(***************************************************************************)
EXTENDS JobIntake
=============================================================================
