------------------------------ MODULE MCSSERun ------------------------------
(***************************************************************************)
(* Instances of SSERun for TLC.                                            *)
(***************************************************************************)
EXTENDS SSERun
=============================================================================
