------------------------------ MODULE MCCasGc ------------------------------
(* Instances of CasGc for TLC.                                              *)
EXTENDS CasGc
=============================================================================
