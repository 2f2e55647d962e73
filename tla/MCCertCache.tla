---------------------------- MODULE MCCertCache ----------------------------
(***************************************************************************)
(* CertCache for TLC: the constants are given in the configurations.       *)
(***************************************************************************)
EXTENDS CertCache
=============================================================================
