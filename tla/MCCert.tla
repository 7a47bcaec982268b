------------------------------- MODULE MCCert -------------------------------
(* Instance of Cert for TLC: two nodes share the files. *)
EXTENDS Cert
=============================================================================
