---------------------------- MODULE MCCredentials ----------------------------
(* An instance of Credentials for TLC. *)
EXTENDS Credentials

CONSTANTS s1, s2
=============================================================================
