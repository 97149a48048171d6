----------------------------- MODULE MCLocalAnswer -----------------------------
(* LocalAnswer with a paper of one file version and two generations of it. *)
EXTENDS LocalAnswer

CONSTANT f1
=============================================================================
