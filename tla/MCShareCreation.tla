-------------------------- MODULE MCShareCreation --------------------------
(* ShareCreation for TLC: three shares, the third not waited for, and two  *)
(* retries.                                                                *)
EXTENDS ShareCreation

MCWaited == {1, 2}
=============================================================================
