------------------------------ MODULE MCBucket ------------------------------
(* Small instances of Bucket for TLC; no run of it is symmetric, since the  *)
(* main one checks liveness.                                                *)
EXTENDS Bucket
=============================================================================
