------------------------------- MODULE MCPool -------------------------------
(* Small instances of Pool for TLC.                                        *)
EXTENDS Pool, TLC

\* Buckets, sub_ids and callers are only compared for equality.
Symmetry == Permutations(Buckets) \cup Permutations(SubIds) \cup Permutations(Callers)
=============================================================================
