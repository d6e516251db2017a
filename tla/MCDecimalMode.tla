----------------------------- MODULE MCDecimalMode -----------------------------
EXTENDS DecimalMode, TLC
Symmetry == Permutations(Clients) \cup Permutations(Contexts)
=============================================================================
