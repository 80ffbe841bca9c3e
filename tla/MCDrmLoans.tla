----------------------------- MODULE MCDrmLoans -----------------------------
EXTENDS DrmLoans, TLC

Symmetry == Permutations(Crtcs) \cup Permutations(Leases) \cup Permutations(Controls)
=============================================================================
