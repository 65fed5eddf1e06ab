----------------------------- MODULE MCControls -----------------------------
EXTENDS Controls, TLC

MCSymmetry == Permutations(Targets) \cup Permutations(Clients) \cup Permutations(Endpoints)
=============================================================================
