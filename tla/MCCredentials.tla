--------------------------- MODULE MCCredentials ---------------------------
EXTENDS Credentials, TLC

MCSymmetry == Permutations(Devices) \cup Permutations(Workers)
=============================================================================
