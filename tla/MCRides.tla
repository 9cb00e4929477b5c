------------------------------ MODULE MCRides ------------------------------
EXTENDS Rides, TLC

Symmetry == Permutations(Partners) \cup Permutations(Handlers)
=============================================================================
