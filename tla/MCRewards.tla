------------------------------- MODULE MCRewards -------------------------------
EXTENDS Rewards

Symmetry == Permutations(Users) \cup Permutations(Purchases) \cup Permutations(Applications)
===============================================================================
