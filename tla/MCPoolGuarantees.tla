-------------------------- MODULE MCPoolGuarantees --------------------------
EXTENDS PoolBalance, TLC

Symmetry == Permutations(Account) \cup Permutations(Job)
=============================================================================
