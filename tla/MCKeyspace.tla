---------------------------- MODULE MCKeyspace ----------------------------
EXTENDS Keyspace, TLC

CONSTANTS c1, c2, s1

Symmetry == Permutations(Claim)
=============================================================================
