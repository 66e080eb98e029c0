------------------------------- MODULE MC_Server -------------------------------
EXTENDS Server, TLC

CONSTANTS a1, a2

MCAddrs == {a1, a2}

MCSymmetry == Permutations(MCAddrs)

=============================================================================
