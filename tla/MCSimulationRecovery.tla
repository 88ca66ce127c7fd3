------------------------ MODULE MCSimulationRecovery ------------------------
EXTENDS SimulationRecovery, TLC

\* Sessions and generations are only compared for equality.
Symmetry == Permutations(Sessions) \cup Permutations(Generations)
=============================================================================
