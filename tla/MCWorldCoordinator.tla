-------------------------- MODULE MCWorldCoordinator --------------------------
\* Small instances of WorldCoordinator for TLC.
EXTENDS WorldCoordinator, TLC

Symmetry == Permutations(Sessions) \cup Permutations(Channels)

=============================================================================
