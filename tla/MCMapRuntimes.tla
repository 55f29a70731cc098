----------------------------- MODULE MCMapRuntimes -----------------------------
\* Small instances of MapRuntimes for TLC.
EXTENDS MapRuntimes, TLC

Symmetry == Permutations(Channels) \cup Permutations(Handlers)

=============================================================================
