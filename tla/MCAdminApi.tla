------------------------------- MODULE MCAdminApi -------------------------------
\* Small instances of AdminApi for TLC.
EXTENDS AdminApi, TLC

Symmetry == Permutations(Requests)

\* The endpoints that switch maps, and one of the others.
Switching == {"block", "control", "activate", "deactivate", "restart"}

OneReader == {{"readonly"}}

=============================================================================
