------------------------------ MODULE MCAuthStore ------------------------------
\* Small instances of AuthStore for TLC.
EXTENDS AuthStore, TLC

Symmetry ==
  UNION {Permutations(S) : S \in {Sessions, Accounts, Characters, Requests}}

=============================================================================
