-------------------------- MODULE MCIssueCredential --------------------------
EXTENDS IssueCredential, TLC

Symmetry == Permutations(Handlers)
=============================================================================
