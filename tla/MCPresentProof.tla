--------------------------- MODULE MCPresentProof ---------------------------
EXTENDS PresentProof, TLC

Symmetry == Permutations(Handlers)
=============================================================================
