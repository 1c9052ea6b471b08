--------------------------- MODULE MCDIDExchange ---------------------------
EXTENDS DIDExchange, TLC

Symmetry == Permutations(Handlers)
=============================================================================
