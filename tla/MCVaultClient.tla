--------------------------- MODULE MCVaultClient ---------------------------
EXTENDS VaultClient

CONSTANTS w1, w2

MCWorkers == {w1, w2}
=============================================================================
