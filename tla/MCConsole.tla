------------------------------ MODULE MCConsole ------------------------------
\* Two clients: one with a heartbeat thread beside its main thread, one without.
EXTENDS Console, TLC

CONSTANTS beating, single

MCClient == {beating, single}
=============================================================================
