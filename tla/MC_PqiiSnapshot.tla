--------------------------- MODULE MC_PqiiSnapshot ---------------------------
EXTENDS PqiiSnapshot
=============================================================================
