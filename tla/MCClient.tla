----------------------------- MODULE MCClient -----------------------------
EXTENDS Client
=============================================================================
