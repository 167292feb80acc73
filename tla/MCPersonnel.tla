----------------------------- MODULE MCPersonnel -----------------------------
EXTENDS Personnel
=============================================================================
