------------------------------ MODULE MCBronze ------------------------------
EXTENDS Bronze
=============================================================================
