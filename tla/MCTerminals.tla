------------------------------ MODULE MCTerminals ------------------------------
\* The instances of Terminals that TLC checks: one terminal of either kind.
EXTENDS Terminals
=============================================================================
