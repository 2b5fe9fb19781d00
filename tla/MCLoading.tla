------------------------------ MODULE MCLoading ------------------------------
\* A small instance of Loading for TLC.
EXTENDS Loading

CONSTANTS addr, crawlers, usual, other

=============================================================================
