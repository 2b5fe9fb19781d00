------------------------------ MODULE MCOutbox ------------------------------
\* Small instances of Outbox for TLC: two attempts (the code's default is five),
\* the second after two ticks.
EXTENDS Outbox

CONSTANTS r1, r2, s1

=============================================================================
