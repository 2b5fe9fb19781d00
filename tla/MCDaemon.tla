------------------------------- MODULE MCDaemon -------------------------------
\* A small instance of Daemon for TLC.
EXTENDS Daemon, TLC

CONSTANTS p1, p2, addr, crawlers, usual, other

=============================================================================
