---------------------------- MODULE MCScheduler ----------------------------
\* Small instances of Scheduler for TLC.
EXTENDS Scheduler

CONSTANTS f1, f2, s1

=============================================================================
