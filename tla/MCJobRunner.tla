---------------------------- MODULE MCJobRunner ----------------------------
EXTENDS JobRunner, TLC

Timers == Permutations(Timer)
=============================================================================
