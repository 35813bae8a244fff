---------------------------- MODULE MCScheduler ----------------------------
EXTENDS Scheduler, TLC

Timers == Permutations(Timer)
=============================================================================
