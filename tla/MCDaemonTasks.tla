--------------------------- MODULE MCDaemonTasks ---------------------------
EXTENDS DaemonTasks
=============================================================================
