---------------------------- MODULE MCApprovals ----------------------------
EXTENDS Approvals
=============================================================================
