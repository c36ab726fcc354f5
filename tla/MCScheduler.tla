----------------------------- MODULE MCScheduler -----------------------------
EXTENDS Scheduler
=============================================================================
