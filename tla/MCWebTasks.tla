----------------------------- MODULE MCWebTasks -----------------------------
EXTENDS WebTasks

CONSTANTS t1, t2, h1
=============================================================================
