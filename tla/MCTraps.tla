------------------------------ MODULE MCTraps ------------------------------
EXTENDS TrapProperties, TLC

CONSTANTS main, idle, w1, w2

TrapWorkers == {w1, w2}
=============================================================================
