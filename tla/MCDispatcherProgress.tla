------------------------ MODULE MCDispatcherProgress ------------------------
EXTENDS DispatcherProgress, TLC

CONSTANTS m1, m2, w1, w2, t1, t2, t3
=============================================================================
