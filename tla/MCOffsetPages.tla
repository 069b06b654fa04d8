---------------------------- MODULE MCOffsetPages ----------------------------
EXTENDS OffsetPages

MCLimits == {-1, 0, 1, 3}
===============================================================================
