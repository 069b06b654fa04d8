--------------------------- MODULE MCPodDiagnostics ---------------------------
EXTENDS PodDiagnostics

MCLimits == {-1, 0, 2, 3}
===============================================================================
