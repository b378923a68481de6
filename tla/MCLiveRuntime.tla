---------------------------- MODULE MCLiveRuntime ----------------------------
EXTENDS LiveRuntime
CONSTANTS c1
=============================================================================
