----------------------------- MODULE MCSysUpdate -----------------------------
EXTENDS SysUpdate

CONSTANTS b1, r1
=============================================================================
