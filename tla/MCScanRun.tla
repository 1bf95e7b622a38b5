----------------------------- MODULE MCScanRun -----------------------------
EXTENDS ScanRun, TLC
=============================================================================
