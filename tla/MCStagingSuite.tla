-------------------------- MODULE MCStagingSuite --------------------------
EXTENDS StagingSuite

CONSTANTS t1, t2, t3, q1

MCSubBatches == <<<<t1>>, <<t2>>>>
MCPanelAdmin == <<t3>>
MCRequested == <<t1, t3>>
=============================================================================
