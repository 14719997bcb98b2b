--------------------------- MODULE MCMonitoringJobs ----------------------------
EXTENDS MonitoringJobs
CONSTANTS j1, j2, c1, c2
MCJobs == {j1, j2}
MCConditions == <<c1, c2>>
================================================================================
