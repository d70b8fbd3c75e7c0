CONSTANTS
    lamp = lamp
    Scenarios <- MCScenarios
    Plan <- MCPlan
    Triggers <- MCTriggers
    BadCron = "bad"
    NoJob = "none"
    Devices <- MCDevices
    NoDevice = NoDevice
    Groups = {1}
    NoGroup = 0
    Runs = {r1, r2}
    MaxFaults = 1
SPECIFICATION Spec

INVARIANT TriggersAreScheduled
CHECK_DEADLOCK FALSE
