SPECIFICATION Spec
CONSTANTS
    Pids <- MCPids
    Clients = {c1}
    None = None
    c1 = c1
INVARIANTS
    OneController
    Reachable
    LeavesNoFiles
CHECK_DEADLOCK FALSE
PROPERTIES
    StartEnds
