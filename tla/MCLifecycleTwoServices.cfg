SPECIFICATION Spec
CONSTANTS
    Pids <- MCPids
    Clients = {c1}
    None = None
    c1 = c1
INVARIANTS
    OneService
CHECK_DEADLOCK FALSE
