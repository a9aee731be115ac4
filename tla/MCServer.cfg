SPECIFICATION Spec
CONSTANTS
    Connections = {c1, c2, c3}
    Writers = {c1}
    MaxConnections = 2
    BufferSize = 3
    MaxUnits = 2
    None = None
    c1 = c1
    c2 = c2
    c3 = c3
INVARIANTS
    AnsweredOnce
PROPERTIES
    MessagesAreHandled
    NobodyQueuesForEver
    RefusesOnlyWhenFull
CHECK_DEADLOCK FALSE
