SPECIFICATION Spec
CONSTANTS
    reader = reader
    other = other
    Clients = {reader, other}
    windowMs = 2
    max = 1
    maxClients = 1
    Ids = {1, 2, 3}
    BookKeys <- OneMore
    Times = {1, 2}
    Blocks = {1, 2}
    PageLimits = {2}
    Reader = reader
INVARIANTS BurstsAreBounded RefusalsAreEarned SteadyRowsOnce
