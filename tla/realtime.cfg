SPECIFICATION Spec
CONSTANTS
    s1 = s1
    s2 = s2
    s3 = s3
    home = home
    away = away
    Sockets = {s1, s2, s3}
    NoSocket = NoSocket
    Ips = {home, away}
    IpOf <- MCIpOf
    Channels = {"trades", "maker"}
    Queries = {"trades", "maker"}
    Reads <- MCReads
    Messages <- MCMessages
    Slow = {s3}
    Changes <- MCChanges
    MaxTasks = 3
    maxConnections = 2
    maxConnectionsPerIp = 1
    maxChannelsPerMessage = 2
    maxChannelsPerSocket = 2
    MaxChanges = 1
    MaxFailures = 1
INVARIANTS TypeOK UpdatesReachEveryone ConnectionsAreCounted
PROPERTIES NumbersIncrease
SYMMETRY Symmetry
CHECK_DEADLOCK FALSE
