SPECIFICATION ClientSpec
CONSTANTS
    x = x
    y = y
    Users = {alice}
    Browser = alice
    Uploads = {u1}
    ClientUpload = u1
    Connections = {c1, c2}
    ClientConn = c1
    Contents = {x, y}
    File <- MCFile
    Requests <- MCRequests
    Concurrency = 3
    MaxPart = 4
    MaxFaults = 3
    None = None
    Torn = Torn
INVARIANTS ObjectIsFile DoneMeansStored
PROPERTIES Reclaimed
