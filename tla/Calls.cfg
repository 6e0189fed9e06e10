SPECIFICATION FairSpec
CONSTANTS
    s1 = s1
    s2 = s2
    w1 = w1
    w2 = w2
    r1 = r1
    r2 = r2
    Sockets = {s1, s2}
    OwnerOf <- MCOwnerOf
    WorkerOf <- MCWorkerOf
    Workers = {w1, w2}
    Requests = {r1, r2}
    Asked = {"connected", "rejected", "cancelled"}
INVARIANTS
    StampsMatch
PROPERTIES
    EveryDeviceHears
    NobodyRingsForever
CHECK_DEADLOCK FALSE
