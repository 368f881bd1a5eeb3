SPECIFICATION Spec
CONSTANTS
    Replicas = {r1, r2}
    Ids = {1, 2, 3}
    Base = 2
    Instants = {1, 2, 3, 4}
    BatchSize = 2
    MaxFaults = 2
INVARIANTS TypeOK NoReplay OwedForwarded
PROPERTIES Delivered
