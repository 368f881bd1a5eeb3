SPECIFICATION Spec
CONSTANTS
    Replicas = {r1}
    Ids = {1, 2}
    Base = 2
    Instants = {2, 3}
    BatchSize = 2
    MaxFaults = 0
INVARIANTS EachNewForwarded
