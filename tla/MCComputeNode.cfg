SPECIFICATION Spec
CONSTANTS
    VMs = {v1, v2, v3}
    NoVm = NoVm
    Workers = {w1, w2}
    IPs = {1, 2}
    Ports = {1, 2}
    Kinds = {"ssh", "http"}
    Unusual = {"overlap", "given twice", "taken away", "return", "death"}
    MaxDisturbances = 1
SYMMETRY Symmetry
CONSTRAINT OnePortAfterDisturbance
INVARIANTS UniqueIps UniquePorts ExhaustionIsReal
PROPERTIES UndisturbedCallHeals PortsAreKept
