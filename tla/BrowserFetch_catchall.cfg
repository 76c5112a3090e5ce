\* A service that answers as its contract says, and dies once.
SPECIFICATION Spec
CONSTANTS
    Client = {c1}
    Pool = 1
    QueueTimeout = 1
    MaxRender = 2
    Overhead = 1
    ClientTimeout = 4
    Attempts = 3
    Methods = {"render"}
    Statuses = {200, 503, 504}
    Bodies = {"full"}
    MaxFaults = 1
INVARIANTS
    CatchAll
