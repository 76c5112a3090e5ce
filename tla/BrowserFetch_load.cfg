\* Two callers of one browser, every status and body, and one failure.
SPECIFICATION FairSpec
CONSTANTS
    Client = {c1, c2}
    Pool = 1
    QueueTimeout = 1
    MaxRender = 2
    Overhead = 2
    ClientTimeout = 5
    Attempts = 3
    Methods = {"render_html", "health"}
    Statuses = {200, 400, 401, 500, 502, 503, 504}
    Bodies = {"full", "null", "bad"}
    MaxFaults = 1
INVARIANTS
    TypeOK
    NoSpuriousTimeout
    RendersOnce
    RetriesOnlyRefusals
PROPERTIES
    Terminates
