SPECIFICATION Spec
CONSTANTS
    NoteAgents = {0, 1}
    NoteThreads = {1, 2}
    NoteTexts = {"a"}
    MaxNotes = 2
    MaxNoteClock = 1
    PolicyAgents = {1, 2}
    Candidates = {"c"}
    MaxPolicyVersion = 2
    MaxPolicyFaults = 1
    ForkItems = 2
    Forkers = {1, 2}
    KeepLast = 1
    Trigger = 2
    MaxTurnsMade = 6
    KeyPrefixes = {1, 2}
    KeyRests = {1, 2}
    MaxKVWrites = 6
    Sweeps = {1, 2}
    MaxConvRows = 2
    ConvScripts = {1}
    MaxConvFaults = 1
    TokenLives = {2, 4}
    Leases = {1, 3}
    MaxUpsets = 1
    Stores = {1, 2}
    SpecCount = 2
    MaxDdlRetries = 1
    MaxProvisionFaults = 1
    Callers = {1, 2}
    Mixes = {{"upload", "directory"}, {"reports"}, {"items", "list"}, {"update", "read", "close"}}
    FolderDepth = 2
    MaxClientCalls = 2
    MaxGraphFaults = 1
INVARIANTS
    NotesKeptUnlessRaced
    InstructionsSurvive
    BranchIsWhole
    SummaryIsOfThread
    ReadsFindTheRows
    RowsAreAccountedFor
    ErrandsAreServed
    OpenedIsProvisioned
    TransportHolds
CHECK_DEADLOCK FALSE
