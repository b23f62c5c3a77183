SPECIFICATION Spec
CONSTANTS
    Chunks <- MCChunks
    CorpusLength = 3
    ItemOverhead = 1
    ChunkLimits = {2}
    TokenLimits = {0, 3, 5}
    OutputShapes <- MCOutputs
    OutputCount = 2
    Programs <- MCPrograms
    FileCount = 2
    Troubles <- MCTroubles
    MaxRows = 9
    MaxSlices = 4
    ColumnBounds = {0, 3, 7}
    SourceTexts <- MCTexts
    UnitLists <- MCUnits
    ShortLists <- MCShort
    MaxWords = 5
    OverlapWords = 2
    XrefNames = {"a", "b", "c", "A", "x", "y", "z"}
    XrefRows <- MCRows
    XrefUses <- MCUses
    Deployments <- MCDeployments
    SharePointSites <- MCSites
    Clusters <- MCClusters
    FileCorpora <- MCFileCorpora
    Graphs <- MCGraphs
    IdLists <- MCIdLists
    ScoredItems <- MCScored
    ScaleEnds <- MCScale
    ProfileSets <- MCProfiles
    SettingSites <- MCSettingSites
    ClientSites <- MCClientSites
    IdentitySites <- MCIdentitySites
    PathSites <- MCPathSites
    FolderSites <- MCFolderSites
    RequestSites <- MCRequestSites
    WorkspaceSites <- MCWorkspaces
    MacroVars = {"x", "y"}
    Macros = {"m"}
    MacroPrograms <- MCMacroPrograms
    LibraryPrograms <- MCLibraryPrograms
    PlacePrograms <- MCPlacePrograms
    OdsPrograms <- MCOdsPrograms
    Whole = 360
    JudgedRuns <- MCJudged
    DirectRuns <- MCDirect
    CodeRuns <- MCCode
    Matches <- MCMatches
    Leaks <- MCLeaks
    Stored <- MCStored
    Threads <- MCThreads
    Suites <- MCSuites
    Histories <- MCHistories
    InstructionSets <- MCInstructionSets
    Selections <- MCSelections
    Documents <- MCDocuments
INVARIANTS
    BatchesAreSound
    NotebooksAreWhole
    HydrationIsExact
    SourceReachesChunks
    PathsAreMovedAlike
    ReportsAreEarned
    
    SizesAreEarned
    ReferencesHold
    ScoresAreEarned
    GuidanceIsEarned
CHECK_DEADLOCK FALSE
