CONSTANTS
    None = None
    Raised = Raised
    Langs <- MCLangs
    Canon <- MCCanon
    LowerOf <- MCLowerOf
    RootName <- MCRootName
    Catalogue <- MCCatalogue
    Episodes <- MCEpisodes
    OmdbEntries <- MCOmdb
    Ratio <- MCRatio
    Scenes <- MCScenes
    Picks <- MCPicks
    TypedAnchors <- MCTyped
    Queries <- MCQueries
    OwnAnchors <- MCOwn
SPECIFICATION Spec
CHECK_DEADLOCK FALSE
INVARIANTS
    StableLibrary
    EveryVideoOnce
    RightNumbers
    PartsStayApart
    DecisionsSaved
    ReplayShowsChoice
