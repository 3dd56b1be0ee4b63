SPECIFICATION FairSpec
CHECK_DEADLOCK FALSE
CONSTANTS
    NumApps = 2
    PageSize = 1
    Release <- Show
    Media <- OneEpisode
    Elsewhere <- SimilarName
    MaxRecords = 2
    AfterImport = TRUE
    Faults = {"api", "rm", "forget"}
INVARIANTS
    NoImportOverlooked
    ConfirmedIsImported
    AnnouncedIsRemoved
PROPERTIES
    ImportIsNoticed
