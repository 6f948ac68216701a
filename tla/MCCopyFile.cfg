SPECIFICATION Spec
CONSTANTS
    MaxVersion = 4
    MaxCalls = 3
    OrphanJournal = FALSE
INVARIANTS
    TypeOK
    CopyIsSourceVersion
PROPERTY
    OnlyRenameShows
CHECK_DEADLOCK FALSE
