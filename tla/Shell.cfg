SPECIFICATION Spec
CONSTANTS
    MAXARGS = 4
    NPROC = 8
    NOFILE = 6
    NFILE = 8
    PIPESIZE = 1
    Writes = 2
    Lines <- MCLines
    Runs <- MCRuns
    Programs <- MCPrograms
    Filters <- MCFilters
    Files <- MCFiles
    MaxLines = 1
INVARIANTS ParsesBack Plumbed ForegroundDone
PROPERTIES CommandsEnd
