SPECIFICATION Spec
CONSTANTS
    NPAGES = 30
    E = 2
    PGSIZE = 2
    USERSTACK = 1
    NPROC = 2
    Programs <- MCPrograms
    Amounts <- MCAmounts
    MaxCalls = 3
INVARIANTS PagesExact ReachesOwnMemory
PROPERTIES ForkCopies
