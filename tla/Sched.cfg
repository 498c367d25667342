SPECIFICATION Spec
CONSTANTS
    NCPU = 2
    NPROC = 2
    Pauses = {2}
    Victims = {2}
    UINT = 3
INVARIANTS OneCpu InterruptsKept DueIsWoken
