\* Two goroutines calling AddInstance and GetInstanceLastStats.
CONSTANTS
    Goroutines = {g1, g2}
    Calls <- MCCallsLastStats
    NoG = NoG
SPECIFICATION Spec
INVARIANT NoWaitCycle
