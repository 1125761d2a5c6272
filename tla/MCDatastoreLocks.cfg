\* Two goroutines calling every modelled datastore function but
\* GetInstanceLastStats.
CONSTANTS
    Goroutines = {g1, g2}
    Calls <- MCCallsWithoutLastStats
    NoG = NoG
SPECIFICATION Spec
INVARIANT NoWaitCycle
PROPERTY EveryCallReturns
