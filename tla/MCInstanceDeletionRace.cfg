\* A REST delete and a fatal start failure (or two REST deletes) of one
\* Pending instance, with a store that does not fail.
CONSTANTS
    g1 = g1
    g2 = g2
    Callers = {g1, g2}
    StoreMayFail = FALSE
SYMMETRY CallerSymmetry
SPECIFICATION Spec
INVARIANT DeleteReadsLiveInstance
