SPECIFICATION Spec
CONSTANTS
    NewContacts = {n1}
    Edits = {e1}
    Contents = {m1, m2}
    Tasks = {t1, t2}
    MaxPages = 2
    MaxVersion = 2
    MaxFaults = 1
SYMMETRY Symmetry
INVARIANT AppliedOnce
INVARIANT ConflictMeansStale
INVARIANT SubmittingAtWork
PROPERTY KeptUntilApplied
