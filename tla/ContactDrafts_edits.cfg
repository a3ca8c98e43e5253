SPECIFICATION Spec
CONSTANTS
    NewContacts = {n1}
    Edits = {}
    Contents = {m1, m2}
    Tasks = {t1}
    MaxPages = 2
    MaxVersion = 1
    MaxFaults = 0
INVARIANT EditsKept
