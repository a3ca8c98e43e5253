SPECIFICATION Spec
CONSTANTS
    Contacts = {c1, c2}
    Searches = {s1, s2}
    Drafts = {x1, x2}
    MaxAge = 1
    MaxSearches = 1
    MaxContacts = 1
    MaxDrafts = 1
    MaxTime = 2
    MaxFaults = 1
    MaxKills = 1
SYMMETRY Symmetry
INVARIANT PagesComplete
INVARIANT JustStoredStays
INVARIANT PurgedGone
PROPERTY DraftsKept
