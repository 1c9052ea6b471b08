\* Two goroutines, a batch limit in the middle of a batch, four failures or restarts.
CONSTANTS
    Keys = {k1, k2}
    Values = {v1, v2}
    Absent = Absent
    BatchSizeLimit = 2
    Clients = {c1, c2}
    MaxWrites = 3
    MaxReads = 1
    MaxTroubles = 4
SPECIFICATION Spec
\* The goroutines stop when they have used up their calls.
CHECK_DEADLOCK FALSE
INVARIANT TypeOK
INVARIANT OneDocumentPerKey
INVARIANT ReadsAreCurrent
INVARIANT CacheIsRight
PROPERTY ImplementsKeyValue
SYMMETRY Symmetry
