SPECIFICATION FairSpec
CONSTANTS
 a1 = a1
 a2 = a2
 t1 = t1
 r1 = r1
 f1 = f1
 q1 = q1
 q2 = q2
 i1 = i1
 i2 = i2
 i3 = i3
 i4 = i4
 None = None
 Empty = Empty
 Inode <- Files
 Ingestion = {a1}
 Removal = {}
 Reconciler = {r1}
 Flusher = {f1}
 Query = {q1}
 MaxAttempts = 2
 MaxCrashes = 1
INVARIANTS TypeOK CacheHonest RecentMeansSaved RestingComplete
PROPERTIES ReconciledIsUpToDate
CHECK_DEADLOCK FALSE
