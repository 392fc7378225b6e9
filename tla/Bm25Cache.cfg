SPECIFICATION FairSpec
CONSTANTS
 a1 = a1
 a2 = a2
 t1 = t1
 r1 = r1
 f1 = f1
 q1 = q1
 q2 = q2
 i1 = i1
 i2 = i2
 i3 = i3
 i4 = i4
 None = None
 Empty = Empty
 Inode <- Files
 Ingestion = {a1}
 Removal = {}
 Reconciler = {r1}
 Flusher = {}
 Query = {q1, q2}
 MaxAttempts = 2
 MaxCrashes = 0
INVARIANTS CacheHonest
CHECK_DEADLOCK FALSE
