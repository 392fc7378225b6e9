SPECIFICATION FairSpec
CONSTANTS
 a1 = a1
 a2 = a2
 t1 = t1
 r1 = r1
 f1 = f1
 q1 = q1
 q2 = q2
 i1 = i1
 i2 = i2
 i3 = i3
 i4 = i4
 None = None
 Empty = Empty
 Inode <- Files
 Ingestion = {a1, a2}
 Removal = {}
 Reconciler = {}
 Flusher = {f1}
 Query = {}
 MaxAttempts = 2
 MaxCrashes = 0
PROPERTIES FlushConverges
CHECK_DEADLOCK FALSE
