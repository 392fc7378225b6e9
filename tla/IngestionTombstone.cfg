SPECIFICATION Spec
CONSTANTS
 d1 = d1
 v1 = v1
 v2 = v2
 r1 = r1
 None = None
 Document <- OneDocument
 Version = {v1}
 DocumentOf <- SameDocument
 Legacy = {}
 Reconciler = {}
 MaxFaults = 1
INVARIANTS RetiredIsInvisible
CHECK_DEADLOCK FALSE
