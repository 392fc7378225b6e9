SPECIFICATION Spec
CONSTANTS
 d1 = d1
 v1 = v1
 v2 = v2
 r1 = r1
 None = None
 Document <- OneDocument
 Version <- TwoUploads
 DocumentOf <- SameDocument
 Legacy = {}
 Reconciler = {}
 MaxFaults = 0
INVARIANTS ActivationsMatchLedger
SYMMETRY Uploads
CHECK_DEADLOCK FALSE
