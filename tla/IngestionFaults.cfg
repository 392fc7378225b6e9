SPECIFICATION Spec
CONSTANTS
 d1 = d1
 v1 = v1
 v2 = v2
 r1 = r1
 None = None
 Document <- OneDocument
 Version <- TwoUploads
 DocumentOf <- SameDocument
 Legacy = {}
 Reconciler = {}
 MaxFaults = 1
INVARIANTS TypeOK PointerCoherent ActiveIsComplete OnlyPublishedVisible VerdictMatchesVersion ArtifactsKept
PROPERTIES OpenOnlyAfterConflict VersionLifecycle Refinement
SYMMETRY Uploads
CHECK_DEADLOCK FALSE
