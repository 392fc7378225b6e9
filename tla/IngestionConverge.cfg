SPECIFICATION FairSpecFromEither
CONSTANTS
 d1 = d1
 v1 = v1
 v2 = v2
 r1 = r1
 None = None
 Document <- OneDocument
 Version <- TwoUploads
 DocumentOf <- SameDocument
 Legacy <- OneDocument
 Reconciler = {r1}
 MaxFaults = 1
INVARIANTS RetiredUnlessFaults
PROPERTIES AttemptLifecycle SearchConverges AttemptsRepaired
CHECK_DEADLOCK FALSE
