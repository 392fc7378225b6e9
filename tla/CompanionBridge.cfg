SPECIFICATION FairSpec
CONSTANTS
 s1 = s1
 s2 = s2
 d1 = d1
 d2 = d2
 c1 = c1
 c2 = c2
 None = None
 Session = {s1, s2}
 Command = {c1, c2}
 Device = {d1, d2}
 DeviceOf <- OwnDevice
 MaxPending = 1
INVARIANTS TypeOK NobodyWaitsOnOldConnection ConnectionIsOwned SlotsAreGivenBack
PROPERTIES ResolvedOnce OnlyOwnerDisconnects RevokedIsNotCommanded OrphansEnd
CHECK_DEADLOCK FALSE
