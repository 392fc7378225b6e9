SPECIFICATION FairSpec
CONSTANTS
 c1 = c1
 c2 = c2
 p0 = p0
 p1 = p1
 None = None
 Command = {c1, c2}
 Shell = {c1}
 Proc = {p0, p1}
 Root = p0
 MaxOutput = 1
 PipeSize = 1
INVARIANTS TypeOK ApprovedBeforeEffect NothingOutlivesRun OneAtATime ReportsAreTrue
PROPERTIES CommandsEnd
