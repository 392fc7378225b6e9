SPECIFICATION Spec
CONSTANTS
  Turn = {t1, t2}
  Query = {t1, t2}
  Earlier = {t0}
  MaxMessages = 4
  Capacity = 2
  NoDocument = NoDocument
  Limits <- SmallLimits
INVARIANTS
  TypeOK
  WholeExchanges
  ToldIsTrue
  GateKept
PROPERTIES
  OrderlyShutdown
CHECK_DEADLOCK FALSE
