SPECIFICATION FairSpec
CONSTANTS
  PerMs = 3
  Limits <- MCLimits
  DefaultLimit = 1
  MaxLimit = 2
  NoCursor = NoCursor
  MaxBookings = 6
  MaxMs = 2
INVARIANTS
  TypeOK
  DamageIsLocal
  OnlyCursorsAreMissed
PROPERTIES
  CursorsDescend
  PagingEnds
