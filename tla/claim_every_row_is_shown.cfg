SPECIFICATION Spec
CONSTANTS
  PerMs = 2
  Limits <- MCLimits
  DefaultLimit = 1
  MaxLimit = 2
  NoCursor = NoCursor
  MaxBookings = 3
  MaxMs = 1
INVARIANT
  EveryRowIsShown
