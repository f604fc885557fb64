SPECIFICATION Spec
CONSTANTS
  MaxInt64 = 3
  Users = {u1}
  Keys = {"a", "A", "b"}
  Collate <- MCCollate
  Reasons = {"r1"}
  NoAccount = NoAccount
  Requests = {q1, q2, q3}
  Inputs <- MixedInputs
  NoKey = NoKey
  NoTx = NoTx
  NoEntry = NoEntry
  MaxRetries = 2
  MaxOpenConns = 3
  MaxFaults = 1
SYMMETRY RequestSymmetry
INVARIANTS
  TypeOK
  IInv
  ConflictNeedsCommits
  UniqueKeys
  VersionCountsRows
  BalanceIsNet
  CirclesAreBroken
  OkMeansBooked
  RefusedMeansUnbooked
  ShownIsCommitted
  RefusalJustified
PROPERTIES
  NoOverdraft
  ImplementsLedger
