SPECIFICATION Spec
CONSTANTS
  MaxInt64 = 3
  Users = {u1}
  Keys = {"k1", "k2"}
  Collate <- MCCollate
  Reasons = {"r1"}
  NoAccount = NoAccount
  Requests = {q1, q2}
  Inputs <- LargeGrants
  NoKey = NoKey
  NoTx = NoTx
  NoEntry = NoEntry
  MaxRetries = 3
  MaxOpenConns = 2
  MaxFaults = 0
SYMMETRY RequestSymmetry
PROPERTY
  GrantRaisesBalance
