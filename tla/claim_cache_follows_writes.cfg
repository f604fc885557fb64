SPECIFICATION ServiceSpec
CONSTANTS
  MaxInt64 = 3
  Users = {u1}
  Keys = {"k1"}
  Collate <- MCCollate
  Reasons = {"r1"}
  NoAccount = NoAccount
  Requests = {q1}
  Inputs <- OnlyGrants
  NoKey = NoKey
  NoTx = NoTx
  NoEntry = NoEntry
  MaxRetries = 3
  MaxOpenConns = 2
  MaxFaults = 0
  Readers = {b1, b2}
INVARIANT
  CacheFollowsWrites
