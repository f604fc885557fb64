SPECIFICATION Spec
CONSTANTS
  MaxInt64 = 3
  Users = {u1}
  Keys = {"a"}
  Collate <- MCCollate
  Reasons = {"r1"}
  NoAccount = NoAccount
  Requests = {q1, q2}
  Inputs <- FewInputs
  NoKey = NoKey
  NoTx = NoTx
  NoEntry = NoEntry
  MaxRetries = 3
  MaxOpenConns = 2
  MaxFaults = 0
SYMMETRY RequestSymmetry
PROPERTY
  DuplicateIsReplayed
