SPECIFICATION SystemSpec
CONSTANTS
  MaxInt64 = 3
  Users = {u1, u2}
  Keys = {"k1"}
  Collate <- MCCollate
  Reasons = {"r1"}
  NoAccount = NoAccount
  Requests = {q1, q2}
  Inputs <- BothTypes
  NoKey = NoKey
  NoTx = NoTx
  NoEntry = NoEntry
  MaxRetries = 2
  MaxOpenConns = 2
  MaxFaults = 1
  Readers = {b1}
  Logins = {l1}
  Emails = {e1, e2}
  NoEmail = NoEmail
  NoUser = NoUser
  Forms <- MCForms
SYMMETRY SystemSymmetry
INVARIANTS
  ServiceTypeOK
  BalancesWereCommitted
  StaleOnlyUntilInvalidated
  OnlyMembersAreServed
PROPERTIES
  MembersHaveAccounts
