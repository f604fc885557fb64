SPECIFICATION FairSystemSpec
CONSTANTS
  MaxInt64 = 3
  Users = {u1}
  Keys = {"k1", "k2"}
  Collate <- MCCollate
  Reasons = {"r1"}
  NoAccount = NoAccount
  Requests = {q1, q2}
  Inputs <- OnlyGrants
  NoKey = NoKey
  NoTx = NoTx
  NoEntry = NoEntry
  MaxRetries = 2
  MaxOpenConns = 2
  MaxFaults = 1
  Readers = {b1}
  Logins = {l1}
  Emails = {e1}
  NoEmail = NoEmail
  NoUser = NoUser
  Forms <- MCForms
PROPERTIES
  AllAnswered
  EveryReadEnds
  CacheConverges
  EverySignupEnds
