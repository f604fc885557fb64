SPECIFICATION AchievementSpec
CONSTANTS
  Signups = {s1, s2}
  Logins = {l1}
  Emails = {e1, e2}
  NoEmail = NoEmail
  NoUser = NoUser
  Forms <- MCForms
  MaxFaults = 1
  Reports = {c1}
  MaxSends = 3
SYMMETRY AchievementSymmetry
INVARIANTS
  OneUserPerEmail
  CreatedIsComplete
  RefusedLeavesNothing
  OneWinner
  AchievementTypeOK
  AnswersAreTrue
  DuplicatesAreTheClients
PROPERTY
  ImplementsAddressBook
