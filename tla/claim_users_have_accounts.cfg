SPECIFICATION Spec
CONSTANTS
  Signups = {s1, s2}
  Logins = {l1}
  Emails = {e1}
  NoEmail = NoEmail
  Forms <- MCForms
  NoUser = NoUser
  MaxFaults = 1
SYMMETRY SignupSymmetry
PROPERTY
  UsersHaveAccounts
