SPECIFICATION MCSpec
CONSTANTS
  Users = {u1, u2}
  Visitors = {u1}
  Requests = {r1, r2}
  MaxVersion = 2
  Commands <- PrincipalCommands
  People = {b1, b2}
  Passwords = {pw1, pw2}
  NoPassword = nopassword
  ExternalAccounts = {sub}
  Passkeys = {key}
  Nobody = nobody
  Flows = {r1, r2}
  MaxChanges = 1
  MaxTickets = 1
  MaxRows = 2
  Holders = {b1, b2}
  Clicks = {r1, r2}
  MaxRewrites = 2
SYMMETRY AccountsSymmetry
INVARIANTS PrincipalsFresh SessionsEarned
PROPERTIES VersionsGrow MethodRemains ActsAsEarned
CHECK_DEADLOCK FALSE
