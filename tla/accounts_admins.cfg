SPECIFICATION MCSpec
CONSTANTS
  Users = {u1, u2, u3}
  Visitors = {}
  Requests = {r1, r2}
  MaxVersion = 1
  Commands <- RemovalCommands
  Processes = {q1, q2}
  SetupCalls = {r1, r2}
  SetupEmails = {e1, e2}
  MaxTokens = 3
  SetupTTL = 0
  SetupMaxTime = 1
SYMMETRY Symmetry
INVARIANTS ActiveAdminRemains FirstAdminOnce
CHECK_DEADLOCK FALSE
