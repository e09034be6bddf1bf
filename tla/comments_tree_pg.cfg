SPECIFICATION Spec
CONSTANTS
  MaxComments = 3
  Threads = {t1}
  Users = {u1, u2}
  Requests = {r1, r2}
  MaxReplyDepth = 2
  Dialect = "postgres"
  InitialStatuses = {"published"}
  Commands <- TreeCommands
SYMMETRY Symmetry
INVARIANT TreeIntact
CHECK_DEADLOCK FALSE
