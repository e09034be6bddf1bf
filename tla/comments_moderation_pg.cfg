SPECIFICATION Spec
CONSTANTS
  MaxComments = 2
  Threads = {t1}
  Users = {u1}
  Requests = {r1, r2}
  MaxReplyDepth = 1
  Dialect = "postgres"
  Commands <- ModerationCommands
  InitialStatuses = {"pending", "published"}
SYMMETRY Symmetry
INVARIANT ModerationConsistent
CHECK_DEADLOCK FALSE
