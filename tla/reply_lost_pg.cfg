SPECIFICATION Spec
CONSTANTS
  MaxComments = 2
  Threads = {t1}
  Users = {u1}
  Requests = {r1, r2}
  MaxReplyDepth = 1
  Dialect = "postgres"
  Commands <- SingleDeleteCommands
  InitialStatuses = {"published"}
SYMMETRY Symmetry
PROPERTY DeletesOnlySelected
CHECK_DEADLOCK FALSE
