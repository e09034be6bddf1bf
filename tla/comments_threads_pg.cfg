SPECIFICATION Spec
CONSTANTS
  MaxComments = 2
  Threads = {t1}
  Users = {u1}
  Requests = {r1, r2}
  MaxReplyDepth = 2
  Dialect = "postgres"
  Commands <- ThreadCommands
  InitialStatuses = {"published"}
SYMMETRY Symmetry
PROPERTY EntersOpenThread RepliesToPublished ImplementsBoard
CHECK_DEADLOCK FALSE
