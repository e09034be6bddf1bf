SPECIFICATION Spec
CONSTANTS
  MaxComments = 2
  Threads = {t1}
  Users = {u1}
  Requests = {r1, r2}
  MaxReplyDepth = 1
  Dialect = "postgres"
  InitialStatuses = {"pending", "published"}
  Commands <- BatchCommands
SYMMETRY Symmetry
PROPERTY DeletionRemembersStatus PinsPublished
CHECK_DEADLOCK FALSE
