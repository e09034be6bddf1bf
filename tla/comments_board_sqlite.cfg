SPECIFICATION Spec
CONSTANTS
  MaxComments = 3
  Threads = {t1}
  Users = {u1, u2}
  Requests = {r1, r2}
  MaxReplyDepth = 2
  Dialect = "sqlite"
  InitialStatuses = {"published"}
  Commands <- BoardCommands
SYMMETRY Symmetry
INVARIANT DeletedAuthorsSilent
PROPERTY ImplementsBoard
CHECK_DEADLOCK FALSE
