SPECIFICATION Spec
CONSTANTS
  Users = {u1, u2}
  Visitors = {}
  Requests = {r1, r2}
  MaxVersion = 1
  Commands <- RestoreCommands
SYMMETRY Symmetry
INVARIANT ActiveAdminRemains
