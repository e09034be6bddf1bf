SPECIFICATION MCSpec
CONSTANTS
  root = root
  reply = reply
  None = None
  Exited = Exited
  Users = {1, 2, 3}
  Comments = {reply}
  Roots = {root}
  Author <- MCAuthor
  Parent <- MCParent
  Mailable = {1, 2, 3}
  Choosers = {1}
  AdminSets <- MCAdminSets
  Moves = {"gone"}
  Workers = {w1, w2}
  Providers = {telegram}
  Requests = {r1}
  BusCapacity = 1
  MailCapacity = 1
  RecipientLimit = 1
  MaxEvents = 2
  Configs <- MCConfigs
  Jobs = {consumer, cleanup}
  MaxRequests = 1
INVARIANTS OneMailPerEvent  NothingOutlived
PROPERTIES UnsubscribedSilent  StopTerminates JobDeathStops
