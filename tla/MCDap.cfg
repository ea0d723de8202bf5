SPECIFICATION FairSpec
CONSTANTS
  Resumes = {r1, r2}
  Queries = {}
  Launches = {l1}
  Attaches = {a1}
  Configurations = {c1}
  Disconnects = {d1}
INVARIANTS
  TypeOK
  EventsInOrder
PROPERTIES
  RequestsAnswered
  EventsReachTheClient
CHECK_DEADLOCK FALSE
