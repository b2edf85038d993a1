SPECIFICATION FairSpec
CONSTANTS
  Requests = {r1, r2}
  Domains = {d, e}
  Ids = {1, 2}
  Prefer = {"v6"}
  MaxArrivals = 2
INVARIANTS
  QueriesMatchGroups
  NobodyForgotten
  AnswersOwnDomain
PROPERTY EveryoneAnswered
CHECK_DEADLOCK FALSE
