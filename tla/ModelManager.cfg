CONSTANTS
  Thread = {t1, t2, t3}
  Requests = 1
  Nobody = Nobody
SPECIFICATION FairSpec
INVARIANTS
  UsedEnginesLive
  SelectFindsAnActiveModel
PROPERTIES
  ImplementsActiveModel
  EveryRequestReplied
  ReadersPassLoads
CHECK_DEADLOCK FALSE
