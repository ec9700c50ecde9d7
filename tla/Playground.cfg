CONSTANTS
  Model = {m1, m2}
  NoModel = NoModel
  Unread = Unread
  Unreachable = Unreachable
  MaxDecodes = 3
  MaxSwitches = 3
SPECIFICATION FairSpec
INVARIANT
  AtRestTheNewestShows
PROPERTY
  ButtonsComeBack
CHECK_DEADLOCK FALSE
