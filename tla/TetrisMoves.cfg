CONSTANTS
  Loop = {l1, l2, l3}
  NoLoop = NoLoop
  PathLength = 2
SPECIFICATION Spec
PROPERTY
  PlacedAsChosen
