CONSTANTS
  p = p
  q = q
  Place <- TwoPlaces
  Edits <- RemoveOnly
  MaxEdits = 1
  MaxRevision = 3
SPECIFICATION Spec
SYMMETRY PlaceSymmetry
PROPERTY RemovalRemembered
CHECK_DEADLOCK FALSE
