CONSTANTS
  p = p
  q = q
  Place <- TwoPlaces
  Edits <- EditKinds
  MaxEdits = 2
  MaxRevision = 3
SPECIFICATION EditsSpec
SYMMETRY PlaceSymmetry
INVARIANTS PageOK ImagesMatch
PROPERTY DecisionsKept
CHECK_DEADLOCK FALSE
