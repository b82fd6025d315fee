CONSTANTS
  p = p
  q = q
  Place <- TwoPlaces
  Edits <- RestoreOnly
  MaxEdits = 1
  MaxRevision = 3
SPECIFICATION Spec
SYMMETRY PlaceSymmetry
INVARIANT RestoreKept
CHECK_DEADLOCK FALSE
