CONSTANTS
  p = p
  q = q
  Place <- TwoPlaces
  Edits <- RepaintOnly
  MaxEdits = 1
  MaxRevision = 3
SPECIFICATION SpecFailing
SYMMETRY PlaceSymmetry
INVARIANT CleanMatches
CHECK_DEADLOCK FALSE
