--------------------------- MODULE MCPageEditing ---------------------------
(* Small instances of PageEditing for TLC: two places on the page, so that *)
(* a stroke, a region or a box may cover a part of what another covers.    *)
EXTENDS PageEditing, TLC

CONSTANTS p, q

TwoPlaces == {p, q}
RestoreOnly == {"restore"}
RepaintOnly == {"repaint"}
RemoveOnly == {"remove"}

PlaceSymmetry == Permutations(Place)
=============================================================================
