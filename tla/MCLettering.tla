---- MODULE MCLettering ----
(* A chapter small enough for TLC. *)
EXTENDS Lettering, TLC
LetteringSymmetry == Permutations(Source) \cup Permutations(Text)
                     \cup Permutations(Renderer) \cup Permutations(Page)
One(busy) == IF busy THEN 1 ELSE 0
\* no more than two pieces of long work at a time
TwoAtWork == One(cleaning # Idle) + One(translator # Idle) + One(export # Idle)
             + Cardinality({r \in Renderer : render[r] # Idle}) <= 2
\* the pages come translated, all but one
MCInit == Init /\ Cardinality({p \in Page : page[p].text = Blank}) = 1
MCSpec == MCInit /\ [][Next]_vars
====
