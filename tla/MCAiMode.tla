---- MODULE MCAiMode ----
(* Two slices; the first has two objects, or one and a line that is hidden *)
(* until the translator reports it.  In some runs the object of the second *)
(* slice is a copy of the first object, across the cut.                    *)
EXTENDS AiMode, TLC
CONSTANTS r1, r2, o1, o2, o3

MCPageOf == (o1 :> 1) @@ (o2 :> 1) @@ (o3 :> 2)

Setup(hidden, copies, twice, once) ==
  [hidden |-> hidden, owner |-> [o \in Object |-> IF o \in copies THEN o1 ELSE None],
   left |-> [op \in Ops |-> IF op \in twice THEN 2 ELSE IF op \in once THEN 1 ELSE 0]]

\* a user who edits, beside a copy and an overlap or on slices of their own; a user who
\* cancels while an error escapes; two requests that race; a cost that is not known
MCSetups == {Setup({o2}, {}, {}, {"request", "edit"}),
             Setup({}, {o3}, {}, {"request", "edit", "overlap"}),
             Setup({o2}, {}, {}, {"request", "cancel", "escape"}),
             Setup({o2}, {o3}, {"request"}, {}),
             Setup({o2}, {}, {}, {"request", "unpriced"})}
====
