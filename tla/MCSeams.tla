------------------------------ MODULE MCSeams ------------------------------
(* Small images for TLC, in units of about 256 rows: the real parameters are *)
(* 4096, 800, 2400, 360 and 768 rows.                                        *)
EXTENDS Seams

CONSTANTS Heights, MaxTextHeight

\* A text, or two that do not overlap and are no farther apart than the context of a slice is
\* high: lines are joined, and regions dropped, only when they touch.
Texts(h) == {t \in [y1 : 0 .. h - 1, y2 : 1 .. h] : Height(t) \in 1 .. MaxTextHeight}
Layouts(h) ==
  LET texts == Texts(h)
  IN  {{p[1], p[2]} : p \in {q \in texts \X texts :
         q[1] = q[2] \/ q[2].y1 \in q[1].y2 .. q[1].y2 + OverlapContext}}

\* On a plain background, where a safe cut can be found, or on art, where none is.
Image(h, layout, art, faint) ==
  [height |-> h, text |-> layout, faint |-> IF faint THEN layout ELSE {},
   unsafe |-> IF art THEN 0 .. h - 1 ELSE UNION {t.y1 .. t.y2 - 1 : t \in layout}]

SmallImages ==
  {Image(x[1], x[2], x[3], x[4]) :
     x \in UNION {{h} \X Layouts(h) \X BOOLEAN \X BOOLEAN : h \in Heights}}
=============================================================================
