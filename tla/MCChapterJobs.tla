--------------------------- MODULE MCChapterJobs ---------------------------
(* Small instances of ChapterJobs for TLC.                                 *)
EXTENDS ChapterJobs

CONSTANTS a, b, p, q

TwoChapters == {a, b}
OneChapter == {a}
TwoPages == {p, q}
OnePage == {p}

LongAndShort == [c \in TwoChapters |-> IF c = a THEN TwoPages ELSE OnePage]
Short == [c \in OneChapter |-> OnePage]
=============================================================================
