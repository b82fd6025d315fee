----------------------------- MODULE PageEdits -----------------------------
(***************************************************************************)
(* The two kinds of behaviour in which the images of a page can be relied  *)
(* on: edits of every kind, which may fail, on a page that is not          *)
(* processed meanwhile, and edits that succeed and leave the restore brush *)
(* alone, in every order with a processing run.  What is left out of the   *)
(* second leaves no trace in the snapshot a run is compared with.          *)
(***************************************************************************)
EXTENDS PageEditing

VARIABLES
  apart,   \* which of the two a behaviour is of
  late     \* history: a run has changed the boxes and left the cached clean of the old ones

\* Edits that a run notices: boxes, preserve regions and the stamp of the strokes are in the
\* snapshot, and no edit but a reset gives a stamp again that an earlier mask had.
NoticedEdits == EditKinds \ {"restore", "reset"}

\* Whether a run writes the cached clean is decided before its commit (page_processing.py:243);
\* the cache may appear meanwhile, with edits that leave the page as the snapshot has it: a box
\* moved there and back, or boxes of a page that is then skipped and taken back.
CommitsLate ==
  /\ run # NoRun /\ run' = NoRun /\ page' # page
  /\ disk.cached /\ ~run.cache

EditsInit == Init /\ apart \in BOOLEAN /\ late = FALSE

EditsNext ==
  /\ Next \/ (apart /\ RollBackEdit)
  /\ apart => edit' = NoEdit \/ run' = NoRun
  /\ ~apart => edit' = NoEdit \/ edit'.kind \in NoticedEdits
  /\ late' = (late \/ CommitsLate)
  /\ UNCHANGED apart

EditsSpec == EditsInit /\ [][EditsNext]_<<vars, apart, late>>

\* The clean image of a page that nobody is working on is the one it asks for, and so is the
\* cached one that later repaints start from, until a run commits late; and without edits beside
\* it no run does (_do_reinpaint, pipeline_editing.py:1054-1118; _commit_processed_page,
\* pipeline.py:440-560).
ImagesMatch ==
  /\ late \/ (CleanMatches /\ CacheFresh)
  /\ late => ~apart
=============================================================================
