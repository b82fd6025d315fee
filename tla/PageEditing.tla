---------------------------- MODULE PageEditing ----------------------------
(***************************************************************************)
(* One page of a chapter while it is cleaned and edited: the processing    *)
(* run of pipeline.py and page_processing.py, which computes a cleaned     *)
(* image without holding a lock, and the edits of pipeline_editing.py and  *)
(* optimized_pipeline.py, which repaint the page's files in place under    *)
(* its page lock.                                                          *)
(*                                                                         *)
(* A run takes a snapshot of the page, works for seconds or minutes, and   *)
(* commits only if the page still looks like the snapshot.  What it reads  *)
(* from disk meanwhile may be the work of an edit that is not committed    *)
(* yet.  The pixels of a page are a few Places, each either as drawn or    *)
(* erased; an image is the set of places erased in it, a mask or a region  *)
(* the set of places it covers.  Both kinds of repaint mask are one here.  *)
(* A crash in the middle of an edit is ArtifactTransaction's subject: an   *)
(* edit here either commits or takes back everything it wrote.             *)
(***************************************************************************)
EXTENDS Integers, FiniteSets

CONSTANTS
  Place,        \* the parts of the image the model tells apart
  Edits,        \* the edits that users and the A.I mode make in this instance
  MaxEdits,     \* bound of the model: edits begun
  MaxRevision   \* bound of the model: no edit, run or skip begins at this clean_revision

EditKinds == {"add", "move", "remove", "preserve", "fix", "repaint", "restore", "reset"}

ASSUME EditingAssumption ==
  /\ Edits \subseteq EditKinds
  /\ MaxEdits \in Nat /\ MaxRevision \in Nat

VARIABLES
  page,    \* the page's record in the manifest
  disk,    \* the page's files
  edit,    \* the edit that holds the page lock
  run,     \* the processing run: at most one, by processing.lock
  begun    \* number of edits begun; it also stands for a file's mtime

vars == <<page, disk, edit, run, begun>>

\* A box: where the detector found it or a user drew it, and where it is now.
Box == [from : Place, at : Place, manual : BOOLEAN, removed : BOOLEAN]

\* The page fields that cleaning reads and writes.
Page == [skipped : BOOLEAN, required : BOOLEAN, clean : BOOLEAN, revision : Nat,
         preserve : SUBSET Place, boxes : SUBSET Box]

\* stamp is the (exists, mtime, size) of the mask file, 0 when there is none.
Disk == [clean : SUBSET Place, cached : BOOLEAN, auto : SUBSET Place,
         mask : SUBSET Place, stamp : Nat, restore : SUBSET Place]

NoEdit == [kind |-> "none"]
NoRun == [at |-> "idle"]

TypeOK ==
  /\ page \in Page
  /\ ~page.skipped \/ ~page.required
  /\ disk \in Disk
  /\ edit = NoEdit \/
       /\ edit.kind \in Edits /\ edit.step \in {"begun", "painted", "masked"}
       /\ edit.target \in Nat /\ edit.saved \in Disk
  /\ run = NoRun \/
       /\ run.at \in {"captured", "detected", "stroked", "done"}
       /\ run.snapshot.boxes \subseteq Box /\ run.result \subseteq Place
  /\ begun \in 0..MaxEdits

Init ==
  /\ page = [skipped |-> FALSE, required |-> TRUE, clean |-> FALSE, revision |-> 0,
             preserve |-> {}, boxes |-> {}]
  /\ disk = [clean |-> {}, cached |-> FALSE, auto |-> {}, mask |-> {}, stamp |-> 0, restore |-> {}]
  /\ edit = NoEdit
  /\ run = NoRun
  /\ begun = 0
-----------------------------------------------------------------------------
(* Images. *)

\* inpaint: the boxes that are not removed are erased, outside the protected regions.
Inpaint(boxes, preserve) == {b.at : b \in {x \in boxes : ~x.removed}} \ preserve

\* The processing state a run is compared with (capture_processing_state).
ProcessingState ==
  [skipped |-> page.skipped, required |-> page.required, preserve |-> page.preserve,
   boxes |-> page.boxes, stamp |-> disk.stamp]

\* is_processing_state_current
Current == run.snapshot = ProcessingState

Unlocked == edit = NoEdit
-----------------------------------------------------------------------------
(* Edits.  Begin takes the page lock and plans the edit from the manifest. *)

\* What every plan has: the boxes it takes out and puts in, the regions and masks it
\* leaves behind, whether it may start from the cached automatic clean and whether the
\* strokes are painted over it.
Plan(kind) ==
  [kind |-> kind, step |-> "begun", target |-> page.revision + 1, saved |-> disk,
   out |-> {}, in |-> {}, preserve |-> page.preserve, mask |-> disk.mask, stamp |-> disk.stamp,
   restore |-> disk.restore, boxes |-> page.boxes, reuse |-> FALSE, strokes |-> TRUE]

\* The boxes the edit repaints with: its snapshot, changed as the manifest will be.
PlanBoxes(e) == (e.boxes \ e.out) \cup e.in

Begin(e) ==
  /\ Unlocked
  /\ e.kind \in Edits
  /\ begun < MaxEdits /\ page.revision < MaxRevision
  /\ edit' = e
  /\ begun' = begun + 1
  /\ UNCHANGED <<page, disk, run>>

Active == ~page.skipped /\ ~page.required
Processed == Active /\ page.clean

\* Bounds of the model: a place has one manual box, and a region is preserved once.
Free == {p \in Place : \A b \in page.boxes : ~b.manual \/ b.from # p}
Unpreserved == Place \ page.preserve

NewBoxes(S) == {[from |-> p, at |-> p, manual |-> TRUE, removed |-> FALSE] : p \in S}

\* add_manual_boxes: on any page, a skipped one too.
AddManualBoxes ==
  \E S \in SUBSET Free \ {{}} : Begin([Plan("add") EXCEPT !.in = NewBoxes(S)])

\* update_box: the box keeps the place the detector knows it by (detector_anchor).
UpdateBox ==
  \E b \in page.boxes : \E p \in Place \ {b.at} :
    Begin([Plan("move") EXCEPT !.out = {b}, !.in = {[b EXCEPT !.at = p]}])

\* remove_box, of a box that is still shown.
RemoveBox ==
  \E b \in page.boxes :
    /\ ~b.removed
    /\ Begin([Plan("remove") EXCEPT !.out = {b}, !.in = {[b EXCEPT !.removed = TRUE]}])

PreserveAndReinpaint ==
  /\ Processed
  /\ \E S \in SUBSET Unpreserved \ {{}} :
       Begin([Plan("preserve") EXCEPT !.preserve = @ \cup S])

\* apply_review_fixes: regions to keep, boxes to add and places to repaint at once.  Only
\* a new mask on the same boxes can reuse the box inpaint.
ApplyReviewFixes ==
  /\ Processed
  /\ \E keep \in SUBSET Unpreserved, new \in SUBSET Free, again \in SUBSET Place :
       LET preserve == page.preserve \cup keep
           painted == (disk.mask \cup again) \ preserve
           mask == IF again = {} THEN {} ELSE painted
       IN  /\ keep # {} \/ new # {} \/ mask # {}
           /\ Begin([Plan("fix") EXCEPT !.preserve = preserve, !.in = NewBoxes(new),
                       !.mask = IF mask = {} THEN @ ELSE mask,
                       !.stamp = IF mask = {} THEN @ ELSE begun + 1,
                       !.reuse = keep = {} /\ new = {}])

\* repaint_mask: the new strokes join the old ones, and win over the restore brush.
RepaintMask ==
  /\ Active
  /\ \E S \in SUBSET Place :
       LET strokes == S \ page.preserve
       IN  /\ strokes # {}
           /\ Begin([Plan("repaint") EXCEPT !.mask = (@ \ page.preserve) \cup strokes,
                       !.stamp = begun + 1, !.restore = @ \ strokes, !.reuse = TRUE])

\* restore_mask
RestoreMask ==
  /\ Active
  /\ \E S \in SUBSET Place \ {{}} :
       Begin([Plan("restore") EXCEPT !.restore = @ \cup S, !.reuse = TRUE])

\* reset_manual_mask: the page as the automatic clean left it.
ResetManualMask ==
  /\ Active
  /\ Begin([Plan("reset") EXCEPT !.mask = {}, !.stamp = 0, !.restore = {}, !.reuse = TRUE,
                              !.strokes = FALSE])

\* Before it repaints, a repaint may seed the cache from the clean image as it is.
Seeds == edit.kind = "repaint" /\ ~disk.cached /\ disk.mask = {} /\ page.clean

\* Mutant: whatever the edit, the cached automatic clean is reused.
BaseAlwaysCached == IF disk.cached THEN disk.auto ELSE Inpaint(PlanBoxes(edit), edit.preserve)

\* The places erased in the image the repaint starts from (_do_reinpaint).
Base ==
  IF edit.reuse /\ disk.cached THEN disk.auto
  ELSE IF edit.reuse /\ Seeds THEN disk.clean
  ELSE Inpaint(PlanBoxes(edit), edit.preserve)

\* The strokes over it, and the original pixels back over the strokes.
Painted(base) ==
  IF edit.strokes THEN ((base \cup edit.mask) \ edit.preserve) \ edit.restore ELSE base

\* The restore mask of a repaint or a restore is written first; then the images.
Paint ==
  /\ edit # NoEdit /\ edit.step = "begun"
  /\ disk' = [disk EXCEPT !.restore = IF edit.strokes THEN edit.restore ELSE @,
                          !.cached = TRUE, !.auto = Base, !.clean = Painted(Base)]
  /\ edit' = [edit EXCEPT !.step = "painted"]
  /\ UNCHANGED <<page, run, begun>>

\* The mask file is replaced (fix, repaint), or both masks are unlinked (reset).
PlaceMask ==
  /\ edit # NoEdit /\ edit.step = "painted"
  /\ disk' = [disk EXCEPT !.mask = edit.mask, !.stamp = edit.stamp, !.restore = edit.restore]
  /\ edit' = [edit EXCEPT !.step = "masked"]
  /\ UNCHANGED <<page, run, begun>>

\* The manifest is read again and changed; the artifact transaction ends.
CommitEdit ==
  /\ edit # NoEdit /\ edit.step = "masked"
  /\ page.revision + 1 = edit.target
  /\ page' = [page EXCEPT !.boxes = (@ \ edit.out) \cup edit.in,
                          !.preserve = IF edit.kind \in {"preserve", "fix"} THEN edit.preserve ELSE @,
                          !.clean = TRUE, !.revision = edit.target]
  /\ edit' = NoEdit
  /\ UNCHANGED <<disk, run, begun>>

\* An error in the edit, or a busy manifest lock: the files and their mtimes come back.
RollBackEdit ==
  /\ edit # NoEdit
  /\ disk' = edit.saved
  /\ edit' = NoEdit
  /\ UNCHANGED <<page, run, begun>>
-----------------------------------------------------------------------------
(* Changes made in one step under the page lock and the manifest lock.      *)

\* mark_skipped(..., True)
Skip ==
  /\ Unlocked /\ page.revision < MaxRevision
  /\ page' = [page EXCEPT !.skipped = TRUE, !.clean = FALSE, !.boxes = {}, !.required = FALSE,
                          !.revision = IF ~page.skipped \/ page.clean \/ page.boxes # {}
                                       THEN @ + 1 ELSE @]
  /\ UNCHANGED <<disk, edit, run, begun>>

\* mark_skipped(..., False): only a page returning from "skipped" needs processing.
Unskip ==
  /\ Unlocked /\ page.skipped /\ page.revision < MaxRevision
  /\ page' = [page EXCEPT !.skipped = FALSE, !.required = TRUE, !.revision = @ + 1]
  /\ UNCHANGED <<disk, edit, run, begun>>

\* _set_page_preserve_regions: an active page is cleaned again.
SetPreserveRegions ==
  /\ Unlocked /\ page.revision < MaxRevision
  /\ \E S \in SUBSET Place \ {page.preserve} :
       page' = [page EXCEPT !.preserve = S,
                            !.required = @ \/ ~page.skipped,
                            !.clean = @ /\ page.skipped,
                            !.revision = IF page.clean /\ ~page.skipped THEN @ + 1 ELSE @]
  /\ UNCHANGED <<disk, edit, run, begun>>
-----------------------------------------------------------------------------
(* The processing run. *)

\* process_pages under the manifest lock only, so an edit may be under way.
Capture ==
  /\ run = NoRun /\ ~page.skipped /\ page.revision < MaxRevision
  /\ run' = [at |-> "captured", snapshot |-> ProcessingState, found |-> {}, cache |-> FALSE,
             base |-> {}, result |-> {}]
  /\ UNCHANGED <<page, disk, edit, begun>>

\* Mutant: a removed box is found again as if it were new.
RecognisedAfresh(p, known, art) ==
  {[from |-> p, at |-> p, manual |-> FALSE, removed |-> p \in art]}

\* A detection at p keeps what a user decided about the box found there before.
Recognised(p, known, art) ==
  LET old == {b \in known : ~b.manual /\ b.from = p}
  IN  IF old = {}
      THEN {[from |-> p, at |-> p, manual |-> FALSE, removed |-> p \in art]}
      ELSE {[b EXCEPT !.removed = @ \/ p \in art] : b \in old}

\* _process_page up to the cache: the detector may find any places, and the A.I screen may
\* take any of them for art.  A cache is written when there is one, or a mask, by then.
Detect ==
  /\ run # NoRun /\ run.at = "captured"
  /\ \E places \in SUBSET Place : \E art \in SUBSET places :
       LET known == run.snapshot.boxes
           found == UNION {Recognised(p, known, art) : p \in places}
           base == Inpaint(found \cup {b \in known : b.manual}, run.snapshot.preserve)
       IN  run' = [run EXCEPT !.at = "detected", !.found = found, !.base = base,
                              !.cache = disk.cached \/ disk.mask # {}]
  /\ UNCHANGED <<page, disk, edit, begun>>

\* The manual passes: the strokes on disk by now, outside the preserve regions.
ReadStrokes ==
  /\ run # NoRun /\ run.at = "detected"
  /\ run' = [run EXCEPT !.at = "stroked", !.result = run.base \cup (disk.mask \ run.snapshot.preserve)]
  /\ UNCHANGED <<page, disk, edit, begun>>

\* _apply_restore_mask: the restore brush on disk by now; then the result is written aside.
ReadRestore ==
  /\ run # NoRun /\ run.at = "stroked"
  /\ run' = [run EXCEPT !.at = "done", !.result = @ \ disk.restore]
  /\ UNCHANGED <<page, disk, edit, begun>>

\* What the run's commit does to the page and its files.
Deliver(boxes) ==
  /\ page' = [page EXCEPT !.boxes = boxes, !.required = FALSE, !.clean = TRUE, !.revision = @ + 1]
  /\ disk' = [disk EXCEPT !.clean = run.result,
                          !.cached = @ \/ run.cache,
                          !.auto = IF run.cache THEN run.base ELSE @]

\* Mutant: the commit does not wait for the page lock.
CommitUnlocked ==
  /\ run # NoRun /\ run.at = "done"
  /\ IF Current THEN Deliver(run.found \cup {b \in page.boxes : b.manual})
     ELSE UNCHANGED <<page, disk>>
  /\ run' = NoRun
  /\ UNCHANGED <<edit, begun>>

\* _commit_processed_page, under both locks: stale output is discarded.
CommitProcessedPage ==
  /\ run # NoRun /\ run.at = "done" /\ Unlocked
  /\ IF Current THEN Deliver(run.found \cup {b \in page.boxes : b.manual})
     ELSE UNCHANGED <<page, disk>>
  /\ run' = NoRun
  /\ UNCHANGED <<edit, begun>>

\* The page fails to process, or its commit is rolled back.
FailRun ==
  /\ run # NoRun
  /\ run' = NoRun
  /\ UNCHANGED <<page, disk, edit, begun>>
-----------------------------------------------------------------------------
BeginEdit ==
  \/ AddManualBoxes \/ UpdateBox \/ RemoveBox \/ PreserveAndReinpaint
  \/ ApplyReviewFixes \/ RepaintMask \/ RestoreMask \/ ResetManualMask

EditSteps == Paint \/ PlaceMask \/ CommitEdit
PageChanges == Skip \/ Unskip \/ SetPreserveRegions
RunSteps == Detect \/ ReadStrokes \/ ReadRestore \/ CommitProcessedPage \/ FailRun

\* Users edit a page while it is processed; edits succeed.
Next == BeginEdit \/ EditSteps \/ PageChanges \/ Capture \/ RunSteps

\* ... and edits fail.
NextFailing == Next \/ RollBackEdit

Spec == Init /\ [][Next]_vars
SpecFailing == Init /\ [][NextFailing]_vars
-----------------------------------------------------------------------------
(* What must hold of the page. *)

\* The page counts as cleaned and no edit is in the middle of its files.
Settled == Unlocked /\ Processed

\* The clean image is exactly what the page's boxes, strokes, preserve regions and restore
\* brush ask for, whatever edits and runs made it (_do_reinpaint, _commit_processed_page).
CleanMatches ==
  Settled => disk.clean = ((Inpaint(page.boxes, {}) \cup disk.mask) \ page.preserve) \ disk.restore

\* The cached automatic clean that the next repaint starts from is that of the page's
\* boxes ("Only a new mask on the same boxes can reuse the box inpaint",
\* pipeline_editing.py:420).
CacheFresh ==
  Settled /\ disk.cached => disk.auto = Inpaint(page.boxes, page.preserve)

\* Pixels put back by the restore brush stay as drawn (restore_mask's docstring,
\* pipeline_editing.py:679).
RestoreKept == Settled => disk.clean \cap disk.restore = {}

\* No other writer of clean_revision gets between an edit's snapshot and its commit, so
\* "Page clean revision changed during repaint" is never raised (pipeline_editing.py:670).
RevisionHeld == edit # NoEdit => page.revision + 1 = edit.target

\* A run that was under way when its page was skipped leaves no detections on it
\* (mark_skipped, pipeline.py:771-797).
SkippedHasNoDetections == page.skipped => \A b \in page.boxes : b.manual

\* The page is well formed, its revision is the edit's to raise, and a skipped page is bare.
PageOK == TypeOK /\ RevisionHeld /\ SkippedHasNoDetections

\* A manual box survives every edit and run; only skipping the page drops it
\* (_commit_processed_page, pipeline.py:497-503).
ManualBoxesKept ==
  [][\A b \in page.boxes :
       b.manual => page'.skipped \/ \E c \in page'.boxes : c.manual /\ c.from = b.from]_vars

\* A detection a user removed is not shown again by the next run, if that one finds it again,
\* nor by an edit of it or of other boxes (_process_page, page_processing.py:137-150).
RemovedStaysRemoved ==
  [][\A b \in page.boxes, c \in page'.boxes :
       ~b.manual /\ ~c.manual /\ b.from = c.from /\ b.removed => c.removed]_vars

\* A run that commits leaves the manual boxes as they are by then, wherever they were moved
\* meanwhile, and a detection it finds again where a user has moved it
\* (page_processing.py:141-150).
RunsMoveNothing ==
  [][run # NoRun /\ run' = NoRun /\ page' # page =>
       /\ \A b \in page.boxes : b.manual => b \in page'.boxes
       /\ \A b \in page.boxes, c \in page'.boxes :
            ~b.manual /\ ~c.manual /\ b.from = c.from => c.at = b.at]_vars

\* What users decided about boxes holds against edits and runs, those that were under way when
\* they decided too: a manual box is kept where it was put, and a detection keeps its removal and
\* its place as long as each run finds it.  A run that does not find it drops it with all that was
\* decided (RemovalRemembered), and one that finds it later has a new detection.
DecisionsKept == ManualBoxesKept /\ RemovedStaysRemoved /\ RunsMoveNothing

\* No removal is forgotten but with its page's boxes, when the page is skipped.  It fails:
\* _commit_processed_page keeps the detections of the run, not those that it did not find.
RemovalRemembered ==
  [][\A b \in page.boxes :
       ~b.manual /\ b.removed =>
         page'.skipped \/ \E c \in page'.boxes : c.from = b.from /\ c.removed]_vars
=============================================================================
