------------------------- MODULE PageEditingProofs -------------------------
(***************************************************************************)
(* What PageEditing promises about boxes and revisions, with edits that    *)
(* fail as well, and PageEdits about images, for any number of places,     *)
(* edits and revisions.                                                    *)
(***************************************************************************)
EXTENDS PageEdits, TLAPS

Snapshot == [skipped : BOOLEAN, required : BOOLEAN, preserve : SUBSET Place,
             boxes : SUBSET Box, stamp : Nat]

EditRecord ==
  [kind : EditKinds, step : {"begun", "painted", "masked"}, target : Nat, saved : Disk,
   out : SUBSET Box, in : SUBSET Box, preserve : SUBSET Place, mask : SUBSET Place,
   stamp : Nat, restore : SUBSET Place, boxes : SUBSET Box, reuse : BOOLEAN, strokes : BOOLEAN]

RunRecord ==
  [at : {"captured", "detected", "stroked", "done"}, snapshot : Snapshot, found : SUBSET Box,
   cache : BOOLEAN, base : SUBSET Place, result : SUBSET Place]

Typed ==
  /\ page \in Page
  /\ ~page.skipped \/ ~page.required
  /\ disk \in Disk
  /\ edit \in EditRecord \cup {NoEdit}
  /\ edit # NoEdit => edit.kind \in Edits
  /\ run \in RunRecord \cup {NoRun}
  /\ begun \in 0..MaxEdits

\* A place has at most one detection.
Distinct(S) == \A b, c \in S : ~b.manual /\ ~c.manual /\ b.from = c.from => b = c

\* What an edit may do to boxes: each one it takes out comes back, changed; a detection it
\* puts in is one it took out, and stays removed.
PlanOK(e) ==
  /\ e.target = page.revision + 1
  /\ e.out \subseteq page.boxes
  /\ \A b \in e.out : \E c \in e.in : c.from = b.from /\ c.manual = b.manual
  /\ \A c \in e.in : ~c.manual =>
       \E b \in e.out : ~b.manual /\ b.from = c.from /\ (b.removed => c.removed)
  /\ \A b, c \in e.in : ~b.manual /\ ~c.manual => b = c

EditOK == edit # NoEdit => PlanOK(edit)

\* A run started on a page that was not skipped, and finds detections only: one at a place, where
\* the one of the snapshot is by now, and removed if that one was.
RunOK ==
  run # NoRun =>
    /\ ~run.snapshot.skipped
    /\ Distinct(run.snapshot.boxes)
    /\ Distinct(run.found)
    /\ \A c \in run.found : ~c.manual
    /\ \A b \in run.snapshot.boxes, c \in run.found :
         ~b.manual /\ b.from = c.from => c.at = b.at /\ (b.removed => c.removed)

\* The inductive invariant.
BoxInv ==
  /\ Typed
  /\ Distinct(page.boxes)
  /\ SkippedHasNoDetections
  /\ EditOK
  /\ RunOK
-----------------------------------------------------------------------------
\* The initial page satisfies the invariant.
LEMMA BoxInit == Init => BoxInv
  BY EditingAssumption
     DEF Init, BoxInv, Typed, Page, Disk, Distinct, SkippedHasNoDetections, EditOK, RunOK

\* No edit record is the absence of one.
LEMMA EditIsRecord == ASSUME NEW e \in EditRecord PROVE e # NoEdit
  BY DEF EditRecord, NoEdit, EditKinds

\* No run record is the absence of one.
LEMMA RunIsRecord == ASSUME NEW r \in RunRecord PROVE r # NoRun
  BY DEF RunRecord, NoRun

\* A plan is an edit record.
LEMMA PlanTyped ==
  ASSUME Typed, NEW kind \in EditKinds
  PROVE  Plan(kind) \in EditRecord
  BY DEF Typed, Plan, EditRecord, Page, Disk

\* Taking the page lock for a plan that treats boxes well keeps the invariant.
LEMMA BeginStep ==
  ASSUME BoxInv, NEW e \in EditRecord, PlanOK(e), Begin(e)
  PROVE  BoxInv'
<1>1. e # NoEdit  BY EditIsRecord
<1>2. UNCHANGED <<page, disk, run>> /\ edit' = e
  BY DEF Begin
<1>3. Typed'
  BY <1>2, EditingAssumption DEF BoxInv, Typed, Begin
<1>4. EditOK'
  BY <1>2 DEF EditOK, PlanOK
<1> QED
  BY <1>2, <1>3, <1>4 DEF BoxInv, SkippedHasNoDetections, RunOK
-----------------------------------------------------------------------------
(* The plans of the edits. *)

\* Manual boxes may be put in beside the others.
LEMMA NewBoxesOK ==
  ASSUME NEW S \in SUBSET Place
  PROVE  NewBoxes(S) \in SUBSET Box /\ \A b \in NewBoxes(S) : b.manual
<1>1. ASSUME NEW b \in NewBoxes(S)
      PROVE  b \in Box /\ b.manual
  <2>1. PICK p \in S : b = [from |-> p, at |-> p, manual |-> TRUE, removed |-> FALSE]
    BY DEF NewBoxes
  <2> QED
    BY <2>1 DEF Box
<1> QED
  BY <1>1

\* A plan that takes no box out and puts only manual ones in treats boxes well.
LEMMA AddsOnlyOK ==
  ASSUME NEW e \in EditRecord, e.target = page.revision + 1, e.out = {}, \A b \in e.in : b.manual
  PROVE  PlanOK(e)
  BY DEF PlanOK

\* Boxes are added with an edit record that keeps all the others.
LEMMA AddStep == ASSUME BoxInv, AddManualBoxes PROVE BoxInv'
<1>1. PICK S \in SUBSET Free : Begin([Plan("add") EXCEPT !.in = NewBoxes(S)])
  BY DEF AddManualBoxes
<1> DEFINE e == [Plan("add") EXCEPT !.in = NewBoxes(S)]
<1>2. NewBoxes(S) \in SUBSET Box /\ \A b \in NewBoxes(S) : b.manual
  BY NewBoxesOK DEF Free
<1>3. Plan("add") \in EditRecord
  BY PlanTyped DEF BoxInv, EditKinds
<1>4. e \in EditRecord /\ e.target = page.revision + 1 /\ e.out = {} /\ e.in = NewBoxes(S)
  BY <1>2, <1>3 DEF EditRecord, Plan
<1> HIDE DEF e
<1>5. PlanOK(e)
  BY <1>2, <1>4, AddsOnlyOK
<1> QED
  BY <1>1, <1>4, <1>5, BeginStep DEF e

\* One box is replaced by a changed copy that stays where it was found, and removed.
LEMMA ReplaceOK ==
  ASSUME BoxInv, NEW e \in EditRecord, e.target = page.revision + 1,
         NEW b \in page.boxes, NEW c \in Box, e.out = {b}, e.in = {c},
         c.from = b.from, c.manual = b.manual, b.removed => c.removed
  PROVE  PlanOK(e)
  BY DEF PlanOK

\* A box that was moved is known by where it was found.
LEMMA MoveStep == ASSUME BoxInv, UpdateBox PROVE BoxInv'
<1>1. PICK b \in page.boxes, p \in Place :
        Begin([Plan("move") EXCEPT !.out = {b}, !.in = {[b EXCEPT !.at = p]}])
  BY DEF UpdateBox
<1> DEFINE c == [b EXCEPT !.at = p]
           e == [Plan("move") EXCEPT !.out = {b}, !.in = {c}]
<1>2. b \in Box
  BY DEF BoxInv, Typed, Page
<1>3. c \in Box /\ c.from = b.from /\ c.manual = b.manual /\ (b.removed => c.removed)
  BY <1>2 DEF Box
<1>4. Plan("move") \in EditRecord
  BY PlanTyped DEF BoxInv, EditKinds
<1>5. e \in EditRecord /\ e.target = page.revision + 1 /\ e.out = {b} /\ e.in = {c}
  BY <1>2, <1>3, <1>4 DEF EditRecord, Plan
<1> HIDE DEF c, e
<1>6. PlanOK(e)
  BY <1>3, <1>5, ReplaceOK
<1> QED
  BY <1>1, <1>5, <1>6, BeginStep DEF c, e

\* A removed box stays on record as removed.
LEMMA RemoveStep == ASSUME BoxInv, RemoveBox PROVE BoxInv'
<1>1. PICK b \in page.boxes :
        Begin([Plan("remove") EXCEPT !.out = {b}, !.in = {[b EXCEPT !.removed = TRUE]}])
  BY DEF RemoveBox
<1> DEFINE c == [b EXCEPT !.removed = TRUE]
           e == [Plan("remove") EXCEPT !.out = {b}, !.in = {c}]
<1>2. b \in Box
  BY DEF BoxInv, Typed, Page
<1>3. c \in Box /\ c.from = b.from /\ c.manual = b.manual /\ (b.removed => c.removed)
  BY <1>2 DEF Box
<1>4. Plan("remove") \in EditRecord
  BY PlanTyped DEF BoxInv, EditKinds
<1>5. e \in EditRecord /\ e.target = page.revision + 1 /\ e.out = {b} /\ e.in = {c}
  BY <1>2, <1>3, <1>4 DEF EditRecord, Plan
<1> HIDE DEF c, e
<1>6. PlanOK(e)
  BY <1>3, <1>5, ReplaceOK
<1> QED
  BY <1>1, <1>5, <1>6, BeginStep DEF c, e

\* Regions to keep leave the boxes as they are.
LEMMA PreserveStep == ASSUME BoxInv, PreserveAndReinpaint PROVE BoxInv'
<1>1. PICK S \in SUBSET Place : Begin([Plan("preserve") EXCEPT !.preserve = @ \cup S])
  BY DEF PreserveAndReinpaint, Unpreserved
<1> DEFINE e == [Plan("preserve") EXCEPT !.preserve = @ \cup S]
<1>2. Plan("preserve") \in EditRecord
  BY PlanTyped DEF BoxInv, EditKinds
<1>3. e \in EditRecord /\ e.target = page.revision + 1 /\ e.out = {} /\ e.in = {}
  BY <1>2 DEF EditRecord, Plan
<1> HIDE DEF e
<1>4. PlanOK(e)
  BY <1>3, AddsOnlyOK
<1> QED
  BY <1>1, <1>3, <1>4, BeginStep DEF e

\* Review fixes add manual boxes and touch no other.
LEMMA FixStep == ASSUME BoxInv, ApplyReviewFixes PROVE BoxInv'
<1>1. PICK keep \in SUBSET Unpreserved, new \in SUBSET Free, again \in SUBSET Place :
        LET preserve == page.preserve \cup keep
            painted == (disk.mask \cup again) \ preserve
            mask == IF again = {} THEN {} ELSE painted
        IN  Begin([Plan("fix") EXCEPT !.preserve = preserve, !.in = NewBoxes(new),
                     !.mask = IF mask = {} THEN @ ELSE mask,
                     !.stamp = IF mask = {} THEN @ ELSE begun + 1,
                     !.reuse = keep = {} /\ new = {}])
  BY DEF ApplyReviewFixes
<1> DEFINE preserve == page.preserve \cup keep
           painted == (disk.mask \cup again) \ preserve
           mask == IF again = {} THEN {} ELSE painted
           newMask == IF mask = {} THEN Plan("fix").mask ELSE mask
           newStamp == IF mask = {} THEN Plan("fix").stamp ELSE begun + 1
           in == NewBoxes(new)
           reuse == keep = {} /\ new = {}
           e == [Plan("fix") EXCEPT !.preserve = preserve, !.in = in, !.mask = newMask,
                   !.stamp = newStamp, !.reuse = reuse]
<1>2. in \in SUBSET Box /\ \A b \in in : b.manual
  BY NewBoxesOK DEF Free
<1>3. Plan("fix") \in EditRecord
  BY PlanTyped DEF BoxInv, EditKinds
<1>4. preserve \in SUBSET Place /\ mask \in SUBSET Place /\ begun + 1 \in Nat
  BY EditingAssumption DEF BoxInv, Typed, Page, Disk, Unpreserved
<1>6. Begin(e)
  BY <1>1
<1> HIDE DEF preserve, mask, in, reuse
<1>8. newMask \in SUBSET Place /\ newStamp \in Nat
  BY <1>3, <1>4 DEF EditRecord
<1>9. reuse \in BOOLEAN
  BY DEF reuse
<1> HIDE DEF newMask, newStamp
<1>10. e \in EditRecord
  BY <1>2, <1>3, <1>4, <1>8, <1>9 DEF EditRecord
<1>5. e \in EditRecord /\ e.target = page.revision + 1 /\ e.out = {} /\ e.in = in
  BY <1>10 DEF Plan
<1> HIDE DEF e
<1>7. PlanOK(e)
  BY <1>2, <1>5, AddsOnlyOK
<1> QED
  BY <1>5, <1>6, <1>7, BeginStep

\* Strokes leave the boxes as they are.
LEMMA RepaintStep == ASSUME BoxInv, RepaintMask PROVE BoxInv'
<1>1. PICK S \in SUBSET Place :
        Begin([Plan("repaint") EXCEPT !.mask = (@ \ page.preserve) \cup (S \ page.preserve),
                 !.stamp = begun + 1, !.restore = @ \ (S \ page.preserve), !.reuse = TRUE])
  BY DEF RepaintMask
<1> DEFINE mask == (Plan("repaint").mask \ page.preserve) \cup (S \ page.preserve)
           restore == Plan("repaint").restore \ (S \ page.preserve)
           e == [Plan("repaint") EXCEPT !.mask = mask, !.stamp = begun + 1,
                   !.restore = restore, !.reuse = TRUE]
<1>2. Plan("repaint") \in EditRecord
  BY PlanTyped DEF BoxInv, EditKinds
<1>3. begun + 1 \in Nat
  BY EditingAssumption DEF BoxInv, Typed
<1>4. e \in EditRecord /\ e.target = page.revision + 1 /\ e.out = {} /\ e.in = {}
  <2>1. mask \in SUBSET Place /\ restore \in SUBSET Place
    BY <1>2 DEF EditRecord
  <2> HIDE DEF mask, restore
  <2>2. e \in EditRecord
    BY <1>2, <1>3, <2>1 DEF EditRecord
  <2> QED BY <2>2 DEF Plan
<1> HIDE DEF e
<1>5. PlanOK(e)
  BY <1>4, AddsOnlyOK
<1> QED
  BY <1>1, <1>4, <1>5, BeginStep DEF e

\* So does the restore brush.
LEMMA RestoreStep == ASSUME BoxInv, RestoreMask PROVE BoxInv'
<1>1. PICK S \in SUBSET Place :
        Begin([Plan("restore") EXCEPT !.restore = @ \cup S, !.reuse = TRUE])
  BY DEF RestoreMask
<1> DEFINE e == [Plan("restore") EXCEPT !.restore = @ \cup S, !.reuse = TRUE]
<1>2. Plan("restore") \in EditRecord
  BY PlanTyped DEF BoxInv, EditKinds
<1>3. e \in EditRecord /\ e.target = page.revision + 1 /\ e.out = {} /\ e.in = {}
  BY <1>2 DEF EditRecord, Plan
<1> HIDE DEF e
<1>4. PlanOK(e)
  BY <1>3, AddsOnlyOK
<1> QED
  BY <1>1, <1>3, <1>4, BeginStep DEF e

\* And a reset.
LEMMA ResetStep == ASSUME BoxInv, ResetManualMask PROVE BoxInv'
<1> DEFINE e == [Plan("reset") EXCEPT !.mask = {}, !.stamp = 0, !.restore = {}, !.reuse = TRUE,
                                      !.strokes = FALSE]
<1>1. Begin(e)
  BY DEF ResetManualMask
<1>2. Plan("reset") \in EditRecord
  BY PlanTyped DEF BoxInv, EditKinds
<1>3. e \in EditRecord /\ e.target = page.revision + 1 /\ e.out = {} /\ e.in = {}
  BY <1>2 DEF EditRecord, Plan
<1> HIDE DEF e
<1>4. PlanOK(e)
  BY <1>3, AddsOnlyOK
<1> QED
  BY <1>1, <1>3, <1>4, BeginStep
-----------------------------------------------------------------------------
(* The other steps of an edit, and the changes made in one step.            *)

\* An edit that goes on writing its files keeps its plan.
LEMMA WritingStep ==
  ASSUME BoxInv, edit # NoEdit, NEW s \in {"painted", "masked"},
         edit' = [edit EXCEPT !.step = s], disk' \in Disk, UNCHANGED <<page, run, begun>>
  PROVE  BoxInv'
<1>1. edit \in EditRecord
  BY DEF BoxInv, Typed
<1>2. /\ edit' \in EditRecord /\ edit'.kind = edit.kind /\ edit'.target = edit.target
      /\ edit'.out = edit.out /\ edit'.in = edit.in
  BY <1>1 DEF EditRecord
<1>3. Typed'
  BY <1>2 DEF BoxInv, Typed
<1>4. EditOK'
  BY <1>2 DEF BoxInv, EditOK, PlanOK
<1> QED
  BY <1>3, <1>4 DEF BoxInv, SkippedHasNoDetections, RunOK

\* The places a box covers are places.
LEMMA InpaintTyped ==
  ASSUME NEW S \in SUBSET Box, NEW R
  PROVE  Inpaint(S, R) \in SUBSET Place
  BY DEF Inpaint, Box

\* The images are written.
LEMMA PaintStep == ASSUME BoxInv, Paint PROVE BoxInv'
<1>1. edit \in EditRecord /\ disk \in Disk
  BY DEF BoxInv, Typed, Paint
<1>2. PlanBoxes(edit) \in SUBSET Box
  BY <1>1 DEF PlanBoxes, EditRecord
<1>3. Base \in SUBSET Place
  BY <1>1, <1>2, InpaintTyped DEF Base, Disk
<1>4. Painted(Base) \in SUBSET Place
  BY <1>1, <1>3 DEF Painted, EditRecord
<1>5. disk' \in Disk
  BY <1>1, <1>3, <1>4 DEF Paint, Disk, EditRecord
<1> QED
  BY <1>5, WritingStep DEF Paint

\* The masks are written.
LEMMA PlaceMaskStep == ASSUME BoxInv, PlaceMask PROVE BoxInv'
<1>1. edit \in EditRecord /\ disk \in Disk
  BY DEF BoxInv, Typed, PlaceMask
<1>2. disk' \in Disk
  BY <1>1 DEF PlaceMask, Disk, EditRecord
<1> QED
  BY <1>2, WritingStep DEF PlaceMask

\* The record of a page whose edit commits.
LEMMA CommitEditPage ==
  ASSUME BoxInv, CommitEdit
  PROVE  /\ edit \in EditRecord /\ PlanOK(edit) /\ edit' = NoEdit
         /\ page' \in Page /\ page'.skipped = page.skipped /\ page'.required = page.required
         /\ page'.boxes = (page.boxes \ edit.out) \cup edit.in
<1>1. edit \in EditRecord /\ PlanOK(edit)
  BY DEF BoxInv, Typed, EditOK, CommitEdit
<1>2. page \in Page
  BY DEF BoxInv, Typed
<1> DEFINE B == (page.boxes \ edit.out) \cup edit.in
           P == IF edit.kind \in {"preserve", "fix"} THEN edit.preserve ELSE page.preserve
<1>3. B \in SUBSET Box /\ P \in SUBSET Place /\ edit.target \in Nat
  BY <1>1, <1>2 DEF EditRecord, Page
<1>4. page' = [page EXCEPT !.boxes = B, !.preserve = P, !.clean = TRUE, !.revision = edit.target]
  BY DEF CommitEdit
<1> HIDE DEF B, P
<1>5. page' \in Page /\ page'.skipped = page.skipped /\ page'.required = page.required /\ page'.boxes = B
  BY <1>2, <1>3, <1>4 DEF Page
<1> QED
  BY <1>1, <1>5 DEF B, CommitEdit

\* An edit commits its boxes with the revision it aimed at.
LEMMA CommitEditStep == ASSUME BoxInv, CommitEdit PROVE BoxInv'
<1>1. /\ edit \in EditRecord /\ PlanOK(edit) /\ edit' = NoEdit
      /\ page' \in Page /\ page'.skipped = page.skipped /\ page'.required = page.required
      /\ page'.boxes = (page.boxes \ edit.out) \cup edit.in
  BY CommitEditPage
<1>2. UNCHANGED <<disk, run, begun>>
  BY DEF CommitEdit
<1>3. Typed'
  BY <1>1, <1>2 DEF BoxInv, Typed
<1>4. Distinct(page.boxes)'
  <2> SUFFICES ASSUME NEW b \in page'.boxes, NEW c \in page'.boxes,
                      ~b.manual, ~c.manual, b.from = c.from
               PROVE  b = c
    BY DEF Distinct
  <2>1. \A x \in edit.in, y \in page.boxes \ edit.out :
          ~x.manual /\ ~y.manual => x.from # y.from
    BY <1>1 DEF BoxInv, Distinct, PlanOK
  <2> QED
    BY <1>1, <2>1 DEF BoxInv, Distinct, PlanOK
<1>5. SkippedHasNoDetections'
  BY <1>1 DEF BoxInv, SkippedHasNoDetections, PlanOK
<1>6. EditOK' /\ RunOK'
  BY <1>1, <1>2 DEF BoxInv, EditOK, RunOK
<1> QED
  BY <1>3, <1>4, <1>5, <1>6 DEF BoxInv

\* A rolled back edit leaves the page alone.
LEMMA RollBackStep == ASSUME BoxInv, RollBackEdit PROVE BoxInv'
<1>1. edit.saved \in Disk
  BY DEF BoxInv, Typed, RollBackEdit, EditRecord
<1> QED
  BY <1>1 DEF RollBackEdit, BoxInv, Typed, SkippedHasNoDetections, EditOK, RunOK

\* A change of the page's record while no edit is under way.
LEMMA PageStep ==
  ASSUME BoxInv, edit = NoEdit, UNCHANGED <<edit, run, begun>>, disk' \in Disk, page' \in Page,
         ~page'.skipped \/ ~page'.required, Distinct(page'.boxes),
         page'.skipped => \A b \in page'.boxes : b.manual
  PROVE  BoxInv'
  BY DEF BoxInv, Typed, SkippedHasNoDetections, EditOK, RunOK

\* Skipping drops the boxes.
LEMMA SkipStep == ASSUME BoxInv, Skip PROVE BoxInv'
<1>1. page \in Page /\ disk \in Disk
  BY DEF BoxInv, Typed
<1>2. PICK r \in Nat :
        page' = [page EXCEPT !.skipped = TRUE, !.clean = FALSE, !.boxes = {}, !.required = FALSE,
                             !.revision = r]
  <2> DEFINE r == IF ~page.skipped \/ page.clean \/ page.boxes # {}
                  THEN page.revision + 1 ELSE page.revision
  <2>1. r \in Nat
    BY <1>1 DEF Page
  <2> QED
    BY <2>1 DEF Skip
<1>3. page' \in Page /\ ~page'.required /\ page'.boxes = {}
  BY <1>1, <1>2 DEF Page
<1> QED
  BY <1>1, <1>3, PageStep DEF Skip, Unlocked, Distinct

\* A page that returns keeps what it has.
LEMMA UnskipStep == ASSUME BoxInv, Unskip PROVE BoxInv'
<1>1. page \in Page /\ disk \in Disk
  BY DEF BoxInv, Typed
<1>2. page.revision + 1 \in Nat
  BY <1>1 DEF Page
<1>3. page' = [page EXCEPT !.skipped = FALSE, !.required = TRUE, !.revision = page.revision + 1]
  BY DEF Unskip
<1>4. page' \in Page /\ ~page'.skipped /\ page'.boxes = page.boxes
  BY <1>1, <1>2, <1>3 DEF Page
<1> QED
  BY <1>1, <1>4, PageStep DEF Unskip, Unlocked, BoxInv

\* So does a page whose preserve regions are replaced.
LEMMA SetPreserveStep == ASSUME BoxInv, SetPreserveRegions PROVE BoxInv'
<1>1. page \in Page /\ disk \in Disk /\ (~page.skipped \/ ~page.required)
  BY DEF BoxInv, Typed
<1>2. PICK S \in SUBSET Place, q \in BOOLEAN, c \in BOOLEAN, r \in Nat :
        /\ q = (page.required \/ ~page.skipped)
        /\ page' = [page EXCEPT !.preserve = S, !.required = q, !.clean = c, !.revision = r]
  <2> DEFINE r == IF page.clean /\ ~page.skipped THEN page.revision + 1 ELSE page.revision
  <2>1. r \in Nat
    BY <1>1 DEF Page
  <2> QED
    BY <2>1 DEF SetPreserveRegions
<1>3. /\ page' \in Page /\ page'.skipped = page.skipped /\ page'.boxes = page.boxes
      /\ ~page'.skipped \/ ~page'.required
  BY <1>1, <1>2 DEF Page
<1> QED
  BY <1>1, <1>3, PageStep DEF SetPreserveRegions, Unlocked, BoxInv, SkippedHasNoDetections
-----------------------------------------------------------------------------
(* The processing run. *)

\* A step of the run that leaves the page, its files and the edit alone.
LEMMA RunStep ==
  ASSUME BoxInv, UNCHANGED <<page, disk, edit, begun>>, run' \in RunRecord \cup {NoRun}, RunOK'
  PROVE  BoxInv'
  BY DEF BoxInv, Typed, SkippedHasNoDetections, EditOK, PlanOK

\* The run starts from the record as it is.
LEMMA CaptureStep == ASSUME BoxInv, Capture PROVE BoxInv'
<1>1. page \in Page /\ disk \in Disk /\ Distinct(page.boxes)
  BY DEF BoxInv, Typed
<1>2. /\ ProcessingState \in Snapshot
      /\ ProcessingState.skipped = page.skipped /\ ProcessingState.boxes = page.boxes
  BY <1>1 DEF ProcessingState, Snapshot, Page, Disk
<1>3. run' = [at |-> "captured", snapshot |-> ProcessingState, found |-> {}, cache |-> FALSE,
              base |-> {}, result |-> {}]
  BY DEF Capture
<1>4. run' \in RunRecord /\ run'.snapshot = ProcessingState /\ run'.found = {}
  BY <1>2, <1>3 DEF RunRecord
<1>5. RunOK'
  BY <1>1, <1>2, <1>4 DEF RunOK, Capture, Distinct
<1> QED
  BY <1>4, <1>5, RunStep DEF Capture

\* What becomes of a detection: it is one box, where the known one is, removed if that one was.
LEMMA RecognisedOK ==
  ASSUME NEW known \in SUBSET Box, Distinct(known), NEW p \in Place, NEW art
  PROVE  /\ \A c \in Recognised(p, known, art) : c \in Box /\ ~c.manual /\ c.from = p
         /\ \A c, d \in Recognised(p, known, art) : c = d
         /\ \A b \in known, c \in Recognised(p, known, art) :
              ~b.manual /\ b.from = p => c.at = b.at /\ (b.removed => c.removed)
<1> DEFINE old == {b \in known : ~b.manual /\ b.from = p}
           fresh == [from |-> p, at |-> p, manual |-> FALSE, removed |-> p \in art]
<1>1. CASE old = {}
  <2>1. Recognised(p, known, art) = {fresh}
    BY <1>1 DEF Recognised
  <2>2. fresh \in Box /\ ~fresh.manual /\ fresh.from = p
    BY DEF Box
  <2> QED
    BY <1>1, <2>1, <2>2
<1>2. CASE old # {}
  <2>1. PICK b \in old : TRUE
    BY <1>2
  <2>2. old = {b}
    BY <2>1 DEF Distinct
  <2> DEFINE changed == [b EXCEPT !.removed = @ \/ p \in art]
  <2>3. Recognised(p, known, art) = {changed}
    BY <1>2, <2>2 DEF Recognised
  <2>4. b \in Box /\ ~b.manual /\ b.from = p
    BY <2>1
  <2>5. /\ changed \in Box /\ ~changed.manual /\ changed.from = p /\ changed.at = b.at
        /\ b.removed => changed.removed
    BY <2>4 DEF Box
  <2> HIDE DEF changed
  <2> QED
    BY <2>2, <2>3, <2>5
<1> QED
  BY <1>1, <1>2

\* Detection finds at most one box at a place and none that a user removed.
LEMMA DetectStep == ASSUME BoxInv, Detect PROVE BoxInv'
<1>1. PICK places \in SUBSET Place : \E art \in SUBSET places :
        LET known == run.snapshot.boxes
            found == UNION {Recognised(p, known, art) : p \in places}
            base == Inpaint(found \cup {b \in known : b.manual}, run.snapshot.preserve)
        IN  run' = [run EXCEPT !.at = "detected", !.found = found, !.base = base,
                               !.cache = disk.cached \/ disk.mask # {}]
  BY DEF Detect
<1>2. PICK art \in SUBSET places :
        LET known == run.snapshot.boxes
            found == UNION {Recognised(p, known, art) : p \in places}
            base == Inpaint(found \cup {b \in known : b.manual}, run.snapshot.preserve)
        IN  run' = [run EXCEPT !.at = "detected", !.found = found, !.base = base,
                               !.cache = disk.cached \/ disk.mask # {}]
  BY <1>1
<1> DEFINE known == run.snapshot.boxes
           found == UNION {Recognised(p, known, art) : p \in places}
           base == Inpaint(found \cup {b \in known : b.manual}, run.snapshot.preserve)
           cache == disk.cached \/ disk.mask # {}
<1>3. run \in RunRecord /\ ~run.snapshot.skipped /\ Distinct(known)
  BY DEF BoxInv, Typed, RunOK, Detect
<1>4. known \in SUBSET Box
  BY <1>3 DEF RunRecord, Snapshot
<1>5. \A p \in places :
        /\ \A c \in Recognised(p, known, art) : c \in Box /\ ~c.manual /\ c.from = p
        /\ \A c, d \in Recognised(p, known, art) : c = d
        /\ \A b \in known, c \in Recognised(p, known, art) :
             ~b.manual /\ b.from = p => c.at = b.at /\ (b.removed => c.removed)
  BY <1>3, <1>4, RecognisedOK
<1>6. \A c \in found : \E p \in places : c \in Recognised(p, known, art)
  OBVIOUS
<1>7. run' = [run EXCEPT !.at = "detected", !.found = found, !.base = base, !.cache = cache]
  BY <1>2
<1> HIDE DEF known, found, cache
<1>8. found \in SUBSET Box /\ (\A c \in found : ~c.manual) /\ Distinct(found)
  BY <1>5, <1>6 DEF Distinct
<1>9. \A b \in known, c \in found :
        ~b.manual /\ b.from = c.from => c.at = b.at /\ (b.removed => c.removed)
  BY <1>5, <1>6
<1>10. base \in SUBSET Place
  BY <1>4, <1>8, InpaintTyped
<1>11. cache \in BOOLEAN
  BY DEF cache
<1> HIDE DEF base
<1>12. run' \in RunRecord /\ run'.snapshot = run.snapshot /\ run'.found = found
  BY <1>3, <1>7, <1>8, <1>10, <1>11 DEF RunRecord
<1>13. RunOK'
  BY <1>3, <1>8, <1>9, <1>12 DEF RunOK, known
<1> QED
  BY <1>12, <1>13, RunStep DEF Detect

\* Reading the masks changes the image only.
LEMMA ReadStep ==
  ASSUME BoxInv, run # NoRun, UNCHANGED <<page, disk, edit, begun>>,
         NEW a \in {"stroked", "done"}, NEW S \in SUBSET Place,
         run' = [run EXCEPT !.at = a, !.result = S]
  PROVE  BoxInv'
<1>1. run \in RunRecord
  BY DEF BoxInv, Typed
<1>2. run' \in RunRecord /\ run'.snapshot = run.snapshot /\ run'.found = run.found
  BY <1>1 DEF RunRecord
<1>3. RunOK'
  BY <1>2 DEF BoxInv, RunOK
<1> QED
  BY <1>2, <1>3, RunStep

\* The strokes are read.
LEMMA ReadStrokesStep == ASSUME BoxInv, ReadStrokes PROVE BoxInv'
<1>1. run.base \cup (disk.mask \ run.snapshot.preserve) \in SUBSET Place
  BY DEF BoxInv, Typed, RunRecord, Disk, ReadStrokes
<1> QED
  BY <1>1, ReadStep DEF ReadStrokes

\* The restore mask is read.
LEMMA ReadRestoreStep == ASSUME BoxInv, ReadRestore PROVE BoxInv'
<1>1. run.result \ disk.restore \in SUBSET Place
  BY DEF BoxInv, Typed, RunRecord, ReadRestore
<1> QED
  BY <1>1, ReadStep DEF ReadRestore

\* A commit that is not discarded: the page still is as the run found it.
LEMMA DeliverPage ==
  ASSUME BoxInv, CommitProcessedPage, Current
  PROVE  /\ run \in RunRecord /\ run.snapshot.boxes = page.boxes /\ disk' \in Disk
         /\ page' \in Page /\ ~page'.skipped
         /\ page'.boxes = run.found \cup {b \in page.boxes : b.manual}
<1>1. page \in Page /\ disk \in Disk /\ run \in RunRecord
  BY DEF BoxInv, Typed, CommitProcessedPage
<1>2. run.snapshot.skipped = page.skipped /\ run.snapshot.boxes = page.boxes
  BY DEF Current, ProcessingState
<1>3. ~page.skipped
  BY <1>2 DEF BoxInv, RunOK, CommitProcessedPage
<1> DEFINE B == run.found \cup {b \in page.boxes : b.manual}
<1>4. B \in SUBSET Box /\ page.revision + 1 \in Nat
  BY <1>1 DEF Page, RunRecord
<1>5. page' = [page EXCEPT !.boxes = B, !.required = FALSE, !.clean = TRUE,
                           !.revision = page.revision + 1]
  BY DEF CommitProcessedPage, Deliver
<1> HIDE DEF B
<1>6. page' \in Page /\ page'.skipped = page.skipped /\ page'.boxes = B
  BY <1>1, <1>4, <1>5 DEF Page
<1>7. disk' \in Disk
  <2> DEFINE cached == disk.cached \/ run.cache
             auto == IF run.cache THEN run.base ELSE disk.auto
  <2>1. cached \in BOOLEAN /\ auto \in SUBSET Place /\ run.result \in SUBSET Place
    BY <1>1 DEF Disk, RunRecord
  <2>2. disk' = [disk EXCEPT !.clean = run.result, !.cached = cached, !.auto = auto]
    BY DEF CommitProcessedPage, Deliver
  <2> HIDE DEF cached, auto
  <2> QED
    BY <1>1, <2>1, <2>2 DEF Disk
<1> QED
  BY <1>1, <1>2, <1>3, <1>6, <1>7 DEF B

\* The run's commit, kept or discarded.
LEMMA CommitRunStep == ASSUME BoxInv, CommitProcessedPage PROVE BoxInv'
<1>1. edit = NoEdit /\ run' = NoRun /\ UNCHANGED <<edit, begun>>
  BY DEF CommitProcessedPage, Unlocked
<1>2. CASE ~Current
  BY <1>1, <1>2, RunStep DEF CommitProcessedPage, RunOK
<1>3. CASE Current
  <2>1. /\ run \in RunRecord /\ run.snapshot.boxes = page.boxes /\ disk' \in Disk
        /\ page' \in Page /\ ~page'.skipped
        /\ page'.boxes = run.found \cup {b \in page.boxes : b.manual}
    BY <1>3, DeliverPage
  <2>2. Distinct(run.found) /\ \A c \in run.found : ~c.manual
    BY DEF BoxInv, RunOK, CommitProcessedPage
  <2>3. Distinct(page.boxes)'
    BY <2>1, <2>2 DEF Distinct
  <2> QED
    BY <1>1, <2>1, <2>3 DEF BoxInv, Typed, SkippedHasNoDetections, EditOK, RunOK
<1> QED
  BY <1>2, <1>3

\* A run that fails leaves nothing.
LEMMA FailRunStep == ASSUME BoxInv, FailRun PROVE BoxInv'
  BY RunStep DEF FailRun, RunOK
-----------------------------------------------------------------------------
\* Every step keeps the invariant.
LEMMA BoxStep == BoxInv /\ [NextFailing]_vars => BoxInv'
<1> SUFFICES ASSUME BoxInv, [NextFailing]_vars PROVE BoxInv'
  OBVIOUS
<1>1. CASE BeginEdit
  BY <1>1, AddStep, MoveStep, RemoveStep, PreserveStep, FixStep, RepaintStep, RestoreStep,
     ResetStep DEF BeginEdit
<1>2. CASE EditSteps \/ RollBackEdit
  BY <1>2, PaintStep, PlaceMaskStep, CommitEditStep, RollBackStep DEF EditSteps
<1>3. CASE PageChanges
  BY <1>3, SkipStep, UnskipStep, SetPreserveStep DEF PageChanges
<1>4. CASE Capture \/ RunSteps
  BY <1>4, CaptureStep, DetectStep, ReadStrokesStep, ReadRestoreStep, CommitRunStep,
     FailRunStep DEF RunSteps
<1>5. CASE UNCHANGED vars
  BY <1>5 DEF vars, BoxInv, Typed, SkippedHasNoDetections, EditOK, PlanOK, RunOK
<1> QED
  BY <1>1, <1>2, <1>3, <1>4, <1>5 DEF NextFailing, Next

\* Whether edits fail or not, the invariant holds.
LEMMA BoxInvariance == SpecFailing => []BoxInv
  BY BoxInit, BoxStep, PTL DEF SpecFailing

\* A step of EditsSpec is one of a page whose edits may fail.
LEMMA EditsAreSteps == [EditsNext]_<<vars, apart, late>> => [NextFailing]_vars
  BY DEF EditsNext, NextFailing

\* A page whose edits all succeed behaves as one whose edits may fail, and so does one whose
\* edits and runs are apart.
LEMMA FewerFailures == Spec => SpecFailing
<1>1. [Next]_vars => [NextFailing]_vars
  BY DEF NextFailing
<1> QED
  BY <1>1, PTL DEF Spec, SpecFailing

LEMMA EditsMayFail == EditsSpec => SpecFailing
<1>1. EditsInit => Init
  BY DEF EditsInit
<1>2. [EditsNext]_<<vars, apart, late>> => [NextFailing]_vars
  BY EditsAreSteps
<1> QED
  BY <1>1, <1>2, PTL DEF EditsSpec, SpecFailing
-----------------------------------------------------------------------------
(* Boxes from one state to the next. *)

\* A step that keeps the boxes keeps both promises about them.
LEMMA SameBoxes ==
  ASSUME BoxInv, page'.boxes = page.boxes
  PROVE  /\ \A b \in page.boxes : b.manual => \E c \in page'.boxes : c.manual /\ c.from = b.from
         /\ \A b \in page.boxes, c \in page'.boxes :
              ~b.manual /\ ~c.manual /\ b.from = c.from /\ b.removed => c.removed
  BY DEF BoxInv, Distinct

\* The only steps that change the boxes are two commits and skipping.
LEMMA WhoChangesBoxes ==
  ASSUME BoxInv, [NextFailing]_vars
  PROVE  \/ page'.boxes = page.boxes
         \/ Skip
         \/ CommitEdit
         \/ CommitProcessedPage /\ Current
<1> USE DEF Begin
<1>1. CASE BeginEdit
  BY <1>1 DEF BeginEdit, AddManualBoxes, UpdateBox, RemoveBox, PreserveAndReinpaint,
              ApplyReviewFixes, RepaintMask, RestoreMask, ResetManualMask
<1>2. CASE EditSteps \/ RollBackEdit
  BY <1>2 DEF EditSteps, Paint, PlaceMask, RollBackEdit
<1>3. CASE PageChanges
  BY <1>3 DEF PageChanges, Unskip, SetPreserveRegions, BoxInv, Typed, Page
<1>4. CASE Capture \/ RunSteps
  BY <1>4 DEF RunSteps, Capture, Detect, ReadStrokes, ReadRestore, CommitProcessedPage, FailRun
<1>5. CASE UNCHANGED vars
  BY <1>5 DEF vars
<1> QED
  BY <1>1, <1>2, <1>3, <1>4, <1>5 DEF NextFailing, Next

\* One step drops no manual box, except by skipping the page.
LEMMA ManualStep ==
  ASSUME BoxInv, [NextFailing]_vars, NEW b \in page.boxes, b.manual
  PROVE  page'.skipped \/ \E c \in page'.boxes : c.manual /\ c.from = b.from
<1>1. CASE page'.boxes = page.boxes
  BY <1>1, SameBoxes
<1>2. CASE Skip
  <2>1. page \in Page
    BY DEF BoxInv, Typed
  <2> QED
    BY <1>2, <2>1 DEF Skip, Page
<1>3. CASE CommitEdit
  BY <1>3, CommitEditPage DEF PlanOK
<1>4. CASE CommitProcessedPage /\ Current
  BY <1>4, DeliverPage
<1> QED
  BY <1>1, <1>2, <1>3, <1>4, WhoChangesBoxes

\* One step brings no removed detection back.
LEMMA RemovedStep ==
  ASSUME BoxInv, [NextFailing]_vars, NEW b \in page.boxes, NEW c \in page'.boxes,
         ~b.manual, ~c.manual, b.from = c.from, b.removed
  PROVE  c.removed
<1>1. CASE page'.boxes = page.boxes
  BY <1>1, SameBoxes
<1>2. CASE Skip
  <2>1. page \in Page
    BY DEF BoxInv, Typed
  <2> QED
    BY <1>2, <2>1 DEF Skip, Page
<1>3. CASE CommitEdit
  BY <1>3, CommitEditPage DEF PlanOK, BoxInv, Distinct
<1>4. CASE CommitProcessedPage /\ Current
  BY <1>4, DeliverPage DEF BoxInv, RunOK, CommitProcessedPage
<1> QED
  BY <1>1, <1>2, <1>3, <1>4, WhoChangesBoxes

\* A step that ends a run and changes the page is its commit, of a page that is as it was.
LEMMA WhoEndsRuns ==
  ASSUME BoxInv, [NextFailing]_vars, run # NoRun, run' = NoRun, page' # page
  PROVE  CommitProcessedPage /\ Current
<1>1. CASE BeginEdit
  BY <1>1 DEF BeginEdit, AddManualBoxes, UpdateBox, RemoveBox, PreserveAndReinpaint, Begin,
              ApplyReviewFixes, RepaintMask, RestoreMask, ResetManualMask
<1>2. CASE EditSteps \/ RollBackEdit \/ PageChanges
  BY <1>2 DEF EditSteps, Paint, PlaceMask, CommitEdit, RollBackEdit, PageChanges, Skip, Unskip,
              SetPreserveRegions
<1>3. CASE Capture \/ RunSteps
  BY <1>3 DEF RunSteps, Capture, Detect, ReadStrokes, ReadRestore, CommitProcessedPage, FailRun
<1>4. CASE UNCHANGED vars
  BY <1>4 DEF vars
<1> QED
  BY <1>1, <1>2, <1>3, <1>4 DEF NextFailing, Next

\* A commit moves no box.
LEMMA MovedStep ==
  ASSUME BoxInv, [NextFailing]_vars, run # NoRun, run' = NoRun, page' # page
  PROVE  /\ \A b \in page.boxes : b.manual => b \in page'.boxes
         /\ \A b \in page.boxes, c \in page'.boxes :
              ~b.manual /\ ~c.manual /\ b.from = c.from => c.at = b.at
<1>1. CommitProcessedPage /\ Current
  BY WhoEndsRuns
<1>2. /\ run.snapshot.boxes = page.boxes
      /\ page'.boxes = run.found \cup {b \in page.boxes : b.manual}
  BY <1>1, DeliverPage
<1>3. \A b \in page.boxes, c \in run.found : ~b.manual /\ b.from = c.from => c.at = b.at
  BY <1>2 DEF BoxInv, RunOK
<1> QED
  BY <1>2, <1>3
-----------------------------------------------------------------------------
\* The record, the files, the edit and the run keep their types.
THEOREM EditingTypeCorrect == SpecFailing => []TypeOK
<1>1. BoxInv => TypeOK
  BY DEF BoxInv, Typed, TypeOK, EditRecord, RunRecord, Snapshot
<1> QED
  BY <1>1, BoxInvariance, PTL

\* No other writer of clean_revision comes between an edit's snapshot and its commit, so the
\* error of pipeline_editing.py:670 is never raised.
THEOREM RevisionIsHeld == SpecFailing => []RevisionHeld
<1>1. BoxInv => RevisionHeld
  BY DEF BoxInv, Typed, EditOK, PlanOK, RevisionHeld, Page
<1> QED
  BY <1>1, BoxInvariance, PTL

\* A page that is skipped has no detections, whichever run was under way (pipeline.py:771).
THEOREM SkippedPagesAreBare == SpecFailing => []SkippedHasNoDetections
<1>1. BoxInv => SkippedHasNoDetections
  BY DEF BoxInv
<1> QED
  BY <1>1, BoxInvariance, PTL

\* The page stays well formed while users edit and skip it and a run is under way
\* (manifest_utils.py:500, pipeline_editing.py:670, pipeline.py:771).
THEOREM PageIsSound == SpecFailing => []PageOK
<1>1. TypeOK /\ RevisionHeld /\ SkippedHasNoDetections => PageOK
  BY DEF PageOK
<1> QED
  BY <1>1, EditingTypeCorrect, RevisionIsHeld, SkippedPagesAreBare, PTL

\* Only skipping a page drops a manual box (pipeline.py:497).
THEOREM ManualBoxesSurvive == SpecFailing => ManualBoxesKept
<1>1. BoxInv /\ [NextFailing]_vars =>
        [\A b \in page.boxes :
           b.manual => page'.skipped \/ \E c \in page'.boxes : c.manual /\ c.from = b.from]_vars
  BY ManualStep
<1> QED
  BY <1>1, BoxInvariance, PTL DEF ManualBoxesKept, SpecFailing

\* A detection a user removed is not shown again by the next run, if that one finds it, nor by an
\* edit (page_processing.py:137).
THEOREM RemovedDetectionsStay == SpecFailing => RemovedStaysRemoved
<1>1. BoxInv /\ [NextFailing]_vars =>
        [\A b \in page.boxes, c \in page'.boxes :
           ~b.manual /\ ~c.manual /\ b.from = c.from /\ b.removed => c.removed]_vars
  BY RemovedStep
<1> QED
  BY <1>1, BoxInvariance, PTL DEF RemovedStaysRemoved, SpecFailing

\* A run's commit moves no box of a user and no detection that it finds again
\* (pipeline.py:497, page_processing.py:141).
THEOREM BoxesStayPut == SpecFailing => RunsMoveNothing
<1>1. BoxInv /\ [NextFailing]_vars =>
        [run # NoRun /\ run' = NoRun /\ page' # page =>
           /\ \A b \in page.boxes : b.manual => b \in page'.boxes
           /\ \A b \in page.boxes, c \in page'.boxes :
                ~b.manual /\ ~c.manual /\ b.from = c.from => c.at = b.at]_vars
  BY MovedStep
<1> QED
  BY <1>1, BoxInvariance, PTL DEF RunsMoveNothing, SpecFailing

\* What users decided about boxes holds against edits and runs: manual boxes are kept where they
\* were put, and a detection keeps its removal and its place as long as each run finds it
\* (pipeline.py:497, page_processing.py:137).
THEOREM DecisionsSurvive == SpecFailing => DecisionsKept
  BY ManualBoxesSurvive, RemovedDetectionsStay, BoxesStayPut DEF DecisionsKept
-----------------------------------------------------------------------------
(* The images, where edits and runs are apart or leave a trace.             *)

\* The files are the ones the page asks for, should it count as cleaned.
Right(d) ==
  Processed =>
    /\ d.clean = ((Inpaint(page.boxes, {}) \cup d.mask) \ page.preserve) \ d.restore
    /\ d.cached => d.auto = Inpaint(page.boxes, page.preserve)

\* What the restore brush leaves, an edit left: it wrote the cached clean before.
Based(d) == d.restore # {} => d.cached

\* Files no later than the edits begun.
Dated(d) == d.stamp <= begun

PageFits ==
  /\ Active => page.clean
  /\ Based(disk) /\ Dated(disk)
  /\ edit = NoEdit => late \/ Right(disk)

\* What the plan of an edit keeps, and what of it may start from the cached clean.
PlanKeeps(e) ==
  /\ e.boxes = page.boxes
  /\ e.kind \notin {"preserve", "fix"} => e.preserve = page.preserve
  /\ e.reuse => e.out = {} /\ e.in = {} /\ e.preserve = page.preserve /\ Active
  /\ ~e.strokes => e.mask = {} /\ e.restore = {} /\ e.reuse
  /\ Based(e.saved) /\ Dated(e.saved) /\ Dated(e)
  /\ late \/ Right(e.saved)

\* An edit that runs notice replaces the mask by one with a later stamp, or not at all.
PlanShows(e) ==
  /\ e.kind \in NoticedEdits
  /\ e.saved.restore = {} /\ e.restore = {}
  /\ e.stamp = e.saved.stamp => e.mask = e.saved.mask
  /\ e.saved.stamp <= e.stamp

\* How far the edit has come with the files.
Written(e) ==
  /\ e.step = "begun" => disk = e.saved
  /\ e.step = "painted" => disk.mask = e.saved.mask /\ disk.stamp = e.saved.stamp
  /\ e.step = "masked" =>
       disk.mask = e.mask /\ disk.stamp = e.stamp /\ disk.restore = e.restore
  /\ e.step # "begun" =>
       /\ disk.cached
       /\ late \/
            /\ disk.auto = Inpaint(PlanBoxes(e), e.preserve)
            /\ disk.clean = ((Inpaint(PlanBoxes(e), {}) \cup e.mask) \ e.preserve) \ e.restore

EditFits == edit # NoEdit => PlanKeeps(edit) /\ (apart \/ PlanShows(edit)) /\ Written(edit)

\* The base of a run is the box inpaint of what it found.
RunBase(r) ==
  r.base = Inpaint(r.found \cup {b \in r.snapshot.boxes : b.manual}, r.snapshot.preserve)

\* What a run has read is what is on disk, unless it will be discarded.
RunReads(r) ==
  apart \/ disk.stamp = r.snapshot.stamp =>
    /\ r.at = "stroked" => r.result = r.base \cup (disk.mask \ r.snapshot.preserve)
    /\ r.at = "done" =>
         r.result = (r.base \cup (disk.mask \ r.snapshot.preserve)) \ disk.restore

RunFits ==
  run # NoRun =>
    /\ run.at # "captured" => RunBase(run)
    /\ RunReads(run)
    /\ apart => edit = NoEdit /\ (run.at # "captured" /\ disk.cached => run.cache)
    /\ ~apart => run.snapshot.stamp <= disk.stamp

\* The inductive invariant of the images.
ImageInv ==
  /\ apart \in BOOLEAN /\ late \in BOOLEAN
  /\ late => ~apart
  /\ ~apart => disk.restore = {}
  /\ PageFits
  /\ EditFits
  /\ RunFits

-----------------------------------------------------------------------------
\* An initial page satisfies the invariant.
LEMMA ImageInit == EditsInit => ImageInv
<1> SUFFICES ASSUME EditsInit PROVE ImageInv
  OBVIOUS
<1>1. /\ page.required /\ disk.restore = {} /\ disk.stamp = 0
      /\ edit = NoEdit /\ run = NoRun /\ begun = 0 /\ apart \in BOOLEAN /\ late = FALSE
  BY DEF EditsInit, Init
<1>2. PageFits
  BY <1>1 DEF PageFits, Active, Based, Dated, Right, Processed
<1> QED
  BY <1>1, <1>2 DEF ImageInv, EditFits, RunFits

\* What is outside the preserve regions is outside them either way.
LEMMA InpaintCut == ASSUME NEW S, NEW R PROVE Inpaint(S, R) = Inpaint(S, {}) \ R
  BY DEF Inpaint

\* What a new plan keeps of the page and its files.
NewPlan(e) ==
  /\ e.step = "begun" /\ e.saved = disk /\ e.boxes = page.boxes
  /\ e.kind \notin {"preserve", "fix"} => e.preserve = page.preserve
  /\ e.reuse => e.out = {} /\ e.in = {} /\ e.preserve = page.preserve /\ Active
  /\ ~e.strokes => e.mask = {} /\ e.restore = {} /\ e.reuse
  /\ e.stamp <= begun + 1
  /\ e.kind \in NoticedEdits =>
       /\ e.restore \subseteq disk.restore
       /\ e.stamp = disk.stamp => e.mask = disk.mask
       /\ disk.stamp <= e.stamp

\* The plan of an add.
LEMMA AddPlans ==
  ASSUME BoxInv, ImageInv, AddManualBoxes
  PROVE  \E e \in EditRecord : Begin(e) /\ NewPlan(e)
<1>1. PICK S \in SUBSET Free : Begin([Plan("add") EXCEPT !.in = NewBoxes(S)])
  BY DEF AddManualBoxes
<1> DEFINE e == [Plan("add") EXCEPT !.in = NewBoxes(S)]
<1>2. NewBoxes(S) \in SUBSET Box
  BY NewBoxesOK DEF Free
<1>3. Plan("add") \in EditRecord
  BY PlanTyped DEF BoxInv, EditKinds
<1>4. begun \in Nat /\ disk \in Disk /\ disk.stamp <= begun
  BY EditingAssumption DEF BoxInv, Typed, ImageInv, PageFits, Dated
<1>5. e \in EditRecord
  BY <1>2, <1>3 DEF EditRecord
<1>6. NewPlan(e)
  BY <1>3, <1>4 DEF NewPlan, EditRecord, Plan, Disk
<1> QED
  BY <1>1, <1>5, <1>6

\* The plan of a move.
LEMMA MovePlans ==
  ASSUME BoxInv, ImageInv, UpdateBox
  PROVE  \E e \in EditRecord : Begin(e) /\ NewPlan(e)
<1>1. PICK b \in page.boxes, p \in Place :
        Begin([Plan("move") EXCEPT !.out = {b}, !.in = {[b EXCEPT !.at = p]}])
  BY DEF UpdateBox
<1> DEFINE c == [b EXCEPT !.at = p]
           e == [Plan("move") EXCEPT !.out = {b}, !.in = {c}]
<1>2. b \in Box /\ c \in Box
  BY DEF BoxInv, Typed, Page, Box
<1>3. Plan("move") \in EditRecord
  BY PlanTyped DEF BoxInv, EditKinds
<1>4. begun \in Nat /\ disk \in Disk /\ disk.stamp <= begun
  BY EditingAssumption DEF BoxInv, Typed, ImageInv, PageFits, Dated
<1> HIDE DEF c
<1>5. e \in EditRecord
  BY <1>2, <1>3 DEF EditRecord
<1>6. NewPlan(e)
  BY <1>3, <1>4 DEF NewPlan, EditRecord, Plan, Disk
<1> QED
  BY <1>1, <1>5, <1>6 DEF c

\* The plan of a removal.
LEMMA RemovePlans ==
  ASSUME BoxInv, ImageInv, RemoveBox
  PROVE  \E e \in EditRecord : Begin(e) /\ NewPlan(e)
<1>1. PICK b \in page.boxes :
        Begin([Plan("remove") EXCEPT !.out = {b}, !.in = {[b EXCEPT !.removed = TRUE]}])
  BY DEF RemoveBox
<1> DEFINE c == [b EXCEPT !.removed = TRUE]
           e == [Plan("remove") EXCEPT !.out = {b}, !.in = {c}]
<1>2. b \in Box /\ c \in Box
  BY DEF BoxInv, Typed, Page, Box
<1>3. Plan("remove") \in EditRecord
  BY PlanTyped DEF BoxInv, EditKinds
<1>4. begun \in Nat /\ disk \in Disk /\ disk.stamp <= begun
  BY EditingAssumption DEF BoxInv, Typed, ImageInv, PageFits, Dated
<1> HIDE DEF c
<1>5. e \in EditRecord
  BY <1>2, <1>3 DEF EditRecord
<1>6. NewPlan(e)
  BY <1>3, <1>4 DEF NewPlan, EditRecord, Plan, Disk
<1> QED
  BY <1>1, <1>5, <1>6 DEF c

\* The plan of a preserve.
LEMMA PreservePlans ==
  ASSUME BoxInv, ImageInv, PreserveAndReinpaint
  PROVE  \E e \in EditRecord : Begin(e) /\ NewPlan(e)
<1>1. PICK S \in SUBSET Place : Begin([Plan("preserve") EXCEPT !.preserve = @ \cup S])
  BY DEF PreserveAndReinpaint, Unpreserved
<1> DEFINE e == [Plan("preserve") EXCEPT !.preserve = @ \cup S]
<1>2. Plan("preserve") \in EditRecord
  BY PlanTyped DEF BoxInv, EditKinds
<1>3. begun \in Nat /\ disk \in Disk /\ disk.stamp <= begun
  BY EditingAssumption DEF BoxInv, Typed, ImageInv, PageFits, Dated
<1>4. e \in EditRecord
  BY <1>2 DEF EditRecord
<1>5. NewPlan(e)
  BY <1>2, <1>3 DEF NewPlan, EditRecord, Plan, Disk
<1> QED
  BY <1>1, <1>4, <1>5

\* The plan of review fixes: it may reuse the cached clean only if nothing but the mask changes.
LEMMA FixPlans ==
  ASSUME BoxInv, ImageInv, ApplyReviewFixes
  PROVE  \E e \in EditRecord : Begin(e) /\ NewPlan(e)
<1>1. PICK keep \in SUBSET Unpreserved, new \in SUBSET Free, again \in SUBSET Place :
        LET preserve == page.preserve \cup keep
            painted == (disk.mask \cup again) \ preserve
            mask == IF again = {} THEN {} ELSE painted
        IN  Begin([Plan("fix") EXCEPT !.preserve = preserve, !.in = NewBoxes(new),
                     !.mask = IF mask = {} THEN @ ELSE mask,
                     !.stamp = IF mask = {} THEN @ ELSE begun + 1,
                     !.reuse = keep = {} /\ new = {}])
  BY DEF ApplyReviewFixes
<1> DEFINE preserve == page.preserve \cup keep
           painted == (disk.mask \cup again) \ preserve
           mask == IF again = {} THEN {} ELSE painted
           in == NewBoxes(new)
           reuse == keep = {} /\ new = {}
           newMask == IF mask = {} THEN Plan("fix").mask ELSE mask
           newStamp == IF mask = {} THEN Plan("fix").stamp ELSE begun + 1
           e == [Plan("fix") EXCEPT !.preserve = preserve, !.in = in, !.mask = newMask,
                   !.stamp = newStamp, !.reuse = reuse]
<1>2. in \in SUBSET Box
  BY NewBoxesOK DEF Free
<1>3. Plan("fix") \in EditRecord
  BY PlanTyped DEF BoxInv, EditKinds
<1>4. preserve \in SUBSET Place /\ mask \in SUBSET Place /\ begun + 1 \in Nat
  BY EditingAssumption DEF BoxInv, Typed, Page, Disk, Unpreserved
<1>5. begun \in Nat /\ disk \in Disk /\ disk.stamp <= begun
  BY EditingAssumption DEF BoxInv, Typed, ImageInv, PageFits, Dated
<1>6. reuse \in BOOLEAN /\ (reuse => in = {} /\ preserve = page.preserve)
  BY DEF NewBoxes
<1>7. Active
  BY DEF ApplyReviewFixes, Processed
<1>8. Begin(e)
  BY <1>1
<1> HIDE DEF preserve, mask, in, reuse
<1>9. e \in EditRecord
  <2>1. newMask \in SUBSET Place /\ newStamp \in Nat
    BY <1>3, <1>4 DEF EditRecord
  <2> HIDE DEF newMask, newStamp
  <2> QED BY <1>2, <1>3, <1>4, <1>6, <2>1 DEF EditRecord
<1>10. NewPlan(e)
  BY <1>3, <1>4, <1>5, <1>6, <1>7 DEF NewPlan, EditRecord, Plan, Disk
<1> QED
  BY <1>8, <1>9, <1>10

\* The plan of a repaint.
LEMMA RepaintPlans ==
  ASSUME BoxInv, ImageInv, RepaintMask
  PROVE  \E e \in EditRecord : Begin(e) /\ NewPlan(e)
<1>1. PICK S \in SUBSET Place :
        Begin([Plan("repaint") EXCEPT !.mask = (@ \ page.preserve) \cup (S \ page.preserve),
                 !.stamp = begun + 1, !.restore = @ \ (S \ page.preserve), !.reuse = TRUE])
  BY DEF RepaintMask
<1> DEFINE mask == (Plan("repaint").mask \ page.preserve) \cup (S \ page.preserve)
           restore == Plan("repaint").restore \ (S \ page.preserve)
           e == [Plan("repaint") EXCEPT !.mask = mask, !.stamp = begun + 1,
                   !.restore = restore, !.reuse = TRUE]
<1>2. Plan("repaint") \in EditRecord
  BY PlanTyped DEF BoxInv, EditKinds
<1>3. begun \in Nat /\ begun + 1 \in Nat /\ disk \in Disk /\ disk.stamp <= begun
  BY EditingAssumption DEF BoxInv, Typed, ImageInv, PageFits, Dated
<1>4. Active
  BY DEF RepaintMask
<1>5. e \in EditRecord
  <2>1. mask \in SUBSET Place /\ restore \in SUBSET Place
    BY <1>2 DEF EditRecord
  <2> HIDE DEF mask, restore
  <2> QED BY <1>2, <1>3, <2>1 DEF EditRecord
<1>6. NewPlan(e)
  BY <1>2, <1>3, <1>4 DEF NewPlan, EditRecord, Plan, Disk
<1> QED
  BY <1>1, <1>5, <1>6

\* The plan of a restore: no run would notice it.
LEMMA RestorePlans ==
  ASSUME BoxInv, ImageInv, RestoreMask
  PROVE  \E e \in EditRecord : Begin(e) /\ NewPlan(e)
<1>1. PICK S \in SUBSET Place :
        Begin([Plan("restore") EXCEPT !.restore = @ \cup S, !.reuse = TRUE])
  BY DEF RestoreMask
<1> DEFINE e == [Plan("restore") EXCEPT !.restore = @ \cup S, !.reuse = TRUE]
<1>2. Plan("restore") \in EditRecord
  BY PlanTyped DEF BoxInv, EditKinds
<1>3. begun \in Nat /\ disk \in Disk /\ disk.stamp <= begun
  BY EditingAssumption DEF BoxInv, Typed, ImageInv, PageFits, Dated
<1>4. Active
  BY DEF RestoreMask
<1>5. e \in EditRecord
  BY <1>2 DEF EditRecord
<1>6. NewPlan(e)
  BY <1>2, <1>3, <1>4 DEF NewPlan, EditRecord, Plan, Disk, NoticedEdits
<1> QED
  BY <1>1, <1>5, <1>6

\* The plan of a reset: no strokes, and a stamp that an earlier page may have had.
LEMMA ResetPlans ==
  ASSUME BoxInv, ImageInv, ResetManualMask
  PROVE  \E e \in EditRecord : Begin(e) /\ NewPlan(e)
<1> DEFINE e == [Plan("reset") EXCEPT !.mask = {}, !.stamp = 0, !.restore = {}, !.reuse = TRUE,
                                      !.strokes = FALSE]
<1>1. Begin(e) /\ Active
  BY DEF ResetManualMask
<1>2. Plan("reset") \in EditRecord
  BY PlanTyped DEF BoxInv, EditKinds
<1>3. begun \in Nat /\ disk \in Disk /\ disk.stamp <= begun
  BY EditingAssumption DEF BoxInv, Typed, ImageInv, PageFits, Dated
<1>4. e \in EditRecord
  BY <1>2 DEF EditRecord
<1>5. NewPlan(e)
  BY <1>1, <1>2, <1>3 DEF NewPlan, EditRecord, Plan, Disk, NoticedEdits
<1> QED
  BY <1>1, <1>4, <1>5

\* An edit begins with such a plan.
LEMMA EditPlans ==
  ASSUME BoxInv, ImageInv, BeginEdit
  PROVE  \E e \in EditRecord : Begin(e) /\ NewPlan(e)
  BY AddPlans, MovePlans, RemovePlans, PreservePlans, FixPlans, RepaintPlans, RestorePlans,
     ResetPlans DEF BeginEdit

\* With the plan made, images and files are as they were, and the plan starts from them.
LEMMA BeginImages ==
  ASSUME BoxInv, ImageInv, NEW e \in EditRecord, Begin(e), NewPlan(e),
         apart => run' = NoRun, ~apart => e.kind \in NoticedEdits, UNCHANGED <<apart, late>>
  PROVE  ImageInv'
<1>1. e # NoEdit /\ edit = NoEdit /\ edit' = e /\ begun' = begun + 1
  BY EditIsRecord DEF Begin, Unlocked
<1>2. UNCHANGED <<page, disk, run>>
  BY DEF Begin
<1>3. begun \in Nat /\ disk \in Disk
  BY EditingAssumption DEF BoxInv, Typed
<1>4. PageFits'
  BY <1>1, <1>2, <1>3 DEF ImageInv, PageFits, Active, Based, Dated, Disk
<1>5. late \/ Right(disk)
  BY <1>1 DEF ImageInv, PageFits
<1>6. Based(disk) /\ disk.stamp <= begun
  BY DEF ImageInv, PageFits, Dated
<1>7. PlanKeeps(edit)'
  <2>1. (late \/ Right(edit.saved))'
    BY <1>1, <1>2, <1>5 DEF NewPlan, Right, Processed, Active
  <2>2. Based(edit.saved)' /\ Dated(edit.saved)' /\ Dated(edit)'
    BY <1>1, <1>3, <1>6 DEF NewPlan, Based, Dated, Disk
  <2> QED
    BY <1>1, <1>2, <2>1, <2>2 DEF NewPlan, PlanKeeps, Active
<1>8. (apart \/ PlanShows(edit))'
  BY <1>1 DEF NewPlan, PlanShows, ImageInv
<1>9. Written(edit)'
  BY <1>1, <1>2 DEF NewPlan, Written
<1>10. RunFits'
  BY <1>2 DEF ImageInv, RunFits, RunReads
<1> QED
  BY <1>1, <1>2, <1>4, <1>7, <1>8, <1>9, <1>10 DEF ImageInv, EditFits

\* While an edit goes on, the page stays as it was planned on.
LEMMA PlanKept ==
  ASSUME ImageInv, edit # NoEdit, edit \in EditRecord, NEW s \in {"painted", "masked"},
         edit' = [edit EXCEPT !.step = s], UNCHANGED <<page, begun, apart, late>>
  PROVE  /\ edit' # NoEdit /\ edit'.step = s
         /\ UNCHANGED <<edit.saved, edit.mask, edit.stamp, edit.restore, edit.preserve,
                        edit.strokes, PlanBoxes(edit)>>
         /\ PlanKeeps(edit)' /\ (apart \/ PlanShows(edit))'
<1>1. edit' \in EditRecord
  BY DEF EditRecord
<1>2. /\ edit'.step = s /\ edit'.kind = edit.kind /\ edit'.saved = edit.saved
      /\ edit'.out = edit.out /\ edit'.in = edit.in /\ edit'.preserve = edit.preserve
      /\ edit'.mask = edit.mask /\ edit'.stamp = edit.stamp /\ edit'.restore = edit.restore
      /\ edit'.boxes = edit.boxes /\ edit'.reuse = edit.reuse /\ edit'.strokes = edit.strokes
  BY DEF EditRecord
<1>3. PlanKeeps(edit) /\ (apart \/ PlanShows(edit))
  BY DEF ImageInv, EditFits
<1>4. Right(edit.saved)' <=> Right(edit.saved)
  BY <1>2 DEF Right, Processed, Active
<1>5. PlanKeeps(edit)'
  BY <1>2, <1>3, <1>4 DEF PlanKeeps, Based, Dated, Active
<1>6. (apart \/ PlanShows(edit))'
  BY <1>2, <1>3 DEF PlanShows
<1> QED
  BY <1>1, <1>2, <1>5, <1>6, EditIsRecord DEF PlanBoxes

\* What an edit that reuses the cached clean, or seeds it, starts from is the box inpaint of
\* its own boxes.
LEMMA BaseIsRight ==
  ASSUME BoxInv, ImageInv, edit # NoEdit, edit.step = "begun", ~late
  PROVE  Base = Inpaint(PlanBoxes(edit), edit.preserve)
<1>1. PlanKeeps(edit) /\ disk = edit.saved
  BY DEF ImageInv, EditFits, Written
<1>2. Right(disk) /\ Based(disk)
  BY <1>1 DEF PlanKeeps
<1>3. CASE edit.reuse
  <2>1. /\ PlanBoxes(edit) = page.boxes /\ edit.preserve = page.preserve
        /\ Processed
    BY <1>1, <1>3 DEF PlanKeeps, PlanBoxes, Processed, ImageInv, PageFits
  <2>2. CASE disk.cached
    BY <1>2, <1>3, <2>1, <2>2 DEF Base, Right
  <2>3. CASE ~disk.cached /\ Seeds
    <3>1. disk.restore = {} /\ disk.mask = {}
      BY <1>2, <2>3 DEF Based, Seeds
    <3>2. disk.clean = Inpaint(page.boxes, {}) \ page.preserve
      BY <1>2, <2>1, <3>1 DEF Right
    <3> QED
      BY <1>3, <2>1, <2>3, <3>2, InpaintCut DEF Base
  <2>4. CASE ~disk.cached /\ ~Seeds
    BY <2>4 DEF Base
  <2> QED
    BY <2>2, <2>3, <2>4
<1>4. CASE ~edit.reuse
  BY <1>4 DEF Base
<1> QED
  BY <1>3, <1>4

\* The images of an edit are those of its plan.
LEMMA PaintImages ==
  ASSUME BoxInv, ImageInv, Paint, UNCHANGED <<apart, late>>
  PROVE  ImageInv'
<1>1. edit # NoEdit /\ edit.step = "begun" /\ edit \in EditRecord /\ disk \in Disk
  BY DEF Paint, BoxInv, Typed
<1>2. /\ disk'.cached /\ disk'.auto = Base /\ disk'.clean = Painted(Base)
      /\ disk'.restore = IF edit.strokes THEN edit.restore ELSE disk.restore
      /\ disk'.mask = disk.mask /\ disk'.stamp = disk.stamp
  <2> DEFINE restore == IF edit.strokes THEN edit.restore ELSE disk.restore
             painted == Painted(Base)
             base == Base
  <2>1. disk' = [disk EXCEPT !.restore = restore, !.cached = TRUE, !.auto = base,
                             !.clean = painted]
    BY DEF Paint
  <2> HIDE DEF restore, painted, base
  <2>2. /\ disk'.cached /\ disk'.auto = base /\ disk'.clean = painted
        /\ disk'.restore = restore /\ disk'.mask = disk.mask /\ disk'.stamp = disk.stamp
    BY <1>1, <2>1 DEF Disk
  <2> QED
    BY <2>2 DEF restore, painted, base
<1>3. edit' = [edit EXCEPT !.step = "painted"] /\ UNCHANGED <<page, run, begun>>
  BY DEF Paint
<1>4. /\ edit' # NoEdit /\ edit'.step = "painted"
      /\ UNCHANGED <<edit.saved, edit.mask, edit.stamp, edit.restore, edit.preserve,
                     edit.strokes, PlanBoxes(edit)>>
      /\ PlanKeeps(edit)' /\ (apart \/ PlanShows(edit))'
  BY <1>1, <1>3, PlanKept
<1>5. PlanKeeps(edit) /\ disk = edit.saved /\ (apart \/ PlanShows(edit))
  BY <1>1 DEF ImageInv, EditFits, Written
<1>6. late \/ Base = Inpaint(PlanBoxes(edit), edit.preserve)
  BY <1>1, BaseIsRight
<1>7. late \/ Painted(Base) =
        ((Inpaint(PlanBoxes(edit), {}) \cup edit.mask) \ edit.preserve) \ edit.restore
  <2> DEFINE B == PlanBoxes(edit)
  <2>1. Inpaint(B, edit.preserve) = Inpaint(B, {}) \ edit.preserve
    BY InpaintCut
  <2>2. CASE late
    BY <2>2
  <2>3. CASE ~late /\ edit.strokes
    BY <1>6, <2>1, <2>3 DEF Painted
  <2>4. CASE ~late /\ ~edit.strokes
    <3>1. edit.mask = {} /\ edit.restore = {}
      BY <1>5, <2>4 DEF PlanKeeps
    <3> QED
      BY <1>6, <2>1, <2>4, <3>1 DEF Painted
  <2> QED
    BY <2>2, <2>3, <2>4
<1>8. Written(edit)'
  BY <1>2, <1>4, <1>5, <1>6, <1>7 DEF Written
<1>9. PageFits'
  BY <1>2, <1>3, <1>4 DEF ImageInv, PageFits, Active, Based, Dated
<1>10. (~apart => disk.restore = {})'
  BY <1>2, <1>5 DEF ImageInv, PlanShows
<1>11. RunFits'
  <2> SUFFICES ASSUME run # NoRun PROVE RunFits'
    BY <1>3 DEF RunFits
  <2>1. ~apart
    BY <1>1 DEF ImageInv, RunFits
  <2>2. disk'.restore = disk.restore
    BY <1>10, <2>1 DEF ImageInv
  <2>3. RunReads(run)'
    BY <1>2, <1>3, <2>1, <2>2 DEF ImageInv, RunFits, RunReads
  <2> QED
    BY <1>2, <1>3, <2>1, <2>3 DEF ImageInv, RunFits
<1> QED
  BY <1>4, <1>8, <1>9, <1>10, <1>11 DEF ImageInv, EditFits

\* The masks are those of the plan; a run that read the old ones is stale by their stamp.
LEMMA PlaceMaskImages ==
  ASSUME BoxInv, ImageInv, PlaceMask, UNCHANGED <<apart, late>>
  PROVE  ImageInv'
<1>1. edit # NoEdit /\ edit.step = "painted" /\ edit \in EditRecord /\ disk \in Disk
  BY DEF PlaceMask, BoxInv, Typed
<1>2. /\ disk'.mask = edit.mask /\ disk'.stamp = edit.stamp /\ disk'.restore = edit.restore
      /\ disk'.clean = disk.clean /\ disk'.cached = disk.cached /\ disk'.auto = disk.auto
  BY <1>1 DEF PlaceMask, Disk
<1>3. edit' = [edit EXCEPT !.step = "masked"] /\ UNCHANGED <<page, run, begun>>
  BY DEF PlaceMask
<1>4. /\ edit' # NoEdit /\ edit'.step = "masked"
      /\ UNCHANGED <<edit.saved, edit.mask, edit.stamp, edit.restore, edit.preserve,
                     edit.strokes, PlanBoxes(edit)>>
      /\ PlanKeeps(edit)' /\ (apart \/ PlanShows(edit))'
  BY <1>1, <1>3, PlanKept
<1>5. PlanKeeps(edit) /\ Written(edit) /\ (apart \/ PlanShows(edit))
  BY <1>1 DEF ImageInv, EditFits
<1>6. Written(edit)'
  BY <1>1, <1>2, <1>4, <1>5 DEF Written
<1>7. PageFits'
  BY <1>1, <1>2, <1>3, <1>4, <1>5 DEF ImageInv, PageFits, Active, Based, Dated, PlanKeeps, Written
<1>8. (~apart => disk.restore = {})'
  BY <1>2, <1>5 DEF PlanShows
<1>9. RunFits'
  <2> SUFFICES ASSUME run # NoRun PROVE RunFits'
    BY <1>3 DEF RunFits
  <2>1. ~apart
    BY <1>1 DEF ImageInv, RunFits
  <2>2. disk'.restore = disk.restore
    BY <1>8, <2>1 DEF ImageInv
  <2>3. disk.mask = edit.saved.mask /\ disk.stamp = edit.saved.stamp /\ PlanShows(edit)
    BY <1>1, <1>5, <2>1 DEF Written
  <2>4. run \in RunRecord /\ run.snapshot.stamp <= disk.stamp
    BY <2>1 DEF ImageInv, RunFits, BoxInv, Typed
  <2>5. run.snapshot.stamp \in Nat /\ disk.stamp \in Nat /\ edit.stamp \in Nat
    BY <1>1, <2>4 DEF RunRecord, Snapshot, Disk, EditRecord
  <2>6. disk.stamp <= disk'.stamp /\ (disk'.stamp = disk.stamp => disk'.mask = disk.mask)
    BY <1>2, <2>3 DEF PlanShows
  <2>7. disk'.stamp = run.snapshot.stamp => disk'.stamp = disk.stamp
    BY <1>2, <2>4, <2>5, <2>6
  <2>8. RunReads(run)'
    BY <1>3, <2>1, <2>2, <2>6, <2>7 DEF ImageInv, RunFits, RunReads
  <2>9. run.snapshot.stamp <= disk'.stamp
    BY <1>2, <2>4, <2>5, <2>6
  <2> QED
    BY <1>3, <2>1, <2>8, <2>9 DEF ImageInv, RunFits
<1> QED
  BY <1>4, <1>6, <1>7, <1>8, <1>9 DEF ImageInv, EditFits

\* A commit makes the page the one its images were made for.
LEMMA CommitEditImages ==
  ASSUME BoxInv, ImageInv, CommitEdit, UNCHANGED <<apart, late>>
  PROVE  ImageInv'
<1>1. edit # NoEdit /\ edit.step = "masked" /\ edit' = NoEdit /\ UNCHANGED <<disk, run, begun>>
  BY DEF CommitEdit
<1>2. PlanKeeps(edit) /\ Written(edit)
  BY <1>1 DEF ImageInv, EditFits
<1>3. page'.boxes = PlanBoxes(edit) /\ page'.preserve = edit.preserve /\ page'.clean
  <2> DEFINE boxes == (page.boxes \ edit.out) \cup edit.in
             preserve == IF edit.kind \in {"preserve", "fix"} THEN edit.preserve
                         ELSE page.preserve
  <2>1. page' = [page EXCEPT !.boxes = boxes, !.preserve = preserve, !.clean = TRUE,
                             !.revision = edit.target]
    BY DEF CommitEdit
  <2>2. boxes = PlanBoxes(edit) /\ preserve = edit.preserve
    BY <1>2 DEF PlanKeeps, PlanBoxes
  <2>3. page \in Page
    BY DEF BoxInv, Typed
  <2> HIDE DEF boxes, preserve
  <2> QED
    BY <2>1, <2>2, <2>3 DEF Page
<1>4. (late \/ Right(disk))'
  BY <1>1, <1>2, <1>3 DEF Written, Right
<1>5. PageFits'
  BY <1>1, <1>3, <1>4 DEF ImageInv, PageFits, Active, Based, Dated
<1>6. RunFits'
  BY <1>1 DEF ImageInv, RunFits, RunReads
<1> QED
  BY <1>1, <1>5, <1>6 DEF ImageInv, EditFits

\* Without a run beside it, an edit may take everything back.
LEMMA RollBackImages ==
  ASSUME BoxInv, ImageInv, RollBackEdit, apart, UNCHANGED <<apart, late>>
  PROVE  ImageInv'
<1>1. edit # NoEdit /\ disk' = edit.saved /\ edit' = NoEdit /\ UNCHANGED <<page, run, begun>>
  BY DEF RollBackEdit
<1>2. PlanKeeps(edit)
  BY <1>1 DEF ImageInv, EditFits
<1>3. (late \/ Right(disk))'
  BY <1>1, <1>2 DEF PlanKeeps, Right, Processed, Active
<1>4. PageFits'
  BY <1>1, <1>2, <1>3 DEF ImageInv, PageFits, PlanKeeps, Active, Based, Dated
<1>5. run = NoRun
  BY <1>1 DEF ImageInv, RunFits
<1> QED
  BY <1>1, <1>4, <1>5 DEF ImageInv, EditFits, RunFits

\* A page that is skipped, taken back or given other regions does not count as cleaned.
LEMMA PageImages ==
  ASSUME BoxInv, ImageInv, PageChanges, UNCHANGED <<apart, late>>
  PROVE  ImageInv'
<1>1. edit = NoEdit /\ UNCHANGED <<disk, edit, run, begun>>
  BY DEF PageChanges, Skip, Unskip, SetPreserveRegions, Unlocked
<1>2. page \in Page
  BY DEF BoxInv, Typed
<1>3. page'.skipped \/ page'.required
  <2>1. CASE Skip
    BY <1>2, <2>1 DEF Skip, Page
  <2>2. CASE Unskip
    BY <1>2, <2>2 DEF Unskip, Page
  <2>3. CASE SetPreserveRegions
    BY <1>2, <2>3 DEF SetPreserveRegions, Page
  <2> QED
    BY <2>1, <2>2, <2>3 DEF PageChanges
<1>4. PageFits'
  BY <1>1, <1>3 DEF ImageInv, PageFits, Right, Processed, Active, Based, Dated
<1>5. RunFits'
  BY <1>1 DEF ImageInv, RunFits, RunReads
<1> QED
  BY <1>1, <1>4, <1>5 DEF ImageInv, EditFits

\* A run on its way changes nothing but itself.
LEMMA RunImages ==
  ASSUME ImageInv, UNCHANGED <<page, disk, edit, begun, apart, late>>, RunFits'
  PROVE  ImageInv'
<1>1. PageFits'
  BY DEF ImageInv, PageFits, Right, Processed, Active, Based, Dated
<1>2. EditFits'
  BY DEF ImageInv, EditFits, PlanKeeps, PlanShows, Written, Right, Processed, Active, Based, Dated,
         PlanBoxes
<1> QED
  BY <1>1, <1>2 DEF ImageInv

\* A run starts with the stamp that the mask has.
LEMMA CaptureImages ==
  ASSUME BoxInv, ImageInv, Capture, apart => edit = NoEdit, UNCHANGED <<apart, late>>
  PROVE  ImageInv'
<1>1. disk.stamp \in Nat
  BY DEF BoxInv, Typed, Disk
<1>2. run'.at = "captured" /\ run'.snapshot.stamp = disk.stamp
  BY DEF Capture, ProcessingState
<1>3. RunFits'
  BY <1>1, <1>2 DEF RunFits, RunReads, Capture
<1> QED
  BY <1>3, RunImages DEF Capture

\* Whether it writes the cached clean is decided when the boxes are found.
LEMMA DetectImages ==
  ASSUME BoxInv, ImageInv, Detect, UNCHANGED <<apart, late>>
  PROVE  ImageInv'
<1>1. run # NoRun /\ run \in RunRecord /\ UNCHANGED <<page, disk, edit, begun>>
  BY DEF Detect, BoxInv, Typed
<1>2. PICK places \in SUBSET Place : \E art \in SUBSET places :
        LET known == run.snapshot.boxes
            found == UNION {Recognised(p, known, art) : p \in places}
            base == Inpaint(found \cup {b \in known : b.manual}, run.snapshot.preserve)
        IN  run' = [run EXCEPT !.at = "detected", !.found = found, !.base = base,
                               !.cache = disk.cached \/ disk.mask # {}]
  BY DEF Detect
<1>3. PICK art \in SUBSET places :
        LET known == run.snapshot.boxes
            found == UNION {Recognised(p, known, art) : p \in places}
            base == Inpaint(found \cup {b \in known : b.manual}, run.snapshot.preserve)
        IN  run' = [run EXCEPT !.at = "detected", !.found = found, !.base = base,
                               !.cache = disk.cached \/ disk.mask # {}]
  BY <1>2
<1> DEFINE known == run.snapshot.boxes
           found == UNION {Recognised(p, known, art) : p \in places}
           base == Inpaint(found \cup {b \in known : b.manual}, run.snapshot.preserve)
           cache == disk.cached \/ disk.mask # {}
<1>4. run' = [run EXCEPT !.at = "detected", !.found = found, !.base = base, !.cache = cache]
  BY <1>3
<1>5. base = Inpaint(found \cup {b \in run.snapshot.boxes : b.manual}, run.snapshot.preserve)
      /\ (disk.cached => cache)
  OBVIOUS
<1> HIDE DEF found, base, cache
<1>6. /\ run'.at = "detected" /\ run'.snapshot = run.snapshot /\ run'.found = found
      /\ run'.base = base /\ run'.cache = cache
  BY <1>1, <1>4 DEF RunRecord
<1>7. RunBase(run)'
  BY <1>5, <1>6 DEF RunBase
<1>8. RunFits'
  BY <1>1, <1>5, <1>6, <1>7 DEF ImageInv, RunFits, RunReads
<1> QED
  BY <1>1, <1>8, RunImages

\* What the run reads is what is on disk by then.
LEMMA ReadStrokesImages ==
  ASSUME BoxInv, ImageInv, ReadStrokes, UNCHANGED <<apart, late>>
  PROVE  ImageInv'
<1>1. run # NoRun /\ run \in RunRecord /\ run.at = "detected" /\ UNCHANGED <<page, disk, edit, begun>>
  BY DEF ReadStrokes, BoxInv, Typed
<1>2. /\ run'.at = "stroked" /\ run'.snapshot = run.snapshot /\ run'.found = run.found
      /\ run'.base = run.base /\ run'.cache = run.cache
      /\ run'.result = run.base \cup (disk.mask \ run.snapshot.preserve)
  BY <1>1 DEF ReadStrokes, RunRecord
<1>3. RunFits'
  BY <1>1, <1>2 DEF ImageInv, RunFits, RunReads, RunBase
<1> QED
  BY <1>1, <1>3, RunImages

\* So is what it puts back.
LEMMA ReadRestoreImages ==
  ASSUME BoxInv, ImageInv, ReadRestore, UNCHANGED <<apart, late>>
  PROVE  ImageInv'
<1>1. run # NoRun /\ run \in RunRecord /\ run.at = "stroked" /\ UNCHANGED <<page, disk, edit, begun>>
  BY DEF ReadRestore, BoxInv, Typed
<1>2. /\ run'.at = "done" /\ run'.snapshot = run.snapshot /\ run'.found = run.found
      /\ run'.base = run.base /\ run'.cache = run.cache
      /\ run'.result = run.result \ disk.restore
  BY <1>1 DEF ReadRestore, RunRecord
<1>3. RunFits'
  BY <1>1, <1>2 DEF ImageInv, RunFits, RunReads, RunBase
<1> QED
  BY <1>1, <1>3, RunImages

\* What a commit that is not discarded writes.
LEMMA Delivered ==
  ASSUME BoxInv, CommitProcessedPage, Current
  PROVE  /\ page'.boxes = run.found \cup {b \in run.snapshot.boxes : b.manual}
         /\ page'.preserve = run.snapshot.preserve /\ page'.clean /\ page' # page
         /\ disk'.clean = run.result /\ disk'.mask = disk.mask /\ disk'.stamp = disk.stamp
         /\ disk'.restore = disk.restore /\ disk.stamp = run.snapshot.stamp
         /\ disk'.cached = (disk.cached \/ run.cache)
         /\ disk'.auto = IF run.cache THEN run.base ELSE disk.auto
<1>1. page \in Page /\ disk \in Disk /\ run \in RunRecord
  BY DEF BoxInv, Typed, CommitProcessedPage
<1>2. /\ run.snapshot.boxes = page.boxes /\ run.snapshot.preserve = page.preserve
      /\ run.snapshot.stamp = disk.stamp
  BY DEF Current, ProcessingState
<1> DEFINE boxes == run.found \cup {b \in page.boxes : b.manual}
           cached == disk.cached \/ run.cache
           auto == IF run.cache THEN run.base ELSE disk.auto
<1>3. page' = [page EXCEPT !.boxes = boxes, !.required = FALSE, !.clean = TRUE,
                           !.revision = page.revision + 1]
  BY DEF CommitProcessedPage, Deliver
<1>4. disk' = [disk EXCEPT !.clean = run.result, !.cached = cached, !.auto = auto]
  BY DEF CommitProcessedPage, Deliver
<1>5. boxes = run.found \cup {b \in run.snapshot.boxes : b.manual}
  BY <1>2
<1> HIDE DEF boxes
<1>6. page'.boxes = boxes /\ page'.preserve = page.preserve /\ page'.clean
  BY <1>1, <1>3 DEF Page
<1>7. page' # page
  <2>1. page'.revision = page.revision + 1 /\ page.revision \in Nat
    BY <1>1, <1>3 DEF Page
  <2> QED
    BY <2>1
<1> HIDE DEF cached, auto
<1>8. /\ disk'.clean = run.result /\ disk'.mask = disk.mask /\ disk'.stamp = disk.stamp
      /\ disk'.restore = disk.restore /\ disk'.cached = cached /\ disk'.auto = auto
  BY <1>1, <1>4 DEF Disk
<1> QED
  BY <1>2, <1>5, <1>6, <1>7, <1>8 DEF cached, auto

\* A run that commits leaves images of what it found, unless it commits late.
LEMMA CommitRunImages ==
  ASSUME BoxInv, ImageInv, CommitProcessedPage, UNCHANGED apart, late' = (late \/ CommitsLate)
  PROVE  ImageInv'
<1>1. /\ run # NoRun /\ run.at = "done" /\ run \in RunRecord /\ edit = NoEdit /\ run' = NoRun
      /\ UNCHANGED <<edit, begun>>
  BY DEF CommitProcessedPage, Unlocked, BoxInv, Typed
<1>2. CASE ~Current
  <2>1. UNCHANGED <<page, disk>>
    BY <1>2 DEF CommitProcessedPage
  <2>2. UNCHANGED late
    BY <2>1 DEF CommitsLate, ImageInv
  <2> QED
    BY <1>1, <2>1, <2>2, RunImages DEF RunFits
<1>3. CASE Current
  <2>1. /\ page'.boxes = run.found \cup {b \in run.snapshot.boxes : b.manual}
        /\ page'.preserve = run.snapshot.preserve /\ page'.clean /\ page' # page
        /\ disk'.clean = run.result /\ disk'.mask = disk.mask /\ disk'.stamp = disk.stamp
        /\ disk'.restore = disk.restore /\ disk.stamp = run.snapshot.stamp
        /\ disk'.cached = (disk.cached \/ run.cache)
        /\ disk'.auto = IF run.cache THEN run.base ELSE disk.auto
    BY <1>3, Delivered
  <2>2. late' = (late \/ (disk.cached /\ ~run.cache))
    BY <1>1, <2>1 DEF CommitsLate
  <2>3. (late => ~apart)' /\ late' \in BOOLEAN
    BY <1>1, <2>2 DEF ImageInv, RunFits
  <2>4. /\ run.base = Inpaint(page'.boxes, page'.preserve)
        /\ run.result = (run.base \cup (disk.mask \ page'.preserve)) \ disk.restore
    BY <1>1, <2>1 DEF ImageInv, RunFits, RunBase, RunReads
  <2>5. run.base = Inpaint(page'.boxes, {}) \ page'.preserve
    BY <2>4, InpaintCut
  <2>6. disk'.clean =
          ((Inpaint(page'.boxes, {}) \cup disk'.mask) \ page'.preserve) \ disk'.restore
    BY <2>1, <2>4, <2>5
  <2>7. ~late' /\ disk'.cached => disk'.auto = Inpaint(page'.boxes, page'.preserve)
    BY <2>1, <2>2, <2>4
  <2>8. (late \/ Right(disk))'
    BY <2>6, <2>7 DEF Right
  <2>9. PageFits'
    BY <1>1, <2>1, <2>8 DEF ImageInv, PageFits, Active, Based, Dated
  <2> QED
    BY <1>1, <2>1, <2>3, <2>9 DEF ImageInv, EditFits, RunFits
<1> QED
  BY <1>2, <1>3

-----------------------------------------------------------------------------
\* Only the commit of a run is ever late.
LEMMA WhoIsLate ==
  ASSUME BoxInv, [NextFailing]_vars
  PROVE  CommitProcessedPage \/ ~CommitsLate
<1> USE DEF CommitsLate
<1>1. CASE BeginEdit
  BY <1>1 DEF Begin, BeginEdit, AddManualBoxes, UpdateBox, RemoveBox, PreserveAndReinpaint,
              ApplyReviewFixes, RepaintMask, RestoreMask, ResetManualMask
<1>2. CASE EditSteps \/ RollBackEdit
  BY <1>2 DEF EditSteps, Paint, PlaceMask, CommitEdit, RollBackEdit
<1>3. CASE PageChanges
  BY <1>3 DEF PageChanges, Skip, Unskip, SetPreserveRegions
<1>4. CASE Capture \/ RunSteps
  BY <1>4 DEF RunSteps, Capture, Detect, ReadStrokes, ReadRestore, FailRun
<1>5. CASE UNCHANGED vars
  BY <1>5 DEF vars
<1> QED
  BY <1>1, <1>2, <1>3, <1>4, <1>5 DEF NextFailing, Next

\* Every step keeps the images what they should be.
LEMMA ImageStep ==
  ASSUME BoxInv, ImageInv, [EditsNext]_<<vars, apart, late>>
  PROVE  ImageInv'
<1>1. CASE UNCHANGED <<vars, apart, late>>
  <2>1. UNCHANGED <<page, disk, edit, run, begun, apart, late>>
    BY <1>1 DEF vars
  <2>2. RunFits'
    BY <2>1 DEF ImageInv, RunFits, RunReads, RunBase
  <2> QED
    BY <2>1, <2>2, RunImages
<1>2. CASE EditsNext
  <2>1. /\ apart => edit' = NoEdit \/ run' = NoRun
        /\ ~apart => edit' = NoEdit \/ edit'.kind \in NoticedEdits
        /\ late' = (late \/ CommitsLate) /\ UNCHANGED apart
    BY <1>2 DEF EditsNext
  <2>2. CASE CommitProcessedPage
    BY <2>1, <2>2, CommitRunImages
  <2>3. CASE ~CommitProcessedPage
    <3>1. UNCHANGED late
      BY <2>1, <2>3, WhoIsLate, EditsAreSteps DEF ImageInv
    <3>2. CASE BeginEdit
      <4>1. PICK e \in EditRecord : Begin(e) /\ NewPlan(e)
        BY <3>2, EditPlans
      <4>2. edit' = e /\ e # NoEdit
        BY <4>1, EditIsRecord DEF Begin
      <4> QED
        BY <2>1, <3>1, <4>1, <4>2, BeginImages
    <3>3. CASE EditSteps
      BY <2>1, <3>1, <3>3, PaintImages, PlaceMaskImages, CommitEditImages DEF EditSteps
    <3>4. CASE apart /\ RollBackEdit
      BY <2>1, <3>1, <3>4, RollBackImages
    <3>5. CASE PageChanges
      BY <2>1, <3>1, <3>5, PageImages
    <3>6. CASE Capture
      <4>1. run' # NoRun /\ edit' = edit
        BY <3>6 DEF Capture, NoRun
      <4> QED
        BY <2>1, <3>1, <3>6, <4>1, CaptureImages
    <3>7. CASE Detect \/ ReadStrokes \/ ReadRestore
      BY <2>1, <3>1, <3>7, DetectImages, ReadStrokesImages, ReadRestoreImages
    <3>8. CASE FailRun
      BY <2>1, <3>1, <3>8, RunImages DEF FailRun, RunFits
    <3> QED
      BY <1>2, <2>3, <3>2, <3>3, <3>4, <3>5, <3>6, <3>7, <3>8 DEF EditsNext, Next, RunSteps
  <2> QED
    BY <2>2, <2>3
<1> QED
  BY <1>1, <1>2

\* The two invariants hold where edits and runs are apart or leave a trace.
LEMMA ImageInvariance == EditsSpec => [](BoxInv /\ ImageInv)
<1>1. EditsInit => BoxInv /\ ImageInv
  BY BoxInit, ImageInit DEF EditsInit
<1>2. BoxInv /\ ImageInv /\ [EditsNext]_<<vars, apart, late>> => (BoxInv /\ ImageInv)'
  BY BoxStep, ImageStep, EditsAreSteps
<1> QED
  BY <1>1, <1>2, PTL DEF EditsSpec

\* The images of a page that counts as cleaned are those its boxes, strokes and regions ask
\* for, and the cached clean is that of its boxes, until a run commits late; and no run does
\* without edits beside it (pipeline_editing.py:1054-1118, pipeline.py:440-560).
THEOREM ImagesAreRight == EditsSpec => []ImagesMatch
<1>1. BoxInv /\ ImageInv => ImagesMatch
  <2> SUFFICES ASSUME BoxInv, ImageInv PROVE ImagesMatch
    OBVIOUS
  <2>1. ASSUME ~late, Settled PROVE Right(disk) /\ Processed
    BY <2>1 DEF ImageInv, PageFits, Settled, Unlocked
  <2> QED
    BY <2>1 DEF ImageInv, ImagesMatch, CleanMatches, CacheFresh, Right
<1> QED
  BY <1>1, ImageInvariance, PTL

\* What is shown of edits that may fail holds of the behaviours in which images are right, and
\* of those in which edits succeed.
COROLLARY EditsKeepDecisions == Spec \/ EditsSpec => []PageOK /\ DecisionsKept
  BY FewerFailures, EditsMayFail, PageIsSound, DecisionsSurvive, PTL
=============================================================================
