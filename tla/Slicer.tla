------------------------------- MODULE Slicer -------------------------------
(***************************************************************************)
(* How a tall source image is cut into slices (app/downloader/slicer.py)   *)
(* and what the export later demands of them (_validate_stitch_group).     *)
(*                                                                         *)
(* Rows are numbered from 0; a half-open interval of rows is a record      *)
(* [y1, y2].  What _get_content_row_mask finds in the pixels is the set    *)
(* "unsafe" of an image, and the row scores that rank the cuts through     *)
(* content are free: such a cut may fall on any row of its range.          *)
(***************************************************************************)
EXTENDS Integers, Sequences

CONSTANTS
  Images,          \* the images that may be cut: their height and their rows with content
  MaxHeight, MinHeight, TargetHeight, SearchWindow,   \* SLICE_MAX_HEIGHT, ...
  SafeCutBand, FallbackBand, OverlapContext           \* parameters.py:129-135

\* parameters.py:129-135: 4096, 800, 2400, 360, 12, 18 and 768.
ASSUME ParametersOK ==
  /\ {MaxHeight, MinHeight, TargetHeight, SearchWindow, SafeCutBand, FallbackBand, OverlapContext}
       \subseteq Nat
  /\ 2 * MinHeight <= MaxHeight
  /\ FallbackBand < MinHeight
  /\ OverlapContext <= MinHeight

ASSUME ImagesOK ==
  \A im \in Images : im.height \in Nat \ {0} /\ im.unsafe \subseteq 0 .. im.height - 1

VARIABLES
  image,    \* the image being cut
  cuts,     \* the cut rows found so far, from the top
  slices    \* the metadata of its slices; empty until they are written

slicerVars == <<image, cuts, slices>>

Smaller(a, b) == IF a <= b THEN a ELSE b
Larger(a, b) == IF a >= b THEN a ELSE b
Distance(a, b) == IF a <= b THEN b - a ELSE a - b
-----------------------------------------------------------------------------
\* _find_cut_rows: where the next slice begins and what is left of the image.
Start == IF cuts = <<>> THEN 0 ELSE cuts[Len(cuts)]
Remaining == image.height - Start

\* The rows where it may end: neither it nor what is left becomes too short.
Shortest == Smaller(MinHeight, Remaining \div 2)
AllowedLo == Start + Shortest
AllowedHi == Smaller(Start + MaxHeight, image.height - Shortest)
Target == Larger(AllowedLo, Smaller(AllowedHi, Start + TargetHeight))

\* _find_safe_cut: rows with no content in the band around them, as near to the target as any.
SafeRows(lo, hi) ==
  {c \in Larger(SafeCutBand, lo) .. Smaller(image.height - SafeCutBand, hi + 1) - 1 :
     \A r \in c - SafeCutBand .. c + SafeCutBand : r \notin image.unsafe}

FindSafeCut(lo, hi) ==
  LET rows == SafeRows(lo, hi)
  IN  {c \in rows : \A d \in rows : Distance(c, Target) <= Distance(d, Target)}

\* _find_low_content_cut: any row far enough from both ends of the image, the scores being free.
FindLowContentCut(lo, hi) ==
  Larger(FallbackBand, lo) .. Smaller(image.height - FallbackBand - 1, hi)

NextCuts ==
  LET near == FindSafeCut(Larger(AllowedLo, Target - SearchWindow),
                          Smaller(AllowedHi, Target + SearchWindow))
      far  == FindSafeCut(AllowedLo, AllowedHi)
  IN  IF near # {} THEN near
      ELSE IF far # {} THEN far
      ELSE FindLowContentCut(AllowedLo, AllowedHi)

\* One round of the loop of _find_cut_rows.
FindCutRow ==
  /\ slices = <<>> /\ Remaining > MaxHeight
  /\ \/ \E c \in NextCuts :
          /\ Start < c /\ c < image.height
          /\ cuts' = Append(cuts, c)
     \/ /\ ~\E c \in NextCuts : Start < c /\ c < image.height
        /\ cuts' = Append(cuts, Smaller(image.height - 1, Start + MaxHeight))
  /\ UNCHANGED <<image, slices>>
-----------------------------------------------------------------------------
\* Mutant: the rows above a cut are not looked at.
BoundaryUnsafeBelow(y) ==
  \E r \in y + 1 .. Smaller(image.height, y + SafeCutBand + 1) - 1 : r \in image.unsafe

\* boundary_unsafe: a cut through content, or close to some.
BoundaryUnsafe(y) ==
  \E r \in Larger(0, y - SafeCutBand) .. Smaller(image.height, y + SafeCutBand + 1) - 1 :
    r \in image.unsafe

Boundary(i) == IF i = 0 THEN 0 ELSE IF i > Len(cuts) THEN image.height ELSE cuts[i]

\* The i-th slice: the rows it is to be exported with (its core) and, beside a cut through
\* content, the rows it shares with its neighbour.
Slice(i) ==
  LET start  == Boundary(i - 1)
      end    == Boundary(i)
      before == i > 1 /\ BoundaryUnsafe(start)
      after  == i <= Len(cuts) /\ BoundaryUnsafe(end)
      top    == Larger(0, start - (IF before THEN OverlapContext ELSE 0))
      bottom == Smaller(image.height, end + (IF after THEN OverlapContext ELSE 0))
  IN  [source_y1 |-> top, source_y2 |-> bottom,
       core_y1 |-> start - top, core_y2 |-> end - top,
       core_source_y1 |-> start, core_source_y2 |-> end,
       unsafe_before |-> before, unsafe_after |-> after,
       source_height |-> image.height]

\* slice_image, once no cut is missing: every segment and its metadata.
SliceImage ==
  /\ slices = <<>> /\ Remaining <= MaxHeight
  /\ slices' = [i \in 1 .. Len(cuts) + 1 |-> Slice(i)]
  /\ UNCHANGED <<image, cuts>>
-----------------------------------------------------------------------------
SlicerInit ==
  /\ image \in Images
  /\ cuts = <<>>
  /\ slices = <<>>

SlicerNext == FindCutRow \/ SliceImage

SlicerSpec == SlicerInit /\ [][SlicerNext]_slicerVars
-----------------------------------------------------------------------------
SliceMeta ==
  [source_y1 : Nat, source_y2 : Nat, core_y1 : Nat, core_y2 : Nat,
   core_source_y1 : Nat, core_source_y2 : Nat,
   unsafe_before : BOOLEAN, unsafe_after : BOOLEAN, source_height : Nat]

SlicerTypeOK ==
  /\ image.height \in Nat \ {0} /\ image.unsafe \subseteq 0 .. image.height - 1
  /\ cuts \in Seq(Nat)
  /\ slices \in Seq(SliceMeta)

\* _validate_stitch_group: what the export demands of the slices of one image before it puts
\* them together again (export.py:256-320).
ValidStitchGroup(items) ==
  /\ Len(items) > 0
  /\ items[1].core_source_y1 = 0
  /\ items[Len(items)].core_source_y2 = image.height
  /\ \A i \in 1 .. Len(items) :
       /\ items[i].source_height = image.height
       /\ i > 1 => items[i].core_source_y1 = items[i - 1].core_source_y2
       /\ items[i].core_source_y1 < items[i].core_source_y2
       /\ items[i].core_y1 < items[i].core_y2
       /\ items[i].core_y2 - items[i].core_y1 = items[i].core_source_y2 - items[i].core_source_y1

\* The slices of every image can be put together again: their cores follow one another from its
\* first row to its last, and each is in its own slice where the export will look for it
\* (slice_image, slicer.py:74-101, against _validate_stitch_group, export.py:256-320).
Stitchable ==
  slices # <<>> =>
    /\ ValidStitchGroup(slices)
    /\ \A i \in 1 .. Len(slices) :
         /\ slices[i].source_y1 + slices[i].core_y1 = slices[i].core_source_y1
         /\ slices[i].core_source_y2 <= slices[i].source_y2
         /\ slices[i].source_y2 <= image.height

\* No core is taller than a slice may be, and none of a tall image is shorter than one should be,
\* the last one included (_find_cut_rows, slicer.py:118-145).
CoresInBounds ==
  \A i \in 1 .. Len(slices) :
    LET height == slices[i].core_source_y2 - slices[i].core_source_y1
    IN  height <= MaxHeight /\ (image.height > MaxHeight => height >= MinHeight)

\* Content no taller than two contexts is whole in the slice whose core holds its middle, however
\* the cuts fall: a cut through it is seen to be unsafe, and the context then reaches its ends
\* (slice_image, slicer.py:68-86).
ContentIsWhole ==
  \A i \in 1 .. Len(slices) : \A y1, y2 \in 0 .. image.height :
    /\ y1 < y2 /\ y2 - y1 <= 2 * OverlapContext
    /\ y1 .. y2 - 1 \subseteq image.unsafe
    /\ 2 * slices[i].core_source_y1 <= y1 + y2 /\ y1 + y2 < 2 * slices[i].core_source_y2
    => slices[i].source_y1 <= y1 /\ y2 <= slices[i].source_y2

\* What the slicer owes to the stages after it.
SlicesOK == SlicerTypeOK /\ Stitchable /\ CoresInBounds /\ ContentIsWhole
=============================================================================
