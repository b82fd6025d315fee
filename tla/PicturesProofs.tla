--------------------------- MODULE PicturesProofs ---------------------------
(***************************************************************************)
(* What becomes of a chapter's pictures, from the tall images it is made   *)
(* of to the archive.                                                      *)
(*                                                                         *)
(* The slicer, for images of any height and content and for any parameters *)
(* that satisfy ParametersOK: the slices of an image can be put together   *)
(* again, none is too tall or too short, and content no taller than two    *)
(* contexts is whole in one of them.  And the stages after the slicer      *)
(* leave its slices alone: Seams implements SlicerSpec, so all that was    *)
(* proved of the slicer holds in it.                                       *)
(*                                                                         *)
(* Lettering, for any pages, sources, texts, renders at a time and bounds: *)
(* a text that a machine made fits its source, a picture that counts as    *)
(* current is what the record says on the base as it is, and an archive    *)
(* is of one instant and of approved pictures.                             *)
(***************************************************************************)
EXTENDS Seams, Lettering, TLAPS

-----------------------------------------------------------------------------
(* The slicer.                                                              *)

ImageOK ==
  /\ image.height \in Nat \ {0}
  /\ image.unsafe \subseteq 0 .. image.height - 1

\* Every cut so far ends a core of an allowed height, and leaves enough for another.
CutsOK ==
  /\ cuts \in Seq(Nat)
  /\ cuts # <<>> => image.height > MaxHeight
  /\ \A i \in 1 .. Len(cuts) :
       /\ cuts[i] \in Boundary(i - 1) + MinHeight .. Boundary(i - 1) + MaxHeight
       /\ cuts[i] + MinHeight <= image.height

\* The slices are those of the cuts, and no cut is missing.
SlicesWritten ==
  slices # <<>> =>
    /\ Remaining <= MaxHeight
    /\ slices = [i \in 1 .. Len(cuts) + 1 |-> Slice(i)]

\* The inductive invariant.
SlicerInv == ImageOK /\ CutsOK /\ SlicesWritten
-----------------------------------------------------------------------------
\* What the later arithmetic needs of the parameters.
LEMMA Parameters ==
  /\ MaxHeight \in Nat /\ MinHeight \in Nat /\ 0 < MinHeight /\ MinHeight <= MaxHeight
  /\ OverlapContext \in Nat /\ SafeCutBand \in Nat
  BY ParametersOK

\* The initial states of the slicer satisfy the invariant (slice_image, slicer.py:40-60).
LEMMA InitInv == SlicerInit => SlicerInv
  BY ImagesOK DEF SlicerInit, SlicerInv, ImageOK, CutsOK, SlicesWritten

\* While an image is to be cut there is always a row to cut it at, and every such row leaves a
\* core of an allowed height and enough for another: the last resort of _find_cut_rows
\* (slicer.py:139-142) is never reached.
LEMMA CutInRange ==
  ASSUME ImageOK, CutsOK, Remaining > MaxHeight
  PROVE  /\ Start \in Nat
         /\ NextCuts # {}
         /\ \A c \in NextCuts :
              /\ c \in Nat
              /\ Start + MinHeight <= c /\ c <= Start + MaxHeight
              /\ c + MinHeight <= image.height
<1>1. Start \in Nat
  BY DEF CutsOK, Start
<1>2. /\ Shortest = MinHeight
      /\ AllowedLo = Start + MinHeight
      /\ AllowedHi \in Nat /\ AllowedLo <= AllowedHi
      /\ AllowedHi <= Start + MaxHeight /\ AllowedHi + MinHeight <= image.height
  BY <1>1, ParametersOK
     DEF ImageOK, Remaining, Shortest, AllowedLo, AllowedHi, Smaller
<1>3. AllowedLo \in FindLowContentCut(AllowedLo, AllowedHi)
  BY <1>1, <1>2, ParametersOK DEF ImageOK, FindLowContentCut, Larger, Smaller
<1>4. FindLowContentCut(AllowedLo, AllowedHi) \subseteq AllowedLo .. AllowedHi
  BY <1>1, <1>2, ParametersOK DEF ImageOK, FindLowContentCut, Larger, Smaller
<1>5. ASSUME NEW lo \in Int, NEW hi \in Int, AllowedLo <= lo, hi <= AllowedHi
      PROVE  FindSafeCut(lo, hi) \subseteq AllowedLo .. AllowedHi
  BY <1>1, <1>2, <1>5, ParametersOK DEF ImageOK, FindSafeCut, SafeRows, Larger, Smaller
<1>6. Target \in Int
  BY <1>1, <1>2, ParametersOK DEF Target, Larger, Smaller
<1>7. FindSafeCut(Larger(AllowedLo, Target - SearchWindow),
                  Smaller(AllowedHi, Target + SearchWindow)) \subseteq AllowedLo .. AllowedHi
  <2> DEFINE lo == Larger(AllowedLo, Target - SearchWindow)
             hi == Smaller(AllowedHi, Target + SearchWindow)
  <2>1. lo \in Int /\ hi \in Int /\ AllowedLo <= lo /\ hi <= AllowedHi
    BY <1>1, <1>2, <1>6, ParametersOK DEF Larger, Smaller
  <2> QED BY <2>1, <1>5
<1>8. FindSafeCut(AllowedLo, AllowedHi) \subseteq AllowedLo .. AllowedHi
  BY <1>1, <1>2, <1>5, ParametersOK
<1>9. NextCuts # {} /\ NextCuts \subseteq AllowedLo .. AllowedHi
  BY <1>3, <1>4, <1>7, <1>8 DEF NextCuts
<1> QED BY <1>1, <1>2, <1>9, ParametersOK DEF ImageOK
-----------------------------------------------------------------------------
\* A round of the loop adds a cut that keeps the invariant.
LEMMA FindCutRowInv == SlicerInv /\ FindCutRow => SlicerInv'
<1> SUFFICES ASSUME SlicerInv, FindCutRow PROVE SlicerInv'
  OBVIOUS
<1> USE DEF SlicerInv
<1>1. ImageOK'
  BY DEF ImageOK, FindCutRow
<1>2. PICK c \in Nat : /\ cuts' = Append(cuts, c)
                       /\ Start + MinHeight <= c /\ c <= Start + MaxHeight
                       /\ c + MinHeight <= image.height
  <2>1. /\ Start \in Nat /\ NextCuts # {}
        /\ \A c \in NextCuts : /\ c \in Nat
                               /\ Start + MinHeight <= c /\ c <= Start + MaxHeight
                               /\ c + MinHeight <= image.height
    BY CutInRange DEF FindCutRow
  <2>2. \A c \in NextCuts : Start < c /\ c < image.height
    BY <2>1, ParametersOK DEF ImageOK
  <2> QED BY <2>1, <2>2 DEF FindCutRow
<1>3. CutsOK'
  <2>1. cuts \in Seq(Nat) /\ cuts' \in Seq(Nat) /\ Len(cuts) \in Nat
    BY <1>2 DEF CutsOK
  <2>2. Len(cuts') = Len(cuts) + 1
    BY <1>2, <2>1
  <2>3. \A i \in 1 .. Len(cuts) : cuts'[i] = cuts[i]
    BY <1>2, <2>1
  <2>4. cuts'[Len(cuts) + 1] = c
    BY <1>2, <2>1
  <2>5. \A i \in 0 .. Len(cuts) : Boundary(i)' = Boundary(i)
    BY <2>1, <2>2, <2>3 DEF Boundary
  <2>6. Boundary(Len(cuts)) = Start
    BY <2>1 DEF Boundary, Start
  <2>7. image.height > MaxHeight /\ image' = image
    BY <2>1, ParametersOK DEF FindCutRow, Remaining, Start, CutsOK, ImageOK
  <2>8. ASSUME NEW i \in 1 .. Len(cuts')
        PROVE  /\ cuts'[i] \in Boundary(i - 1)' + MinHeight .. Boundary(i - 1)' + MaxHeight
               /\ cuts'[i] + MinHeight <= image'.height
    <3>1. CASE i \in 1 .. Len(cuts)
      <4>1. Boundary(i - 1)' = Boundary(i - 1)
        BY <3>1, <2>1, <2>5
      <4> QED BY <3>1, <4>1, <2>3, <2>7 DEF CutsOK
    <3>2. CASE i = Len(cuts) + 1
      <4>1. Boundary(i - 1)' = Start /\ cuts'[i] = c
        BY <3>2, <2>1, <2>4, <2>5, <2>6
      <4>2. Start \in Int
        BY <2>1 DEF Start
      <4> QED BY <4>1, <4>2, <2>7, <1>2, ParametersOK
    <3> QED BY <3>1, <3>2, <2>1, <2>2
  <2> QED BY <2>1, <2>7, <2>8 DEF CutsOK
<1>4. SlicesWritten'
  BY DEF SlicesWritten, FindCutRow
<1> QED BY <1>1, <1>3, <1>4

\* The slices are written when no cut is missing.
LEMMA SliceImageInv == SlicerInv /\ SliceImage => SlicerInv'
<1> SUFFICES ASSUME SlicerInv, SliceImage PROVE SlicerInv'
  OBVIOUS
<1>1. image' = image /\ cuts' = cuts
  BY DEF SliceImage
<1>2. ImageOK' /\ CutsOK'
  BY <1>1 DEF SlicerInv, ImageOK, CutsOK, Boundary
<1>3. SlicesWritten'
  BY <1>1 DEF SliceImage, SlicesWritten, Remaining, Start, Slice, Boundary, BoundaryUnsafe
<1> QED BY <1>2, <1>3 DEF SlicerInv

\* The invariant holds throughout.
LEMMA Inductive == SlicerSpec => []SlicerInv
<1>1. SlicerInv /\ UNCHANGED slicerVars => SlicerInv'
  BY DEF slicerVars, SlicerInv, ImageOK, CutsOK, Boundary, SlicesWritten, Remaining, Start, Slice,
         BoundaryUnsafe
<1> QED BY InitInv, FindCutRowInv, SliceImageInv, <1>1, PTL DEF SlicerSpec, SlicerNext
-----------------------------------------------------------------------------
\* What the invariant says of the boundaries between the slices: they start at the first row, end
\* after the last, and are as far apart as a core may be tall.
LEMMA Boundaries ==
  ASSUME SlicerInv, slices # <<>>
  PROVE  /\ Len(cuts) \in Nat
         /\ \A i \in 0 .. Len(cuts) + 1 : Boundary(i) \in 0 .. image.height
         /\ Boundary(0) = 0 /\ Boundary(Len(cuts) + 1) = image.height
         /\ \A i \in 1 .. Len(cuts) + 1 :
              LET height == Boundary(i) - Boundary(i - 1)
              IN  /\ 0 < height /\ height <= MaxHeight
                  /\ image.height > MaxHeight => height >= MinHeight
<1> USE DEF SlicerInv
<1>1. Len(cuts) \in Nat /\ cuts \in Seq(Nat) /\ image.height \in Nat \ {0}
  BY DEF CutsOK, ImageOK
<1>2. Boundary(0) = 0 /\ Boundary(Len(cuts) + 1) = image.height
  BY <1>1 DEF Boundary
<1>3. \A i \in 1 .. Len(cuts) : Boundary(i) = cuts[i] /\ cuts[i] \in Nat
  BY <1>1 DEF Boundary
<1>4. \A i \in 0 .. Len(cuts) + 1 : Boundary(i) \in 0 .. image.height
  <2>1. ASSUME NEW i \in 1 .. Len(cuts) PROVE Boundary(i) \in 0 .. image.height
    <3>1. cuts[i] + MinHeight <= image.height
      BY DEF CutsOK
    <3> QED BY <3>1, <1>1, <1>3, Parameters
  <2>2. 0 \in 0 .. image.height /\ image.height \in 0 .. image.height
    BY <1>1
  <2>3. \A i \in 0 .. Len(cuts) + 1 : i = 0 \/ i = Len(cuts) + 1 \/ i \in 1 .. Len(cuts)
    BY <1>1
  <2> QED BY <2>1, <2>2, <2>3, <1>2
<1>5. ASSUME NEW i \in 1 .. Len(cuts) + 1
      PROVE  LET height == Boundary(i) - Boundary(i - 1)
             IN  /\ 0 < height /\ height <= MaxHeight
                 /\ image.height > MaxHeight => height >= MinHeight
  <2>1. i - 1 \in 0 .. Len(cuts) /\ Boundary(i - 1) \in Int
    BY <1>1, <1>4
  <2>2. CASE i \in 1 .. Len(cuts)
    <3>1. /\ cuts[i] \in Boundary(i - 1) + MinHeight .. Boundary(i - 1) + MaxHeight
          /\ Boundary(i) = cuts[i]
      BY <2>2, <1>3 DEF CutsOK
    <3> QED BY <2>1, <3>1, Parameters
  <2>3. CASE i = Len(cuts) + 1 /\ Len(cuts) > 0
    <3>1. Boundary(i - 1) = cuts[Len(cuts)] /\ Start = cuts[Len(cuts)]
      BY <2>3, <1>1, <1>3 DEF Start
    <3>2. cuts[Len(cuts)] + MinHeight <= image.height
      BY <2>3, <1>1 DEF CutsOK
    <3> QED BY <2>1, <2>3, <3>1, <3>2, <1>1, <1>2, Parameters DEF SlicesWritten, Remaining
  <2>4. CASE i = Len(cuts) + 1 /\ Len(cuts) = 0
    <3>1. Start = 0 /\ Boundary(i - 1) = 0
      BY <2>4, <1>1, <1>2 DEF Start
    <3> QED BY <2>4, <3>1, <1>1, <1>2, Parameters DEF SlicesWritten, Remaining
  <2> QED BY <2>2, <2>3, <2>4, <1>1
<1> QED BY <1>1, <1>2, <1>4, <1>5

\* The slices, spelled out: where each starts and ends, and why.
LEMMA SliceShape ==
  ASSUME SlicerInv, slices # <<>>
  PROVE  /\ slices \in Seq(SliceMeta) /\ Len(slices) = Len(cuts) + 1
         /\ \A i \in 1 .. Len(slices) :
              /\ slices[i].core_source_y1 = Boundary(i - 1)
              /\ slices[i].core_source_y2 = Boundary(i)
              /\ slices[i].source_height = image.height
              /\ slices[i].source_y1 \in 0 .. Boundary(i - 1)
              /\ slices[i].source_y2 \in Boundary(i) .. image.height
              /\ slices[i].core_y1 = Boundary(i - 1) - slices[i].source_y1
              /\ slices[i].core_y2 = Boundary(i) - slices[i].source_y1
              /\ i > 1 /\ BoundaryUnsafe(Boundary(i - 1)) =>
                   slices[i].source_y1 <= Larger(0, Boundary(i - 1) - OverlapContext)
              /\ i <= Len(cuts) /\ BoundaryUnsafe(Boundary(i)) =>
                   slices[i].source_y2 >= Smaller(image.height, Boundary(i) + OverlapContext)
<1>1. Len(cuts) \in Nat /\ image.height \in Nat
  BY DEF SlicerInv, CutsOK, ImageOK
<1>2. slices = [i \in 1 .. Len(cuts) + 1 |-> Slice(i)]
  BY DEF SlicerInv, SlicesWritten
<1>3. ASSUME NEW i \in 1 .. Len(cuts) + 1
      PROVE  /\ Slice(i) \in SliceMeta
             /\ Slice(i).core_source_y1 = Boundary(i - 1)
             /\ Slice(i).core_source_y2 = Boundary(i)
             /\ Slice(i).source_height = image.height
             /\ Slice(i).source_y1 \in 0 .. Boundary(i - 1)
             /\ Slice(i).source_y2 \in Boundary(i) .. image.height
             /\ Slice(i).core_y1 = Boundary(i - 1) - Slice(i).source_y1
             /\ Slice(i).core_y2 = Boundary(i) - Slice(i).source_y1
             /\ i > 1 /\ BoundaryUnsafe(Boundary(i - 1)) =>
                  Slice(i).source_y1 <= Larger(0, Boundary(i - 1) - OverlapContext)
             /\ i <= Len(cuts) /\ BoundaryUnsafe(Boundary(i)) =>
                  Slice(i).source_y2 >= Smaller(image.height, Boundary(i) + OverlapContext)
  <2>1. Boundary(i - 1) \in 0 .. image.height /\ Boundary(i) \in 0 .. image.height
    BY <1>1, Boundaries
  <2>2. BoundaryUnsafe(Boundary(i)) \in BOOLEAN /\ BoundaryUnsafe(Boundary(i - 1)) \in BOOLEAN
    BY DEF BoundaryUnsafe
  <2> DEFINE start  == Boundary(i - 1)
             end    == Boundary(i)
             before == i > 1 /\ BoundaryUnsafe(start)
             after  == i <= Len(cuts) /\ BoundaryUnsafe(end)
             top    == Larger(0, start - (IF before THEN OverlapContext ELSE 0))
             bottom == Smaller(image.height, end + (IF after THEN OverlapContext ELSE 0))
  <2>3. top \in 0 .. start /\ (before => top <= Larger(0, start - OverlapContext))
    BY <2>1, <1>1, Parameters DEF Larger
  <2>4. /\ bottom \in end .. image.height
        /\ after => bottom >= Smaller(image.height, end + OverlapContext)
    BY <2>1, <1>1, Parameters DEF Smaller
  <2>5. before \in BOOLEAN /\ after \in BOOLEAN
    BY <2>2
  <2>6. Slice(i) = [source_y1 |-> top, source_y2 |-> bottom,
                    core_y1 |-> start - top, core_y2 |-> end - top,
                    core_source_y1 |-> start, core_source_y2 |-> end,
                    unsafe_before |-> before, unsafe_after |-> after,
                    source_height |-> image.height]
    BY DEF Slice
  <2>7. start < end
    BY <1>1, Boundaries
  <2>8. start \in Nat /\ end \in Nat /\ top \in Nat /\ bottom \in Nat
        /\ start - top \in Nat /\ end - top \in Nat
    BY <1>1, <2>1, <2>3, <2>4, <2>7
  <2> HIDE DEF start, end, before, after, top, bottom
  <2>9. Slice(i) \in SliceMeta
    BY <1>1, <2>5, <2>6, <2>8 DEF SliceMeta
  <2>10. /\ Slice(i).core_source_y1 = start /\ Slice(i).core_source_y2 = end
         /\ Slice(i).source_height = image.height
         /\ Slice(i).source_y1 = top /\ Slice(i).source_y2 = bottom
         /\ Slice(i).core_y1 = start - top /\ Slice(i).core_y2 = end - top
    BY <2>6
  <2> QED BY <2>3, <2>4, <2>9, <2>10 DEF start, end, before, after
<1>4. slices \in Seq(SliceMeta) /\ Len(slices) = Len(cuts) + 1
  BY <1>1, <1>2, <1>3
<1> QED BY <1>1, <1>2, <1>3, <1>4
-----------------------------------------------------------------------------
\* The slices of every image can be put together again.
LEMMA SlicesStitch == SlicerInv => Stitchable
<1> SUFFICES ASSUME SlicerInv, slices # <<>>
             PROVE  /\ ValidStitchGroup(slices)
                    /\ \A i \in 1 .. Len(slices) :
                         /\ slices[i].source_y1 + slices[i].core_y1 = slices[i].core_source_y1
                         /\ slices[i].core_source_y2 <= slices[i].source_y2
                         /\ slices[i].source_y2 <= image.height
  BY DEF Stitchable
<1>1. Len(cuts) \in Nat /\ image.height \in Nat /\ Len(slices) = Len(cuts) + 1
  BY Boundaries, SliceShape DEF SlicerInv, ImageOK
<1>2. ASSUME NEW i \in 1 .. Len(slices)
      PROVE  /\ Boundary(i - 1) \in Nat /\ Boundary(i) \in Nat /\ Boundary(i - 1) < Boundary(i)
             /\ Boundary(i) <= image.height
             /\ slices[i].source_y1 \in Nat /\ slices[i].source_y2 \in Nat
  BY <1>1, Boundaries, SliceShape
<1>3. slices[1].core_source_y1 = 0 /\ slices[Len(slices)].core_source_y2 = image.height
  BY <1>1, Boundaries, SliceShape
<1>4. ASSUME NEW i \in 1 .. Len(slices), i > 1
      PROVE  slices[i].core_source_y1 = slices[i - 1].core_source_y2
  <2>1. i - 1 \in 1 .. Len(slices)
    BY <1>1, <1>4
  <2>2. slices[i].core_source_y1 = Boundary(i - 1) /\ slices[i - 1].core_source_y2 = Boundary(i - 1)
    BY <1>1, <1>4, <2>1, SliceShape
  <2> QED BY <2>2
<1>5. ASSUME NEW i \in 1 .. Len(slices)
      PROVE  /\ slices[i].source_height = image.height
             /\ slices[i].core_source_y1 < slices[i].core_source_y2
             /\ slices[i].core_y1 < slices[i].core_y2
             /\ slices[i].core_y2 - slices[i].core_y1
                  = slices[i].core_source_y2 - slices[i].core_source_y1
             /\ slices[i].source_y1 + slices[i].core_y1 = slices[i].core_source_y1
             /\ slices[i].core_source_y2 <= slices[i].source_y2
             /\ slices[i].source_y2 <= image.height
  BY <1>1, <1>2, SliceShape
<1> QED BY <1>1, <1>3, <1>4, <1>5 DEF ValidStitchGroup

\* No core is too tall, and none of a tall image too short.
LEMMA CoresFit == SlicerInv => CoresInBounds
<1> SUFFICES ASSUME SlicerInv, NEW i \in 1 .. Len(slices)
             PROVE  LET height == slices[i].core_source_y2 - slices[i].core_source_y1
                    IN  height <= MaxHeight /\ (image.height > MaxHeight => height >= MinHeight)
  BY DEF CoresInBounds
<1>1. slices # <<>>
  OBVIOUS
<1> QED BY <1>1, Boundaries, SliceShape

\* Of content no taller than two contexts, less than one context is on the side of a row that does
\* not hold its middle.
LEMMA HalfIsNear ==
  ASSUME NEW y1 \in Nat, NEW y2 \in Nat, NEW c \in Nat, NEW b \in Nat,
         y2 - y1 <= 2 * c
  PROVE  /\ 2 * b <= y1 + y2 => b - c <= y1
         /\ y1 + y2 < 2 * b => y2 <= b + c
  OBVIOUS

\* Content no taller than two contexts is whole in the slice whose core holds its middle.  If it
\* begins above that core, the boundary row is one of its rows; the cut there was seen to be
\* unsafe, and less than half of the content is beyond it.  The same holds below.
LEMMA ContentFits == SlicerInv => ContentIsWhole
<1> SUFFICES ASSUME SlicerInv, NEW i \in 1 .. Len(slices),
                    NEW y1 \in 0 .. image.height, NEW y2 \in 0 .. image.height,
                    y1 < y2, y2 - y1 <= 2 * OverlapContext,
                    y1 .. y2 - 1 \subseteq image.unsafe,
                    2 * slices[i].core_source_y1 <= y1 + y2,
                    y1 + y2 < 2 * slices[i].core_source_y2
             PROVE  slices[i].source_y1 <= y1 /\ y2 <= slices[i].source_y2
  BY DEF ContentIsWhole
<1>1. slices # <<>>
  OBVIOUS
<1>2. /\ Len(cuts) \in Nat /\ image.height \in Nat /\ i \in 1 .. Len(cuts) + 1
      /\ Boundary(i - 1) \in 0 .. image.height /\ Boundary(i) \in 0 .. image.height
      /\ Boundary(0) = 0 /\ Boundary(Len(cuts) + 1) = image.height
  <2>1. Len(cuts) \in Nat /\ image.height \in Nat
    BY <1>1, Boundaries DEF SlicerInv, ImageOK
  <2>2. i \in 1 .. Len(cuts) + 1
    BY <1>1, SliceShape
  <2>3. i - 1 \in 0 .. Len(cuts) + 1 /\ i \in 0 .. Len(cuts) + 1
    BY <2>1, <2>2
  <2> QED BY <1>1, <2>1, <2>2, <2>3, Boundaries
<1>3. /\ slices[i].core_source_y1 = Boundary(i - 1) /\ slices[i].core_source_y2 = Boundary(i)
      /\ slices[i].source_y1 \in 0 .. Boundary(i - 1)
      /\ slices[i].source_y2 \in Boundary(i) .. image.height
  BY <1>1, SliceShape
<1>4. ASSUME NEW y \in y1 .. y2 - 1 PROVE BoundaryUnsafe(y)
  <2>1. y \in image.unsafe /\ y \in 0 .. image.height - 1
    BY <1>2, SMTT(60)
  <2>2. y \in Larger(0, y - SafeCutBand) .. Smaller(image.height, y + SafeCutBand + 1) - 1
    BY <2>1, <1>2, Parameters, SMTT(60) DEF Larger, Smaller
  <2> QED BY <2>1, <2>2 DEF BoundaryUnsafe
<1>5. slices[i].source_y1 <= y1
  <2> SUFFICES ASSUME y1 < Boundary(i - 1) PROVE slices[i].source_y1 <= y1
    BY <1>2, <1>3, SMTT(60)
  <2>1. i > 1 /\ Boundary(i - 1) \in y1 .. y2 - 1
    <3>1. i # 1
      <4>1. CASE i = 1
        <5>1. Boundary(i - 1) = 0
          BY <1>2, <4>1
        <5> QED BY <5>1
      <4> QED BY <4>1
    <3>2. 2 * Boundary(i - 1) <= y1 + y2
      BY <1>3
    <3>3. Boundary(i - 1) \in Int /\ y1 \in Int /\ y2 \in Int
      BY <1>2
    <3>4. Boundary(i - 1) \in y1 .. y2 - 1
      BY <3>2, <3>3
    <3> QED BY <1>2, <3>1, <3>4
  <2>2. slices[i].source_y1 <= Larger(0, Boundary(i - 1) - OverlapContext)
    BY <1>1, <1>4, <2>1, SliceShape
  <2>3. Boundary(i - 1) - OverlapContext <= y1
    BY <1>2, <1>3, Parameters, HalfIsNear, SMTT(60)
  <2>4. Larger(0, Boundary(i - 1) - OverlapContext) <= y1
    BY <1>2, <2>3, Parameters, SMTT(60) DEF Larger
  <2> QED BY <1>2, <1>3, <2>2, <2>4, Parameters, SMTT(60) DEF Larger
<1>6. y2 <= slices[i].source_y2
  <2> SUFFICES ASSUME Boundary(i) < y2 PROVE y2 <= slices[i].source_y2
    BY <1>2, <1>3, SMTT(60)
  <2>1. i <= Len(cuts)
    <3>1. i # Len(cuts) + 1
      BY <1>2
    <3> QED BY <3>1, <1>2
  <2>2. Boundary(i) \in y1 .. y2 - 1
    BY <1>2, <1>3, SMTT(60)
  <2>3. slices[i].source_y2 >= Smaller(image.height, Boundary(i) + OverlapContext)
    BY <1>1, <1>4, <2>1, <2>2, SliceShape
  <2>4. y2 <= Boundary(i) + OverlapContext
    <3>1. y1 + y2 < 2 * Boundary(i)
      BY <1>3
    <3> QED BY <3>1, <1>2, Parameters, HalfIsNear, SMTT(60)
  <2>5. y2 <= Smaller(image.height, Boundary(i) + OverlapContext)
    BY <1>2, <2>4, SMTT(60) DEF Smaller
  <2>6. Smaller(image.height, Boundary(i) + OverlapContext) \in Int
    BY <1>2, Parameters DEF Smaller
  <2> QED BY <1>2, <1>3, <2>3, <2>5, <2>6, SMTT(60)
<1> QED BY <1>5, <1>6
-----------------------------------------------------------------------------
\* What slice_image leaves for the stages after it (slicer.py:40-102): slices that can be put
\* together again, of allowed heights, with every text whole in one of them.
THEOREM SlicesAreGood == SlicerSpec => []SlicesOK
<1>1. SlicerInv => SlicerTypeOK
  <2> SUFFICES ASSUME SlicerInv PROVE SlicerTypeOK
    OBVIOUS
  <2>1. slices \in Seq(SliceMeta)
    <3>1. CASE slices = <<>>
      BY <3>1
    <3>2. CASE slices # <<>>
      BY <3>2, SliceShape
    <3> QED BY <3>1, <3>2
  <2> QED BY <2>1 DEF SlicerInv, ImageOK, CutsOK, SlicerTypeOK
<1>2. SlicerInv => SlicesOK
  BY <1>1, SlicesStitch, CoresFit, ContentFits DEF SlicesOK
<1> QED BY <1>2, Inductive, PTL
-----------------------------------------------------------------------------
(* The stages after the slicer. *)

\* Seen through image, cuts and slices, the chapter of Seams is cut as SlicerSpec says: no search,
\* joined line, translation or export changes a slice.
THEOREM CutsAreKept == SeamsSpec => SlicerSpec
<1>1. SeamsInit => SlicerInit
  BY DEF SeamsInit
<1>2. SeamsNext => SlicerNext \/ UNCHANGED slicerVars
  <2> SUFFICES ASSUME SeamsNext PROVE SlicerNext \/ UNCHANGED slicerVars
    OBVIOUS
  <2>1. CASE Cut
    BY <2>1 DEF Cut, SlicerNext
  <2>2. CASE WriteSlices
    BY <2>2 DEF WriteSlices, SlicerNext
  <2>3. ASSUME NEW i \in Slices, Skip(i) PROVE UNCHANGED slicerVars
    BY <2>3 DEF Skip, slicerVars
  <2>4. ASSUME NEW chosen \in SUBSET Slices \ {{}}, ProcessPages(chosen)
        PROVE  UNCHANGED slicerVars
    BY <2>4 DEF ProcessPages, slicerVars
  <2>5. CASE JoinStackedLines
    BY <2>5 DEF JoinStackedLines, slicerVars
  <2>6. CASE TranslateSlices
    BY <2>6 DEF TranslateSlices, slicerVars
  <2>7. CASE SyncSeams
    BY <2>7 DEF SyncSeams, slicerVars
  <2>8. CASE ExportChapter
    BY <2>8 DEF ExportChapter, slicerVars
  <2> QED BY <2>1, <2>2, <2>3, <2>4, <2>5, <2>6, <2>7, <2>8 DEF SeamsNext
<1>3. UNCHANGED seamsVars => UNCHANGED slicerVars
  BY DEF seamsVars, slicerVars
<1> QED BY <1>1, <1>2, <1>3, PTL DEF SeamsSpec, SlicerSpec

\* Whatever the images, the parameters and the order of searches and skips, the export finds the
\* slices it demands (_validate_stitch_group, export.py:256-320), and every text of up to two
\* contexts is whole in the slice whose core holds its middle.
THEOREM SlicesStaySound == SeamsSpec => []SlicesAreSound
<1>1. SlicesOK => SlicesAreSound
  BY DEF SlicesAreSound
<1> QED BY <1>1, CutsAreKept, SlicesAreGood, PTL

-----------------------------------------------------------------------------
(* Lettering: what its variables hold.                                      *)

Origin == Source \cup {"user"}
Asker == {"user", "translator", "chapter"}
Asked == [at : {"asked"}, page : Page, by : Asker, text : AnyText, origin : Origin]
Drawing == [at : {"drawing"}, page : Page, by : Asker, text : AnyText, origin : Origin,
            drawn : AnyText, seal : Signature]
Drawn == [at : {"drawn", "compared"}, page : Page, by : Asker, text : AnyText, origin : Origin,
          seal : Signature, picture : Picture]
Published == [at : {"published"}, page : Page, by : Asker, text : AnyText, origin : Origin,
              old : File \cup {None}, seal : Signature]
RenderRecord == Asked \cup Drawing \cup Drawn \cup Published \cup {Idle}

Answered == [at : {"asked"}, page : Page, source : Source, text : AnyText, revision : Nat]
Translated == [at : {"committed"}, page : Page]
TranslatorRecord == Answered \cup Translated \cup {Idle}

Path == [from : {"original", "output"}, stamp : Nat]
Packing == [at : {"packing"}, force : BOOLEAN, paths : [Page -> Path],
            packed : [Page -> Picture \cup {None}]]
Painting == [at : {"painted"}, page : Page, image : Nat]

Typed ==
  /\ page \in [Page -> PageRecord]
  /\ chapter \in [script : BOOLEAN, final : BOOLEAN]
  /\ base \in [Page -> [image : Nat, stamp : Nat]]
  /\ out \in [Page -> File \cup {None}]
  /\ clock \in Nat
  /\ pending \in SUBSET [page : Page, source : Source]
  /\ cleaning \in Painting \cup {Idle}
  /\ translator \in TranslatorRecord
  /\ render \in [Renderer -> RenderRecord]
  /\ lock \in Renderer \cup {None}
  /\ export \in Packing \cup {Idle}
  /\ archive = None \/ archive \in [Page -> Picture \cup {None}]
  /\ edits \in 0..MaxEdits /\ renders \in 0..MaxRenders
  /\ origin \in [Page -> Origin]
  /\ approvedAs \in [Page -> Picture \cup {None}]
  /\ lost \in SUBSET Page /\ overwritten \in SUBSET Page /\ slipped \in SUBSET Page

(* Texts. *)

\* The text of a record is the machine's, and was made for the source o.
Machine(g, o) == g.text = Blank \/ (g.auto # None /\ g.auto.text = g.text /\ g.auto.input = o)

\* A text that no user wrote is the one the record says a machine made.
Traced(p) == origin[p] = "user" \/ p \in overwritten \/ Machine(page[p], origin[p])

\* The source edit that is to be reconciled is the last one.
Pending(p) == [page |-> p, source |-> page[p].source] \in pending

Fits(p) ==
  \/ page[p].text = Blank \/ origin[p] \in {"user", page[p].source}
  \/ p \in overwritten \/ Pending(p) \/ p \in lost \/ page[p].dropped \/ page[p].skipped

\* A render after a translation asks for what the record has.
AsksOfRecord(r) == render[r].at # "idle" /\ render[r].by = "translator" => render[r].text = Blank

TextsInv ==
  /\ \A p \in Page : Traced(p) /\ Fits(p)
  /\ \A r \in Renderer : AsksOfRecord(r)

(* Pictures. *)

\* No stamp is from the future.
Stamps ==
  /\ \A p \in Page : base[p].stamp <= clock /\ page[p].stamp <= clock
  /\ \A p \in Page : out[p] # None => out[p].stamp <= clock

\* The image was taken from the base when that had the stamp, or has gone with it.
Shows(p, stamp, i) ==
  /\ stamp <= base[p].stamp
  /\ stamp = base[p].stamp => i = base[p].image

\* What is drawn for a request with the text t on a record with this seal.
TextFor(t, seal) == IF seal.dropped THEN Blank ELSE IF t # Blank THEN t ELSE seal.text

\* The record is still the one of the seal, whatever became of the base.
AsSealed(g, seal) == SignatureOf(g, seal.stamp) = seal

RenderOK(r) ==
  LET w == render[r]
  IN  /\ w.at = "drawing" =>
           ~w.seal.skipped /\ w.drawn = TextFor(w.text, w.seal) /\ w.seal.stamp <= base[w.page].stamp
      /\ w.at \in {"drawn", "compared"} =>
           /\ ~w.seal.skipped /\ w.picture.text = TextFor(w.text, w.seal)
           /\ Shows(w.page, w.seal.stamp, w.picture.image)
      /\ w.at = "compared" => AsSealed(page[w.page], w.seal)
      /\ w.at = "published" =>
           /\ ~w.seal.skipped /\ AsSealed(Persisted(r), w.seal)
           /\ out[w.page] # None
           /\ out[w.page].picture.text = TextFor(Blank, w.seal)
           /\ w.page \in slipped \/ Shows(w.page, w.seal.stamp, out[w.page].picture.image)
      /\ w.at \in {"compared", "published"} <=> lock = r

\* The record and the published file are of one render.
OfOneRender(p) == out[p] # None /\ page[p].stamp = out[p].stamp

Sealed(p) ==
  page[p].rendered /\ OfOneRender(p) =>
    /\ page[p].seal \in Signature /\ ~page[p].seal.skipped
    /\ out[p].picture.text = TextFor(Blank, page[p].seal)
    /\ p \in slipped \/ Shows(p, page[p].seal.stamp, out[p].picture.image)

PicturesInv ==
  /\ Stamps
  /\ \A r \in Renderer : RenderOK(r)
  /\ \A p \in Page : Sealed(p)

(* Archives. *)

\* What is packed is the file the path means, if that is still there.
Packed(p) ==
  LET path == export.paths[p]
  IN  /\ path.from = "original" /\ export.packed[p] # None => export.packed[p] = Original
      /\ path.from = "output" =>
           /\ path.stamp <= clock
           /\ out[p] # None =>
                /\ path.stamp <= out[p].stamp
                /\ path.stamp = out[p].stamp /\ export.packed[p] # None
                     => export.packed[p] = out[p].picture

ExportInv == export # Idle => \A p \in Page : Packed(p)

\* A render that is approved was seen.
ApprovedInv ==
  \A p \in Page :
    /\ page[p].approved <= page[p].render
    /\ page[p].approved = page[p].render /\ page[p].render > 0 /\ OfOneRender(p)
         => approvedAs[p] = out[p].picture

\* The inductive invariant.
LetteringInv == Typed /\ TextsInv /\ PicturesInv /\ ExportInv /\ ApprovedInv
-----------------------------------------------------------------------------
LEMMA LetteringInit == Init => LetteringInv
<1> SUFFICES ASSUME Init PROVE LetteringInv
  OBVIOUS
<1>1. Typed
  <2> DEFINE First(s, t) ==
        [source |-> s, boxText |-> s, autoText |-> s, text |-> t, auto |-> None,
         reviewed |-> None, dropped |-> FALSE, skipped |-> FALSE, revision |-> 1,
         rendered |-> FALSE, seal |-> None, stamp |-> 0, render |-> 0, approved |-> 0]
  <2>0. \A s \in Source, t \in AnyText : First(s, t) \in PageRecord
    BY DEF PageRecord
  <2>1. page \in [Page -> PageRecord]
    <3>1. page \in [Page -> {First(s, t) : s \in Source, t \in AnyText}]
      BY DEF Init
    <3> HIDE DEF First
    <3> QED
      BY <2>0, <3>1
  <2> QED
    BY <2>1, LetteringAssumption
       DEF Init, Typed, TranslatorRecord, RenderRecord, Origin
<1>2. \A p \in Page : page[p].rendered = FALSE /\ page[p].stamp = 0 /\ page[p].render = 0
                      /\ page[p].approved = 0
  BY DEF Init
<1>3. \A r \in Renderer : render[r].at = "idle"
  BY DEF Init, Idle
<1>4. TextsInv
  BY <1>3 DEF Init, TextsInv, Traced, Fits, AsksOfRecord
<1>5. PicturesInv
  <2>1. Stamps
    BY <1>2 DEF Init, Stamps
  <2>2. \A r \in Renderer : RenderOK(r)
    BY <1>3, LetteringAssumption DEF Init, RenderOK
  <2> QED
    BY <1>2, <2>1, <2>2 DEF PicturesInv, Sealed
<1>6. ExportInv /\ ApprovedInv
  BY <1>2 DEF Init, ExportInv, ApprovedInv
<1> QED
  BY <1>1, <1>4, <1>5, <1>6 DEF LetteringInv
-----------------------------------------------------------------------------
(* What is done to a record.                                                *)

\* The fields that say which render a record has.
Marks(g) == [seal |-> g.seal, stamp |-> g.stamp, render |-> g.render, approved |-> g.approved]

\* A record without its render.
LEMMA UnrenderedRecord ==
  ASSUME NEW g \in PageRecord
  PROVE  /\ Unrendered(g) \in PageRecord /\ ~Unrendered(g).rendered
         /\ Marks(Unrendered(g)) = Marks(g)
         /\ Unrendered(g).source = g.source /\ Unrendered(g).text = g.text
         /\ Unrendered(g).auto = g.auto /\ Unrendered(g).dropped = g.dropped
         /\ Unrendered(g).skipped = g.skipped /\ Unrendered(g).revision = g.revision
  BY DEF Unrendered, PageRecord, Marks

\* A machine's text that was made for another source is taken away.
LEMMA InvalidateStaleRecord ==
  ASSUME NEW g \in PageRecord, NEW s \in Source
  PROVE  LET h == InvalidateStale(g, s)
         IN  /\ h \in PageRecord /\ Marks(h) = Marks(g)
             /\ h.source = g.source /\ h.dropped = g.dropped /\ h.skipped = g.skipped
             /\ h.revision = g.revision
             /\ \A o : Machine(g, o) => Machine(h, o) /\ (h.text = Blank \/ o = s)
             /\ h.text \in {g.text, Blank}
<1> DEFINE h == InvalidateStale(g, s)
<1>1. CASE g.auto # None /\ g.auto.input # s /\ g.text = g.auto.text
  <2>1. h = [g EXCEPT !.text = Blank, !.auto = None]
    BY <1>1 DEF InvalidateStale
  <2>2. Blank \in AnyText
    BY DEF AnyText
  <2> QED
    BY <2>1, <2>2 DEF PageRecord, Marks, Machine
<1>2. CASE ~(g.auto # None /\ g.auto.input # s /\ g.text = g.auto.text)
  <2>1. h = g
    BY <1>2 DEF InvalidateStale
  <2> QED
    BY <1>2, <2>1 DEF Machine
<1> QED
  BY <1>1, <1>2

\* A record brought in line with its box has no text of another source.
LEMMA SyncExistingRecord ==
  ASSUME NEW g \in PageRecord
  PROVE  LET h == SyncExisting(g)
         IN  /\ h \in PageRecord /\ Marks(h) = Marks(g)
             /\ h.dropped = g.dropped /\ h.skipped = g.skipped /\ h.revision = g.revision
             /\ \A o : Machine(g, o) => Machine(h, o) /\ (h.text = Blank \/ o = h.source)
             /\ h.text \in {g.text, Blank}
<1>1. CASE g.source = g.autoText
  <2> DEFINE k == InvalidateStale(g, g.boxText)
             h == [k EXCEPT !.source = g.boxText, !.autoText = g.boxText]
  <2>1. g.boxText \in Source
    BY DEF PageRecord
  <2>2. /\ k \in PageRecord /\ Marks(k) = Marks(g)
        /\ k.dropped = g.dropped /\ k.skipped = g.skipped /\ k.revision = g.revision
        /\ \A o : Machine(g, o) => Machine(k, o) /\ (k.text = Blank \/ o = g.boxText)
        /\ k.text \in {g.text, Blank}
    BY <2>1, InvalidateStaleRecord
  <2>3. SyncExisting(g) = h
    BY <1>1 DEF SyncExisting
  <2> HIDE DEF k
  <2>4. /\ h \in PageRecord /\ Marks(h) = Marks(k) /\ h.source = g.boxText
        /\ h.dropped = k.dropped /\ h.skipped = k.skipped /\ h.revision = k.revision
        /\ h.text = k.text /\ h.auto = k.auto
    BY <2>1, <2>2 DEF PageRecord, Marks
  <2> HIDE DEF h
  <2> QED
    BY <2>2, <2>3, <2>4 DEF Machine
<1>2. CASE g.source # g.autoText
  <2>1. SyncExisting(g) = InvalidateStale(g, g.source) /\ g.source \in Source
    BY <1>2 DEF SyncExisting, PageRecord
  <2> QED
    BY <2>1, InvalidateStaleRecord
<1> QED
  BY <1>1, <1>2

\* So has one of a page whose objects are looked over.
LEMMA EnsureTextObjectsRecord ==
  ASSUME NEW g \in PageRecord
  PROVE  LET h == EnsureTextObjects(g)
         IN  /\ h \in PageRecord /\ Marks(h) = Marks(g)
             /\ h.dropped = g.dropped /\ h.skipped = g.skipped /\ h.revision = g.revision
             /\ \A o : Machine(g, o) =>
                  Machine(h, o) /\ (h.text = Blank \/ o = h.source \/ h.dropped \/ h.skipped)
             /\ h.text \in {g.text, Blank}
  BY SyncExistingRecord DEF EnsureTextObjects

-----------------------------------------------------------------------------
(* Steps that publish nothing.                                              *)

\* The text of a page, and what excuses it, stays.
TextKept(p) ==
  /\ page'[p].text = page[p].text /\ page'[p].auto = page[p].auto
  /\ page'[p].source = page[p].source /\ page'[p].dropped = page[p].dropped
  /\ page'[p].skipped = page[p].skipped
  /\ origin'[p] = origin[p]
  /\ p \in overwritten => p \in overwritten'
  /\ Pending(p) \/ p \in lost => Pending(p)' \/ p \in lost'

LEMMA TextStays ==
  ASSUME NEW p \in Page, Traced(p), Fits(p), TextKept(p)
  PROVE  (Traced(p) /\ Fits(p))'
  BY DEF Traced, Fits, TextKept, Machine

\* A record loses its render, or keeps it with its marks.
RecordCalm(p) ==
  /\ page'[p].stamp = page[p].stamp
  /\ page'[p].rendered => page[p].rendered /\ page'[p].seal = page[p].seal

\* A picture goes or stays.
FileCalm(p) == out'[p] = out[p] \/ out'[p] = None

\* A base that is replaced gets a stamp of its own.
BaseCalm ==
  /\ clock <= clock'
  /\ \A p \in Page : base'[p] = base[p] \/ (base'[p].stamp = clock' /\ clock < clock')

\* The review of a render stays.
ReviewCalm(p) ==
  /\ page'[p].render = page[p].render /\ page'[p].approved = page[p].approved
  /\ approvedAs'[p] = approvedAs[p]

Calm ==
  /\ \A p \in Page : RecordCalm(p) /\ FileCalm(p)
  /\ BaseCalm /\ slipped' = slipped

LEMMA BaseMoves ==
  ASSUME Typed, Typed', Stamps, BaseCalm, NEW p \in Page
  PROVE  /\ base'[p] = base[p] \/ base[p].stamp < base'[p].stamp
         /\ base[p].stamp \in Nat /\ base'[p].stamp \in Nat /\ base'[p].stamp <= clock'
<1>1. /\ base[p].stamp \in Nat /\ base'[p].stamp \in Nat /\ clock \in Nat /\ clock' \in Nat
      /\ base[p].stamp <= clock
  BY DEF Typed, Stamps
<1>2. clock <= clock' /\ (base'[p] = base[p] \/ (base'[p].stamp = clock' /\ clock < clock'))
  BY DEF BaseCalm
<1> QED
  BY <1>1, <1>2

LEMMA ShownStays ==
  ASSUME Typed, Typed', Stamps, BaseCalm, NEW p \in Page, NEW s \in Nat, NEW i, Shows(p, s, i)
  PROVE  Shows(p, s, i)'
  BY BaseMoves DEF Shows

LEMMA CalmStamps ==
  ASSUME Typed, Typed', Stamps, Calm
  PROVE  Stamps'
<1>1. ASSUME NEW p \in Page PROVE base'[p].stamp <= clock' /\ page'[p].stamp <= clock'
  <2>1. page[p].stamp <= clock /\ page'[p].stamp = page[p].stamp /\ clock <= clock'
    BY DEF Stamps, Calm, RecordCalm, BaseCalm
  <2>2. page[p].stamp \in Nat /\ clock \in Nat /\ clock' \in Nat
    BY DEF Typed, PageRecord
  <2> QED
    BY <2>1, <2>2, BaseMoves DEF Calm
<1>2. ASSUME NEW p \in Page, out'[p] # None PROVE out'[p].stamp <= clock'
  <2>1. out'[p] = out[p] /\ out[p].stamp <= clock /\ clock <= clock'
    BY <1>2 DEF Stamps, Calm, FileCalm, BaseCalm
  <2>2. out[p].stamp \in Nat /\ clock \in Nat /\ clock' \in Nat
    BY <1>2, <2>1 DEF Typed, File
  <2> QED
    BY <2>1, <2>2
<1> QED
  BY <1>1, <1>2 DEF Stamps

LEMMA CalmSealed ==
  ASSUME Typed, Typed', Stamps, Calm, NEW p \in Page, Sealed(p)
  PROVE  Sealed(p)'
<1> DEFINE s == page[p].seal
           f == out[p]
<1> SUFFICES ASSUME page'[p].rendered, OfOneRender(p)'
             PROVE  /\ page'[p].seal = s /\ out'[p] = f /\ s \in Signature /\ ~s.skipped
                    /\ f.picture.text = TextFor(Blank, s)
                    /\ p \in slipped' \/ Shows(p, s.stamp, f.picture.image)'
  BY DEF Sealed, TextFor, Shows
<1>1. /\ out'[p] = out[p] /\ out[p] # None /\ page[p].rendered
      /\ page'[p].stamp = page[p].stamp /\ page'[p].seal = page[p].seal
  BY DEF Calm, FileCalm, RecordCalm, OfOneRender
<1>2. OfOneRender(p)
  BY <1>1 DEF OfOneRender
<1>3. slipped' = slipped
  BY DEF Calm
<1>4. s \in Signature /\ ~s.skipped /\ f.picture.text = TextFor(Blank, s)
      /\ (p \in slipped \/ Shows(p, s.stamp, f.picture.image))
  BY <1>1, <1>2 DEF Sealed
<1>5. ASSUME p \notin slipped PROVE Shows(p, s.stamp, f.picture.image)'
  <2>1. Shows(p, s.stamp, f.picture.image) /\ s.stamp \in Nat
    BY <1>4, <1>5 DEF Signature
  <2>2. /\ base'[p] = base[p] \/ base[p].stamp < base'[p].stamp
        /\ base[p].stamp \in Nat /\ base'[p].stamp \in Nat
    BY BaseMoves DEF Calm
  <2>3. s.stamp <= base[p].stamp /\ (s.stamp = base[p].stamp => f.picture.image = base[p].image)
    BY <2>1 DEF Shows
  <2> HIDE DEF s, f
  <2>4. s.stamp <= base'[p].stamp /\ (s.stamp = base'[p].stamp => f.picture.image = base'[p].image)
    BY <2>1, <2>2, <2>3
  <2> QED
    BY <1>1, <2>4 DEF Shows, s, f
<1> QED
  BY <1>1, <1>3, <1>4, <1>5

\* A render stays as it was, and so does what it publishes.
RenderStays(r) ==
  /\ render'[r] = render[r] /\ (lock' = r <=> lock = r)
  /\ lock = r => UNCHANGED <<page, out, slipped>>

\* A render is over.
RenderGone(r) == render'[r] = Idle /\ lock' # r

LEMMA RenderKept ==
  ASSUME Typed, Typed', Stamps, BaseCalm, NEW r \in Renderer, RenderOK(r),
         RenderStays(r) \/ RenderGone(r)
  PROVE  RenderOK(r)'
<1>1. CASE RenderGone(r)
  <2>1. render'[r].at = "idle"
    BY <1>1 DEF RenderGone, Idle
  <2> QED
    BY <1>1, <2>1 DEF RenderGone, RenderOK
<1>2. CASE RenderStays(r)
  <2> PICK w : w = render[r]
    OBVIOUS
  <2>0. render[r] = w /\ render'[r] = w /\ (lock' = r <=> lock = r)
    BY <1>2 DEF RenderStays
  <2>1. w.at \in {"drawing", "drawn", "compared", "published"} =>
          w.page \in Page /\ w.seal.stamp \in Nat
    BY <2>0 DEF Typed, RenderRecord, Asked, Drawing, Drawn, Published, Idle, Signature
  <2>2. ASSUME w.at = "drawing"
        PROVE  /\ ~w.seal.skipped /\ w.drawn = TextFor(w.text, w.seal)
               /\ w.seal.stamp <= base'[w.page].stamp
    <3>1. PICK q \in Page : q = w.page
      BY <2>1, <2>2
    <3>2. w.seal.stamp <= base[q].stamp
      BY <2>0, <2>2, <3>1 DEF RenderOK
    <3>3. base'[q] = base[q] \/ base[q].stamp < base'[q].stamp
      BY BaseMoves
    <3>4. base[q].stamp \in Nat /\ base'[q].stamp \in Nat /\ w.seal.stamp \in Nat
      BY <2>1, <2>2, BaseMoves
    <3>5. w.seal.stamp <= base'[q].stamp
      BY <3>2, <3>3, <3>4
    <3> QED
      BY <2>0, <2>2, <3>1, <3>5 DEF RenderOK
  <2>3. ASSUME w.at \in {"drawn", "compared"}
        PROVE  /\ ~w.seal.skipped /\ w.picture.text = TextFor(w.text, w.seal)
               /\ Shows(w.page, w.seal.stamp, w.picture.image)'
    <3>1. PICK q \in Page : q = w.page
      BY <2>1, <2>3
    <3>2. PICK s \in Nat : s = w.seal.stamp
      BY <2>1, <2>3
    <3>3. PICK i : i = w.picture.image
      OBVIOUS
    <3>4. Shows(q, s, i)
      BY <2>0, <2>3, <3>1, <3>2, <3>3 DEF RenderOK
    <3>5. Shows(q, s, i)'
      BY <3>4, ShownStays
    <3>6. s <= base'[q].stamp /\ (s = base'[q].stamp => i = base'[q].image)
      BY <3>5 DEF Shows
    <3> QED
      BY <2>0, <2>3, <3>1, <3>2, <3>3, <3>6 DEF RenderOK, Shows
  <2>4. w.at \in {"compared", "published"} <=> lock = r
    BY <2>0 DEF RenderOK
  <2>5. ASSUME w.at \in {"compared", "published"}
        PROVE  page' = page /\ out' = out /\ slipped' = slipped
    BY <1>2, <2>4, <2>5 DEF RenderStays
  <2>6. ASSUME w.at = "compared" PROVE AsSealed(page'[w.page], w.seal)
    BY <2>0, <2>5, <2>6 DEF RenderOK
  <2> PICK f : f = out'[w.page]
    OBVIOUS
  <2>7. ASSUME w.at = "published"
        PROVE  /\ ~w.seal.skipped /\ AsSealed(Persisted(r)', w.seal)
               /\ f # None /\ f.picture.text = TextFor(Blank, w.seal)
               /\ w.page \in slipped' \/ Shows(w.page, w.seal.stamp, f.picture.image)'
    <3>1. PICK q \in Page : q = w.page
      BY <2>1, <2>7
    <3>2. PICK s \in Nat : s = w.seal.stamp
      BY <2>1, <2>7
    <3>3. f = out[q]
      BY <2>5, <2>7, <3>1
    <3>4. page' = page /\ out'[q] = f /\ slipped' = slipped
      BY <2>5, <2>7, <3>3
    <3>5. Persisted(r)' = Persisted(r)
      BY <2>0, <3>4 DEF Persisted
    <3>6. /\ ~w.seal.skipped /\ AsSealed(Persisted(r), w.seal)
          /\ f # None /\ f.picture.text = TextFor(Blank, w.seal)
          /\ q \in slipped \/ Shows(q, s, f.picture.image)
      BY <2>0, <2>7, <3>1, <3>2, <3>3 DEF RenderOK
    <3>7. ASSUME Shows(q, s, f.picture.image) PROVE Shows(q, s, f.picture.image)'
      <4>1. PICK i : i = f.picture.image
        OBVIOUS
      <4>2. Shows(q, s, i)'
        BY <3>7, <4>1, ShownStays
      <4> QED
        BY <4>1, <4>2 DEF Shows
    <3>8. q \in slipped' \/ Shows(q, s, f.picture.image)'
      BY <3>4, <3>6, <3>7
    <3>9. q \in slipped' \/ (s <= base'[q].stamp
                                  /\ (s = base'[q].stamp => f.picture.image = base'[q].image))
      BY <3>8 DEF Shows
    <3>10. ~w.seal.skipped /\ AsSealed(Persisted(r)', w.seal)
      BY <3>5, <3>6
    <3>11. /\ f # None /\ f.picture.text = TextFor(Blank, w.seal)
           /\ w.page \in slipped' \/ Shows(w.page, w.seal.stamp, f.picture.image)'
      BY <3>1, <3>2, <3>6, <3>9 DEF Shows
    <3> QED
      BY <3>1, <3>4, <3>10, <3>11
  <2>8. f = out'[w.page]
    OBVIOUS
  <2> QED
    BY <2>0, <2>2, <2>3, <2>4, <2>6, <2>7, <2>8 DEF RenderOK
<1> QED
  BY <1>1, <1>2

LEMMA ExportKept ==
  ASSUME Typed, Typed', Calm, ExportInv, export' \in {export, Idle}
  PROVE  ExportInv'
<1> SUFFICES ASSUME export' # Idle, NEW p \in Page PROVE Packed(p)'
  BY DEF ExportInv
<1>1. export' = export /\ Packed(p)
  BY DEF ExportInv
<1>2. out'[p] = out[p] \/ out'[p] = None
  BY DEF Calm, FileCalm
<1>3. clock <= clock' /\ clock \in Nat /\ clock' \in Nat /\ export.paths[p].stamp \in Nat
  BY <1>1 DEF Calm, BaseCalm, Typed, Packing, Path
<1> QED
  BY <1>1, <1>2, <1>3 DEF Packed

LEMMA ApprovedKept ==
  ASSUME Calm, ApprovedInv, \A p \in Page : ReviewCalm(p)
  PROVE  ApprovedInv'
<1> SUFFICES ASSUME NEW p \in Page
             PROVE  /\ page'[p].approved <= page'[p].render
                    /\ page'[p].approved = page'[p].render /\ page'[p].render > 0 /\ OfOneRender(p)'
                         => approvedAs'[p] = out'[p].picture
  BY DEF ApprovedInv
<1>1. page'[p].render = page[p].render /\ page'[p].approved = page[p].approved
      /\ approvedAs'[p] = approvedAs[p]
  BY DEF ReviewCalm
<1>2. page'[p].stamp = page[p].stamp /\ (out'[p] = out[p] \/ out'[p] = None)
  BY DEF Calm, FileCalm, RecordCalm
<1>3. OfOneRender(p)' => OfOneRender(p) /\ out'[p] = out[p]
  BY <1>2 DEF OfOneRender
<1>4. /\ page[p].approved <= page[p].render
      /\ page[p].approved = page[p].render /\ page[p].render > 0 /\ OfOneRender(p)
           => approvedAs[p] = out[p].picture
  BY DEF ApprovedInv
<1> QED
  BY <1>1, <1>3, <1>4

\* Steps that publish nothing keep what was published, and what is archived and approved.
LEMMA CalmKept ==
  ASSUME LetteringInv, Typed', Calm,
         (\A p \in Page : ReviewCalm(p)) \/ ApprovedInv',
         export' \in {export, Idle} \/ ExportInv',
         \A p \in Page : (Traced(p) /\ Fits(p))',
         \A r \in Renderer : AsksOfRecord(r)' /\ RenderOK(r)'
  PROVE  LetteringInv'
<1>0. Typed /\ Stamps /\ ExportInv /\ ApprovedInv /\ \A p \in Page : Sealed(p)
  BY DEF LetteringInv, PicturesInv
<1>1. Stamps' /\ \A p \in Page : Sealed(p)'
  BY <1>0, CalmStamps, CalmSealed
<1>2. ExportInv' /\ ApprovedInv'
  BY <1>0, ExportKept, ApprovedKept
<1> QED
  BY <1>1, <1>2 DEF LetteringInv, PicturesInv, TextsInv

-----------------------------------------------------------------------------
(* Steps that change the record of one page under the lock.                 *)

\* The record of p is replaced by h, and its picture stays or goes.
Rewritten(p, h) ==
  /\ lock = None
  /\ h \in PageRecord /\ Marks(h) = Marks(page[p]) /\ (h.rendered => page[p].rendered)
  /\ page' = [page EXCEPT ![p] = h]
  /\ out' = out \/ SyncOutput(p)
  /\ UNCHANGED <<base, clock, render, lock, export, slipped, approvedAs>>

LEMMA RewrittenRecords ==
  ASSUME Typed, NEW p \in Page, NEW h, Rewritten(p, h)
  PROVE  /\ page' \in [Page -> PageRecord] /\ out' \in [Page -> File \cup {None}]
         /\ page'[p] = h /\ \A q \in Page : q # p => page'[q] = page[q]
<1>1. /\ page \in [Page -> PageRecord] /\ h \in PageRecord /\ page' = [page EXCEPT ![p] = h]
      /\ out \in [Page -> File \cup {None}] /\ (out' = out \/ out' = [out EXCEPT ![p] = None])
  BY DEF Typed, Rewritten, SyncOutput
<1> QED
  BY <1>1

LEMMA RewrittenKept ==
  ASSUME LetteringInv, Typed', NEW p \in Page, NEW h, Rewritten(p, h),
         (Traced(p) /\ Fits(p))', \A q \in Page : q # p => TextKept(q)
  PROVE  LetteringInv'
<1>1. Typed /\ Stamps /\ TextsInv /\ (\A r \in Renderer : RenderOK(r))
  BY DEF LetteringInv, PicturesInv
<1>2. page'[p] = h /\ \A q \in Page : q # p => page'[q] = page[q]
  BY <1>1, RewrittenRecords
<1>3. Calm
  <2>1. ASSUME NEW q \in Page PROVE RecordCalm(q)
    BY <1>2 DEF Rewritten, RecordCalm, Marks
  <2>2. ASSUME NEW q \in Page PROVE FileCalm(q)
    <3>1. out' = out \/ out' = [out EXCEPT ![p] = None]
      BY DEF Rewritten, SyncOutput
    <3>2. out \in [Page -> File \cup {None}]
      BY <1>1 DEF Typed
    <3> QED
      BY <3>1, <3>2 DEF FileCalm, Rewritten
  <2>3. BaseCalm /\ slipped' = slipped
    BY <1>1 DEF Rewritten, Typed, BaseCalm
  <2> QED
    BY <2>1, <2>2, <2>3 DEF Calm
<1>4. \A q \in Page : ReviewCalm(q)
  BY <1>2 DEF Rewritten, ReviewCalm, Marks
<1>5. \A q \in Page : (Traced(q) /\ Fits(q))'
  <2> SUFFICES ASSUME NEW q \in Page PROVE (Traced(q) /\ Fits(q))'
    OBVIOUS
  <2>1. CASE q = p
    BY <2>1
  <2>2. CASE q # p
    <3>1. TextKept(q) /\ Traced(q) /\ Fits(q)
      BY <1>1, <2>2 DEF TextsInv
    <3> QED
      BY <3>1, TextStays
  <2> QED
    BY <2>1, <2>2
<1>6. \A r \in Renderer : AsksOfRecord(r)' /\ RenderOK(r)'
  <2> SUFFICES ASSUME NEW r \in Renderer PROVE AsksOfRecord(r)' /\ RenderOK(r)'
    OBVIOUS
  <2>1. RenderStays(r)
    BY LetteringAssumption DEF Rewritten, RenderStays
  <2>2. RenderOK(r)'
    BY <1>1, <1>3, <2>1, RenderKept DEF Calm
  <2>3. AsksOfRecord(r)'
    BY <1>1 DEF Rewritten, AsksOfRecord, TextsInv
  <2> QED
    BY <2>2, <2>3
<1>7. export' \in {export, Idle}
  BY DEF Rewritten
<1> QED
  BY <1>3, <1>4, <1>5, <1>6, <1>7, CalmKept

-----------------------------------------------------------------------------
(* The edits of a record, one by one.                                       *)

LEMMA EditTyped ==
  ASSUME Typed, Edit
  PROVE  edits' \in 0..MaxEdits
  BY LetteringAssumption DEF Typed, Edit

\* What an edit writes leaves the marks of the render.
Edited(g, h) ==
  h \in PageRecord /\ Marks(h) = Marks(g) /\ h.rendered = g.rendered /\ h.auto = g.auto

LEMMA TextEdited ==
  ASSUME NEW g \in PageRecord, NEW t \in AnyText
  PROVE  Edited(g, [g EXCEPT !.text = t])
  BY DEF Edited, PageRecord, Marks

LEMMA SourceEdited ==
  ASSUME NEW g \in PageRecord, NEW s \in Source
  PROVE  LET h == [g EXCEPT !.source = s]
         IN  Edited(g, h) /\ h.source = s /\ h.text = g.text
  BY DEF Edited, PageRecord, Marks

LEMMA BoxTextEdited ==
  ASSUME NEW g \in PageRecord, NEW s \in Source
  PROVE  LET h == [g EXCEPT !.boxText = s] IN Edited(g, h) /\ h.text = g.text
  BY DEF Edited, PageRecord, Marks

LEMMA DroppedEdited ==
  ASSUME NEW g \in PageRecord
  PROVE  LET h == Turned(g) IN Edited(g, h) /\ h.text = g.text
  BY DEF Edited, PageRecord, Marks, Turned, Revised

LEMMA RevisionEdited ==
  ASSUME NEW g \in PageRecord
  PROVE  LET h == Revised(g)
         IN  /\ Edited(g, h) /\ h.text = g.text /\ h.source = g.source
             /\ h.dropped = g.dropped /\ h.skipped = g.skipped
  BY DEF Edited, PageRecord, Marks, Turned, Revised

LEMMA SkippedEdited ==
  ASSUME NEW g \in PageRecord
  PROVE  LET h == [g EXCEPT !.skipped = TRUE]
         IN  Edited(g, h) /\ h.text = g.text /\ h.skipped
  BY DEF Edited, PageRecord, Marks

\* A page whose text is brought in line has a text that fits.
LEMMA InLine ==
  ASSUME NEW p \in Page, Traced(p), NEW h, page'[p] = h,
         \A o : Machine(page[p], o) =>
           Machine(h, o) /\ (h.text = Blank \/ o = h.source \/ h.dropped \/ h.skipped),
         origin'[p] = origin[p], p \in overwritten => p \in overwritten'
  PROVE  (Traced(p) /\ Fits(p))'
  BY DEF Traced, Fits

LEMMA EditTranslationKept ==
  ASSUME LetteringInv, NEW p \in Page, EditTranslation(p)
  PROVE  LetteringInv'
<1>1. Typed
  BY DEF LetteringInv
<1>2. PICK t \in AnyText :
        /\ Unlocked /\ Edit
        /\ page' = [page EXCEPT ![p] = Unrendered([@ EXCEPT !.text = t])]
        /\ origin' = [origin EXCEPT ![p] = "user"]
        /\ overwritten' = overwritten \ {p}
        /\ UNCHANGED <<chapter, files, pending, work, archive, renders, approvedAs, lost, slipped>>
  BY DEF EditTranslation
<1> DEFINE g == [page[p] EXCEPT !.text = t]
           h == Unrendered(g)
<1>3. g \in PageRecord /\ Marks(g) = Marks(page[p])
  <2>1. page[p] \in PageRecord
    BY <1>1 DEF Typed
  <2> QED
    BY <2>1, TextEdited DEF Edited
<1>4. h \in PageRecord /\ ~h.rendered /\ Marks(h) = Marks(page[p])
  BY <1>3, UnrenderedRecord
<1>5. page' = [page EXCEPT ![p] = h]
  BY <1>2
<1> HIDE DEF h
<1>6. Rewritten(p, h)
  BY <1>2, <1>4, <1>5 DEF Rewritten, Unlocked, files, work
<1>7. page' \in [Page -> PageRecord] /\ page'[p] = h /\ \A q \in Page : q # p => page'[q] = page[q]
  BY <1>1, <1>6, RewrittenRecords
<1>8. Typed'
  <2>1. origin' \in [Page -> Origin] /\ overwritten' \in SUBSET Page
    BY <1>1, <1>2 DEF Typed, Origin
  <2>2. edits' \in 0..MaxEdits
    BY <1>1, <1>2, EditTyped
  <2> QED
    BY <1>1, <1>2, <1>7, <2>1, <2>2 DEF Typed, files, work
<1>9. (Traced(p) /\ Fits(p))'
  BY <1>1, <1>2 DEF Traced, Fits, Typed
<1>10. ASSUME NEW q \in Page, q # p PROVE TextKept(q)
  BY <1>1, <1>2, <1>7, <1>10 DEF TextKept, Typed, Pending
<1> QED
  BY <1>6, <1>8, <1>9, <1>10, RewrittenKept

LEMMA EditSourceKept ==
  ASSUME LetteringInv, NEW p \in Page, EditSource(p)
  PROVE  LetteringInv'
<1>1. Typed /\ Traced(p)
  BY DEF LetteringInv, TextsInv
<1>2. PICK s \in Source :
        /\ Unlocked /\ Edit
        /\ page' = [page EXCEPT ![p] = Unrendered([@ EXCEPT !.source = s])]
        /\ pending' = pending \cup {[page |-> p, source |-> s]}
        /\ UNCHANGED <<chapter, files, work, archive, renders, history>>
  BY DEF EditSource
<1> DEFINE g == [page[p] EXCEPT !.source = s]
           h == Unrendered(g)
<1>3. /\ g \in PageRecord /\ Marks(g) = Marks(page[p])
      /\ g.source = s /\ g.text = page[p].text /\ g.auto = page[p].auto
  <2>1. page[p] \in PageRecord
    BY <1>1 DEF Typed
  <2> QED
    BY <2>1, SourceEdited DEF Edited
<1>4. /\ h \in PageRecord /\ ~h.rendered /\ Marks(h) = Marks(page[p])
      /\ h.source = s /\ h.text = page[p].text /\ h.auto = page[p].auto
  BY <1>3, UnrenderedRecord
<1>5. page' = [page EXCEPT ![p] = h]
  BY <1>2
<1> HIDE DEF h
<1>6. Rewritten(p, h)
  BY <1>2, <1>4, <1>5 DEF Rewritten, Unlocked, files, work, history
<1>7. page' \in [Page -> PageRecord] /\ page'[p] = h /\ \A q \in Page : q # p => page'[q] = page[q]
  BY <1>1, <1>6, RewrittenRecords
<1>8. Typed'
  <2>1. pending' \in SUBSET [page : Page, source : Source]
    BY <1>1, <1>2 DEF Typed
  <2>2. edits' \in 0..MaxEdits
    BY <1>1, <1>2, EditTyped
  <2> QED
    BY <1>1, <1>2, <1>7, <2>1, <2>2 DEF Typed, files, work, history
<1>9. (Traced(p) /\ Fits(p))'
  BY <1>1, <1>2, <1>4, <1>7 DEF Traced, Fits, Machine, Pending, history
<1>10. ASSUME NEW q \in Page, q # p PROVE TextKept(q)
  BY <1>2, <1>7, <1>10 DEF TextKept, Pending, history
<1> QED
  BY <1>6, <1>8, <1>9, <1>10, RewrittenKept

LEMMA CommitReadingKept ==
  ASSUME LetteringInv, NEW p \in Page, CommitReading(p)
  PROVE  LetteringInv'
<1>1. Typed /\ Traced(p)
  BY DEF LetteringInv, TextsInv
<1>2. PICK s \in Source :
        /\ Unlocked /\ Edit
        /\ ~page[p].skipped /\ ~page[p].dropped
        /\ page' = [page EXCEPT ![p] = Unrendered(SyncExisting([@ EXCEPT !.boxText = s]))]
        /\ SyncOutput(p)
        /\ Healed(p)
        /\ UNCHANGED <<chapter, base, clock, pending, work, archive, renders,
                       origin, approvedAs, overwritten, slipped>>
  BY DEF CommitReading
<1> DEFINE g == [page[p] EXCEPT !.boxText = s]
           k == SyncExisting(g)
           h == Unrendered(k)
<1>3. /\ g \in PageRecord /\ Marks(g) = Marks(page[p])
      /\ g.text = page[p].text /\ g.auto = page[p].auto
  <2>1. page[p] \in PageRecord
    BY <1>1 DEF Typed
  <2> QED
    BY <2>1, BoxTextEdited DEF Edited
<1>4. /\ k \in PageRecord /\ Marks(k) = Marks(page[p])
      /\ \A o : Machine(page[p], o) => Machine(k, o) /\ (k.text = Blank \/ o = k.source)
  <2>1. PICK r \in PageRecord : r = g
    BY <1>3
  <2>2. /\ k \in PageRecord /\ Marks(k) = Marks(g)
        /\ \A o : Machine(g, o) => Machine(k, o) /\ (k.text = Blank \/ o = k.source)
    <3> HIDE DEF g
    <3> QED BY <2>1, SyncExistingRecord
  <2>3. \A o : Machine(page[p], o) => Machine(g, o)
    BY <1>3 DEF Machine
  <2> QED BY <1>3, <2>2, <2>3
<1>5. page' = [page EXCEPT ![p] = h]
  BY <1>2
<1> HIDE DEF k
<1>6. /\ h \in PageRecord /\ ~h.rendered /\ Marks(h) = Marks(page[p])
      /\ h.source = k.source /\ h.text = k.text /\ h.auto = k.auto
  BY <1>4, UnrenderedRecord
<1> HIDE DEF h
<1>7. Rewritten(p, h)
  BY <1>2, <1>5, <1>6 DEF Rewritten, Unlocked, work
<1>8. page' \in [Page -> PageRecord] /\ out' \in [Page -> File \cup {None}]
      /\ page'[p] = h /\ \A q \in Page : q # p => page'[q] = page[q]
  BY <1>1, <1>7, RewrittenRecords
<1>9. Typed'
  <2>1. edits' \in 0..MaxEdits /\ lost' \in SUBSET Page
    BY <1>1, <1>2, EditTyped DEF Typed, Healed
  <2> QED
    BY <1>1, <1>2, <1>8, <2>1 DEF Typed, work
<1>10. (Traced(p) /\ Fits(p))'
  <2>1. \A o : Machine(page[p], o) =>
          Machine(h, o) /\ (h.text = Blank \/ o = h.source \/ h.dropped \/ h.skipped)
    BY <1>4, <1>6 DEF Machine
  <2>2. origin'[p] = origin[p] /\ (p \in overwritten => p \in overwritten') /\ page'[p] = h
    BY <1>2, <1>8
  <2> QED
    BY <1>1, <2>1, <2>2, InLine
<1>11. ASSUME NEW q \in Page, q # p PROVE TextKept(q)
  BY <1>2, <1>8, <1>11 DEF TextKept, Pending, Healed
<1> QED
  BY <1>7, <1>9, <1>10, <1>11, RewrittenKept

LEMMA ReviewDispositionKept ==
  ASSUME LetteringInv, NEW p \in Page, ReviewDisposition(p)
  PROVE  LetteringInv'
<1>1. Typed /\ Traced(p)
  BY DEF LetteringInv, TextsInv
<1> DEFINE g == Turned(page[p])
           k == EnsureTextObjects(g)
           h == Unrendered(k)
<1>2. /\ lock = None /\ Edit
      /\ page' = [page EXCEPT ![p] = h]
      /\ SyncOutput(p)
      /\ lost' = IF page[p].dropped THEN lost \ {p} ELSE lost
      /\ UNCHANGED <<chapter, base, clock, pending, work, archive, renders,
                     origin, approvedAs, overwritten, slipped>>
  BY DEF ReviewDisposition, Unlocked
<1>3. /\ g \in PageRecord /\ Marks(g) = Marks(page[p])
      /\ g.text = page[p].text /\ g.auto = page[p].auto
  <2>1. page[p] \in PageRecord
    BY <1>1 DEF Typed
  <2> QED
    BY <2>1, DroppedEdited DEF Edited
<1>4. /\ k \in PageRecord /\ Marks(k) = Marks(page[p])
      /\ \A o : Machine(page[p], o) =>
           Machine(k, o) /\ (k.text = Blank \/ o = k.source \/ k.dropped \/ k.skipped)
  <2>1. \A o : Machine(page[p], o) => Machine(g, o)
    BY <1>3 DEF Machine
  <2> HIDE DEF g
  <2> QED
    BY <1>3, <2>1, EnsureTextObjectsRecord
<1>5. page' = [page EXCEPT ![p] = h]
  BY <1>2
<1> HIDE DEF k
<1>6. /\ h \in PageRecord /\ ~h.rendered /\ Marks(h) = Marks(page[p])
      /\ h.source = k.source /\ h.text = k.text /\ h.auto = k.auto
      /\ h.dropped = k.dropped /\ h.skipped = k.skipped
  BY <1>4, UnrenderedRecord
<1> HIDE DEF h
<1>7. Rewritten(p, h)
  BY <1>2, <1>5, <1>6 DEF Rewritten, work
<1>8. page' \in [Page -> PageRecord] /\ out' \in [Page -> File \cup {None}]
      /\ page'[p] = h /\ \A q \in Page : q # p => page'[q] = page[q]
  BY <1>1, <1>7, RewrittenRecords
<1>9. Typed'
  <2>1. edits' \in 0..MaxEdits /\ lost' \in SUBSET Page
    BY <1>1, <1>2, EditTyped DEF Typed
  <2> QED
    BY <1>1, <1>2, <1>8, <2>1 DEF Typed, work
<1>10. (Traced(p) /\ Fits(p))'
  <2>1. \A o : Machine(page[p], o) =>
          Machine(h, o) /\ (h.text = Blank \/ o = h.source \/ h.dropped \/ h.skipped)
    BY <1>4, <1>6 DEF Machine
  <2>2. origin'[p] = origin[p] /\ (p \in overwritten => p \in overwritten') /\ page'[p] = h
    BY <1>2, <1>8
  <2> QED
    BY <1>1, <2>1, <2>2, InLine
<1>11. ASSUME NEW q \in Page, q # p PROVE TextKept(q)
  BY <1>2, <1>8, <1>11 DEF TextKept, Pending
<1> QED
  BY <1>7, <1>9, <1>10, <1>11, RewrittenKept

LEMMA AutoTextObjectsKept ==
  ASSUME LetteringInv, NEW p \in Page, AutoTextObjects(p)
  PROVE  LetteringInv'
<1>1. Typed /\ Traced(p)
  BY DEF LetteringInv, TextsInv
<1> DEFINE k == EnsureTextObjects(page[p])
           h == Unrendered(k)
<1>2. /\ lock = None
      /\ page' = [page EXCEPT ![p] = h]
      /\ Healed(p)
      /\ UNCHANGED <<chapter, files, pending, work, archive, bounds,
                     origin, approvedAs, overwritten, slipped>>
  BY DEF AutoTextObjects, Unlocked
<1>3. page[p] \in PageRecord
  BY <1>1 DEF Typed
<1>4. /\ k \in PageRecord /\ Marks(k) = Marks(page[p])
      /\ \A o : Machine(page[p], o) =>
           Machine(k, o) /\ (k.text = Blank \/ o = k.source \/ k.dropped \/ k.skipped)
  BY <1>3, EnsureTextObjectsRecord
<1> HIDE DEF k
<1>6. /\ h \in PageRecord /\ ~h.rendered /\ Marks(h) = Marks(page[p])
      /\ h.source = k.source /\ h.text = k.text /\ h.auto = k.auto
      /\ h.dropped = k.dropped /\ h.skipped = k.skipped
  BY <1>4, UnrenderedRecord
<1> HIDE DEF h
<1>7. Rewritten(p, h)
  BY <1>2, <1>6 DEF Rewritten, work, files
<1>8. page' \in [Page -> PageRecord] /\ page'[p] = h /\ \A q \in Page : q # p => page'[q] = page[q]
  BY <1>1, <1>7, RewrittenRecords
<1>9. Typed'
  BY <1>1, <1>2, <1>8 DEF Typed, work, files, bounds, Healed
<1>10. (Traced(p) /\ Fits(p))'
  <2>1. \A o : Machine(page[p], o) =>
          Machine(h, o) /\ (h.text = Blank \/ o = h.source \/ h.dropped \/ h.skipped)
    BY <1>4, <1>6 DEF Machine
  <2>2. origin'[p] = origin[p] /\ (p \in overwritten => p \in overwritten') /\ page'[p] = h
    BY <1>2, <1>8
  <2> QED
    BY <1>1, <2>1, <2>2, InLine
<1>11. ASSUME NEW q \in Page, q # p PROVE TextKept(q)
  BY <1>2, <1>8, <1>11 DEF TextKept, Pending, Healed
<1> QED
  BY <1>7, <1>9, <1>10, <1>11, RewrittenKept

LEMMA MarkSkippedKept ==
  ASSUME LetteringInv, NEW p \in Page, MarkSkipped(p)
  PROVE  LetteringInv'
<1>1. Typed /\ Traced(p)
  BY DEF LetteringInv, TextsInv
<1> DEFINE g == Revised(page[p])
           k == [g EXCEPT !.skipped = TRUE]
           h == Unrendered(k)
<1>2. /\ lock = None /\ Edit
      /\ page' = [page EXCEPT ![p] = h]
      /\ SyncOutput(p)
      /\ UNCHANGED <<chapter, base, clock, pending, work, archive, renders, history>>
  BY DEF MarkSkipped, Unlocked
<1>3. g \in PageRecord /\ Marks(g) = Marks(page[p]) /\ g.text = page[p].text /\ g.auto = page[p].auto
  <2>1. page[p] \in PageRecord
    BY <1>1 DEF Typed
  <2> QED
    BY <2>1, RevisionEdited DEF Edited
<1> HIDE DEF g
<1>4. /\ k \in PageRecord /\ Marks(k) = Marks(page[p])
      /\ k.text = page[p].text /\ k.auto = page[p].auto /\ k.skipped
  BY <1>3, SkippedEdited DEF Edited
<1> HIDE DEF k
<1>6. /\ h \in PageRecord /\ ~h.rendered /\ Marks(h) = Marks(page[p])
      /\ h.text = k.text /\ h.auto = k.auto /\ h.skipped
  BY <1>4, UnrenderedRecord
<1> HIDE DEF h
<1>7. Rewritten(p, h)
  BY <1>2, <1>6 DEF Rewritten, work, history
<1>8. page' \in [Page -> PageRecord] /\ out' \in [Page -> File \cup {None}]
      /\ page'[p] = h /\ \A q \in Page : q # p => page'[q] = page[q]
  BY <1>1, <1>7, RewrittenRecords
<1>9. Typed'
  <2>1. edits' \in 0..MaxEdits
    BY <1>1, <1>2, EditTyped
  <2> QED
    BY <1>1, <1>2, <1>8, <2>1 DEF Typed, work, history
<1>10. (Traced(p) /\ Fits(p))'
  BY <1>1, <1>2, <1>4, <1>6, <1>8 DEF Traced, Fits, Machine, history
<1>11. ASSUME NEW q \in Page, q # p PROVE TextKept(q)
  BY <1>2, <1>8, <1>11 DEF TextKept, Pending, history
<1> QED
  BY <1>7, <1>9, <1>10, <1>11, RewrittenKept

LEMMA CommitCleanKept ==
  ASSUME LetteringInv, CommitClean
  PROVE  LetteringInv'
<1>1. Typed /\ cleaning # Idle
  BY DEF LetteringInv, CommitClean
<1> PICK p \in Page : p = cleaning.page
  BY <1>1 DEF Typed, Painting
<1> DEFINE g == Revised(page[p])
           h == Unrendered(g)
<1>2. /\ lock = None
      /\ page' = [page EXCEPT ![p] = h]
      /\ SyncOutput(p)
      /\ cleaning' = Idle
      /\ UNCHANGED <<chapter, base, clock, pending, translator, render, lock, export,
                     archive, bounds, history>>
  BY DEF CommitClean, Unlocked
<1>3. /\ g \in PageRecord /\ Marks(g) = Marks(page[p])
      /\ g.text = page[p].text /\ g.auto = page[p].auto /\ g.source = page[p].source
      /\ g.dropped = page[p].dropped /\ g.skipped = page[p].skipped
  <2>1. page[p] \in PageRecord
    BY <1>1 DEF Typed
  <2> QED
    BY <2>1, RevisionEdited DEF Edited
<1> HIDE DEF g
<1>4. /\ h \in PageRecord /\ ~h.rendered /\ Marks(h) = Marks(page[p])
      /\ h.text = g.text /\ h.auto = g.auto /\ h.source = g.source
      /\ h.dropped = g.dropped /\ h.skipped = g.skipped
  BY <1>3, UnrenderedRecord
<1> HIDE DEF h
<1>5. Rewritten(p, h)
  BY <1>2, <1>4 DEF Rewritten, history
<1>6. page' \in [Page -> PageRecord] /\ out' \in [Page -> File \cup {None}]
      /\ page'[p] = h /\ \A q \in Page : q # p => page'[q] = page[q]
  BY <1>1, <1>5, RewrittenRecords
<1>7. Typed'
  BY <1>1, <1>2, <1>6 DEF Typed, history, bounds
<1>8. ASSUME NEW q \in Page PROVE TextKept(q)
  BY <1>2, <1>3, <1>4, <1>6 DEF TextKept, Pending, history
<1>9. (Traced(p) /\ Fits(p))'
  <2>1. Traced(p) /\ Fits(p)
    BY DEF LetteringInv, TextsInv
  <2> QED
    BY <1>8, <2>1, TextStays
<1> QED
  BY <1>5, <1>7, <1>8, <1>9, RewrittenKept

LEMMA ReconcileTranslationKept ==
  ASSUME LetteringInv, ReconcileTranslation
  PROVE  LetteringInv'
<1>1. Typed
  BY DEF LetteringInv
<1>2. PICK e \in pending :
        LET p == e.page
            g == InvalidateStale(page[p], e.source)
            stale == page[p].source = e.source /\ g # page[p]
        IN /\ Unlocked
           /\ pending' = pending \ {e}
           /\ IF stale THEN page' = [page EXCEPT ![p] = Unrendered(g)] /\ SyncOutput(p)
              ELSE UNCHANGED <<page, out>>
           /\ UNCHANGED <<chapter, base, clock, work, archive, bounds, history>>
  BY DEF ReconcileTranslation
<1>3. e = [page |-> e.page, source |-> e.source] /\ e.page \in Page /\ e.source \in Source
  BY <1>1 DEF Typed
<1> PICK p \in Page : p = e.page
  BY <1>3
<1> PICK s \in Source : s = e.source
  BY <1>3
<1> DEFINE g == InvalidateStale(page[p], s)
           stale == page[p].source = s /\ g # page[p]
           h == IF stale THEN Unrendered(g) ELSE page[p]
<1>4. page[p] \in PageRecord /\ Traced(p) /\ Fits(p)
  BY <1>1 DEF Typed, LetteringInv, TextsInv
<1>5. /\ g \in PageRecord /\ Marks(g) = Marks(page[p])
      /\ g.source = page[p].source /\ g.dropped = page[p].dropped /\ g.skipped = page[p].skipped
      /\ \A o : Machine(page[p], o) => Machine(g, o) /\ (g.text = Blank \/ o = s)
  BY <1>4, InvalidateStaleRecord
<1>6. /\ lock = None /\ pending' = pending \ {[page |-> p, source |-> s]}
      /\ IF stale THEN page' = [page EXCEPT ![p] = Unrendered(g)] /\ SyncOutput(p)
         ELSE UNCHANGED <<page, out>>
      /\ UNCHANGED <<chapter, base, clock, work, archive, bounds, history>>
  BY <1>2, <1>3 DEF Unlocked
<1> HIDE DEF g
<1>7. /\ Unrendered(g) \in PageRecord /\ ~Unrendered(g).rendered
      /\ Marks(Unrendered(g)) = Marks(g)
      /\ Unrendered(g).source = g.source /\ Unrendered(g).text = g.text
      /\ Unrendered(g).auto = g.auto /\ Unrendered(g).dropped = g.dropped
      /\ Unrendered(g).skipped = g.skipped
  BY <1>5, UnrenderedRecord
<1>8. /\ h \in PageRecord /\ Marks(h) = Marks(page[p]) /\ (h.rendered => page[p].rendered)
      /\ h.source = page[p].source /\ h.dropped = page[p].dropped /\ h.skipped = page[p].skipped
  BY <1>4, <1>5, <1>7
<1>9. page' = [page EXCEPT ![p] = h] /\ (out' = out \/ SyncOutput(p))
  BY <1>1, <1>6 DEF Typed
<1>11. page[p].source = s =>
         \A o : Machine(page[p], o) => Machine(h, o) /\ (h.text = Blank \/ o = h.source)
  <2>1. CASE stale
    BY <1>5, <1>7, <2>1 DEF Machine
  <2>2. CASE ~stale
    BY <1>5, <2>2
  <2> QED
    BY <2>1, <2>2
<1>12. page[p].source # s => h = page[p]
  OBVIOUS
<1> HIDE DEF h
<1>13. Rewritten(p, h)
  BY <1>6, <1>8, <1>9 DEF Rewritten, work, history
<1>14. page' \in [Page -> PageRecord] /\ out' \in [Page -> File \cup {None}]
       /\ page'[p] = h /\ \A q \in Page : q # p => page'[q] = page[q]
  BY <1>1, <1>13, RewrittenRecords
<1>15. Typed'
  <2>1. pending' \in SUBSET [page : Page, source : Source]
    BY <1>1, <1>6 DEF Typed
  <2> QED
    BY <1>1, <1>6, <1>14, <2>1 DEF Typed, work, bounds, history
<1>16. (Traced(p) /\ Fits(p))'
  <2>1. CASE page[p].source = s
    <3>1. \A o : Machine(page[p], o) =>
            Machine(h, o) /\ (h.text = Blank \/ o = h.source \/ h.dropped \/ h.skipped)
      BY <1>11, <2>1
    <3>2. origin'[p] = origin[p] /\ (p \in overwritten => p \in overwritten') /\ page'[p] = h
      BY <1>6, <1>14 DEF history
    <3> QED
      BY <1>4, <3>1, <3>2, InLine
  <2>2. CASE page[p].source # s
    <3>1. Pending(p) => Pending(p)'
      BY <1>6, <1>12, <1>14, <2>2 DEF Pending
    <3>2. TextKept(p)
      BY <1>6, <1>12, <1>14, <2>2, <3>1 DEF TextKept, history
    <3> QED
      BY <1>4, <3>2, TextStays
  <2> QED
    BY <2>1, <2>2
<1>17. ASSUME NEW q \in Page, q # p PROVE TextKept(q)
  <2>1. Pending(q) => Pending(q)'
    BY <1>6, <1>14, <1>17 DEF Pending
  <2> QED
    BY <1>6, <1>14, <1>17, <2>1 DEF TextKept, history
<1> QED
  BY <1>13, <1>15, <1>16, <1>17, RewrittenKept

LEMMA AskTranslatorKept ==
  ASSUME LetteringInv, NEW p \in Page, AskTranslator(p)
  PROVE  LetteringInv'
<1>1. Typed /\ Traced(p)
  BY DEF LetteringInv, TextsInv
<1> DEFINE k == EnsureTextObjects(page[p])
           h == IF k = page[p] THEN page[p] ELSE Unrendered(k)
<1>2. /\ lock = None /\ Edit /\ ~k.skipped /\ ~k.dropped
      /\ page' = [page EXCEPT ![p] = IF k = @ THEN @ ELSE Unrendered(k)]
      /\ translator' = [at |-> "asked", page |-> p, source |-> k.source, text |-> k.text,
                        revision |-> k.revision]
      /\ Healed(p)
      /\ UNCHANGED <<chapter, files, pending, cleaning, render, lock, export, archive,
                     renders, origin, approvedAs, overwritten, slipped>>
  BY DEF AskTranslator, Unlocked
<1>3. page[p] \in PageRecord
  BY <1>1 DEF Typed
<1>4. /\ k \in PageRecord /\ Marks(k) = Marks(page[p])
      /\ \A o : Machine(page[p], o) =>
           Machine(k, o) /\ (k.text = Blank \/ o = k.source \/ k.dropped \/ k.skipped)
  BY <1>3, EnsureTextObjectsRecord
<1>5. page' = [page EXCEPT ![p] = h]
  BY <1>2
<1> HIDE DEF k
<1>6. /\ Unrendered(k) \in PageRecord /\ ~Unrendered(k).rendered
      /\ Marks(Unrendered(k)) = Marks(k)
      /\ Unrendered(k).source = k.source /\ Unrendered(k).text = k.text
      /\ Unrendered(k).auto = k.auto /\ Unrendered(k).dropped = k.dropped
      /\ Unrendered(k).skipped = k.skipped
  BY <1>4, UnrenderedRecord
<1>7. /\ h \in PageRecord /\ Marks(h) = Marks(page[p]) /\ (h.rendered => page[p].rendered)
      /\ h.source = k.source /\ h.text = k.text /\ h.auto = k.auto
      /\ h.dropped = k.dropped /\ h.skipped = k.skipped
  BY <1>4, <1>6
<1> HIDE DEF h
<1>8. Rewritten(p, h)
  BY <1>2, <1>5, <1>7 DEF Rewritten, files
<1>9. page' \in [Page -> PageRecord] /\ page'[p] = h /\ \A q \in Page : q # p => page'[q] = page[q]
  BY <1>1, <1>8, RewrittenRecords
<1>10. Typed'
  <2>1. edits' \in 0..MaxEdits /\ lost' \in SUBSET Page
    BY <1>1, <1>2, EditTyped DEF Typed, Healed
  <2>2. translator' \in TranslatorRecord
    BY <1>2, <1>4 DEF TranslatorRecord, Answered, PageRecord
  <2> QED
    BY <1>1, <1>2, <1>9, <2>1, <2>2 DEF Typed, files
<1>11. (Traced(p) /\ Fits(p))'
  <2>1. \A o : Machine(page[p], o) =>
          Machine(h, o) /\ (h.text = Blank \/ o = h.source \/ h.dropped \/ h.skipped)
    BY <1>4, <1>7 DEF Machine
  <2>2. origin'[p] = origin[p] /\ (p \in overwritten => p \in overwritten') /\ page'[p] = h
    BY <1>2, <1>9
  <2> QED
    BY <1>1, <2>1, <2>2, InLine
<1>12. ASSUME NEW q \in Page, q # p PROVE TextKept(q)
  BY <1>2, <1>9, <1>12 DEF TextKept, Pending, Healed
<1> QED
  BY <1>8, <1>10, <1>11, <1>12, RewrittenKept

LEMMA TranslationEdited ==
  ASSUME NEW g \in PageRecord, NEW t \in Text, NEW s \in Source
  PROVE  LET h == WithAnswer(g, t, s)
         IN  /\ h \in PageRecord /\ Marks(h) = Marks(g) /\ h.rendered = g.rendered
             /\ h.text = t /\ h.auto = [text |-> t, input |-> s]
             /\ h.source = g.source /\ h.dropped = g.dropped /\ h.skipped = g.skipped
<1> PICK a : a = [text |-> t, input |-> s]
  OBVIOUS
<1> DEFINE h == [g EXCEPT !.text = t, !.auto = a]
<1>1. a \in Translation \cup {None} /\ t \in AnyText
  BY DEF AnyText, Translation
<1>2. h \in PageRecord /\ Marks(h) = Marks(g) /\ h.rendered = g.rendered
  BY <1>1 DEF PageRecord, Marks
<1>3. /\ h.text = t /\ h.auto = a
      /\ h.source = g.source /\ h.dropped = g.dropped /\ h.skipped = g.skipped
  BY <1>1 DEF PageRecord
<1>4. h = WithAnswer(g, t, s)
  BY DEF WithAnswer
<1> QED
  BY <1>2, <1>3, <1>4

LEMMA CommitTranslationKept ==
  ASSUME LetteringInv, CommitTranslation
  PROVE  LetteringInv'
<1>1. Typed
  BY DEF LetteringInv
<1>2. PICK t \in Text :
        LET p == translator.page IN
        /\ Unlocked /\ translator.at = "asked"
        /\ AnswerFits
        /\ page' = [page EXCEPT ![p] = Unrendered(WithAnswer(@, t, translator.source))]
        /\ translator' = [at |-> "committed", page |-> p]
        /\ origin' = [origin EXCEPT ![p] = translator.source]
        /\ overwritten' = overwritten \ {p}
        /\ UNCHANGED <<chapter, files, pending, cleaning, render, lock, export, archive,
                       bounds, approvedAs, lost, slipped>>
  BY DEF CommitTranslation
<1>3. translator \in Answered
  BY <1>1, <1>2 DEF Typed, TranslatorRecord, Translated, Idle
<1> PICK p \in Page : p = translator.page
  BY <1>3 DEF Answered
<1> PICK s \in Source : s = translator.source
  BY <1>3 DEF Answered
<1> PICK a : a = [text |-> t, input |-> s]
  OBVIOUS
<1> DEFINE g == WithAnswer(page[p], t, s)
           h == Unrendered(g)
<1>4. /\ lock = None
      /\ page' = [page EXCEPT ![p] = h]
      /\ translator' = [at |-> "committed", page |-> p]
      /\ origin' = [origin EXCEPT ![p] = s]
      /\ overwritten' = overwritten \ {p}
      /\ UNCHANGED <<chapter, files, pending, cleaning, render, lock, export, archive,
                     bounds, approvedAs, lost, slipped>>
  BY <1>2 DEF Unlocked
<1>5. page[p].source = s /\ page[p] \in PageRecord
  BY <1>1, <1>2 DEF Typed, AnswerFits
<1>6. /\ g \in PageRecord /\ Marks(g) = Marks(page[p])
      /\ g.text = t /\ g.auto = a /\ g.source = s
  BY <1>5, TranslationEdited
<1> HIDE DEF g
<1>7. /\ h \in PageRecord /\ ~h.rendered /\ Marks(h) = Marks(page[p])
      /\ h.text = t /\ h.auto = a /\ h.source = s
  BY <1>6, UnrenderedRecord
<1> HIDE DEF h
<1>8. Rewritten(p, h)
  BY <1>4, <1>7 DEF Rewritten, files
<1>9. page' \in [Page -> PageRecord] /\ page'[p] = h /\ \A q \in Page : q # p => page'[q] = page[q]
  BY <1>1, <1>8, RewrittenRecords
<1>10. origin'[p] = s /\ \A q \in Page : q # p => origin'[q] = origin[q]
  BY <1>1, <1>4 DEF Typed
<1>11. Typed'
  <2>1. origin' \in [Page -> Origin] /\ overwritten' \in SUBSET Page
    BY <1>1, <1>4 DEF Typed, Origin
  <2>2. translator' \in TranslatorRecord
    BY <1>4 DEF TranslatorRecord, Translated
  <2> QED
    BY <1>1, <1>4, <1>9, <2>1, <2>2 DEF Typed, files, bounds
<1>12. a.text = t /\ a.input = s /\ a # None
  BY LetteringAssumption DEF Translation
<1>13. (Traced(p) /\ Fits(p))'
  BY <1>7, <1>9, <1>10, <1>12 DEF Traced, Fits, Machine
<1>14. ASSUME NEW q \in Page, q # p PROVE TextKept(q)
  BY <1>4, <1>9, <1>10, <1>14 DEF TextKept, Pending
<1> QED
  BY <1>8, <1>11, <1>13, <1>14, RewrittenKept

LEMMA ReviewedRecord ==
  ASSUME NEW g \in PageRecord, NEW x \in [source : Source, text : AnyText] \cup {None}
  PROVE  LET h == [g EXCEPT !.reviewed = x]
         IN  /\ Edited(g, h) /\ h.text = g.text /\ h.source = g.source
             /\ h.dropped = g.dropped /\ h.skipped = g.skipped
  BY DEF Edited, PageRecord, Marks

LEMMA ScriptReviewKept ==
  ASSUME LetteringInv, NEW p \in Page, ScriptReview(p)
  PROVE  LetteringInv'
<1>1. Typed
  BY DEF LetteringInv
<1>2. PICK reviewed \in BOOLEAN :
        /\ Unlocked /\ Unpainted(p) /\ Edit
        /\ ~page[p].dropped
        /\ page' = [page EXCEPT ![p].reviewed =
             IF reviewed THEN [source |-> page[p].source, text |-> page[p].text] ELSE None]
        /\ chapter' = [chapter EXCEPT !.script = TRUE]
        /\ UNCHANGED <<files, pending, work, archive, renders, history>>
  BY DEF ScriptReview
<1>3. page[p] \in PageRecord /\ page[p].source \in Source /\ page[p].text \in AnyText
  BY <1>1 DEF Typed, PageRecord
<1>4. PICK x \in [source : Source, text : AnyText] \cup {None} :
        x = IF reviewed THEN [source |-> page[p].source, text |-> page[p].text] ELSE None
  BY <1>3
<1> DEFINE h == [page[p] EXCEPT !.reviewed = x]
<1>5. /\ Edited(page[p], h) /\ h.text = page[p].text /\ h.source = page[p].source
      /\ h.dropped = page[p].dropped /\ h.skipped = page[p].skipped
  BY <1>3, ReviewedRecord
<1>6. page' = [page EXCEPT ![p] = h]
  BY <1>1, <1>2, <1>4 DEF Typed
<1> HIDE DEF h
<1>7. Rewritten(p, h)
  BY <1>2, <1>5, <1>6 DEF Rewritten, Edited, Unlocked, files, work, history
<1>8. page' \in [Page -> PageRecord] /\ page'[p] = h /\ \A q \in Page : q # p => page'[q] = page[q]
  BY <1>1, <1>7, RewrittenRecords
<1>9. Typed'
  <2>1. edits' \in 0..MaxEdits
    BY <1>1, <1>2, EditTyped
  <2>2. chapter' \in [script : BOOLEAN, final : BOOLEAN]
    BY <1>1, <1>2 DEF Typed
  <2> QED
    BY <1>1, <1>2, <1>8, <2>1, <2>2 DEF Typed, files, work, history
<1>10. ASSUME NEW q \in Page PROVE TextKept(q)
  BY <1>2, <1>5, <1>8 DEF TextKept, Pending, Edited, history
<1>11. (Traced(p) /\ Fits(p))'
  <2>1. Traced(p) /\ Fits(p)
    BY DEF LetteringInv, TextsInv
  <2> QED
    BY <1>10, <2>1, TextStays
<1> QED
  BY <1>7, <1>9, <1>10, <1>11, RewrittenKept

LEMMA ApprovedRecord ==
  ASSUME NEW g \in PageRecord
  PROVE  LET h == [g EXCEPT !.approved = g.render]
         IN  /\ h \in PageRecord /\ h.approved = g.render /\ h.render = g.render
             /\ h.seal = g.seal /\ h.stamp = g.stamp /\ h.rendered = g.rendered
             /\ h.text = g.text /\ h.source = g.source /\ h.auto = g.auto
             /\ h.dropped = g.dropped /\ h.skipped = g.skipped /\ g.render \in Nat
  BY DEF PageRecord

LEMMA FinalReviewKept ==
  ASSUME LetteringInv, NEW p \in Page, FinalReview(p)
  PROVE  LetteringInv'
<1>1. Typed /\ TextsInv /\ Stamps /\ ApprovedInv /\ \A r \in Renderer : RenderOK(r)
  BY DEF LetteringInv, PicturesInv
<1> DEFINE h == [page[p] EXCEPT !.approved = page[p].render]
           seen == IF out[p] = None THEN None ELSE out[p].picture
<1>2. /\ lock = None /\ Edit
      /\ page' = [page EXCEPT ![p] = h]
      /\ chapter' = [chapter EXCEPT !.final = TRUE]
      /\ approvedAs' = [approvedAs EXCEPT ![p] = seen]
      /\ UNCHANGED <<files, pending, work, archive, renders, origin, lost, overwritten, slipped>>
  BY DEF FinalReview, Unlocked
<1>3. page[p] \in PageRecord
  BY <1>1 DEF Typed
<1>4. /\ h \in PageRecord /\ h.approved = page[p].render /\ h.render = page[p].render
      /\ h.seal = page[p].seal /\ h.stamp = page[p].stamp /\ h.rendered = page[p].rendered
      /\ h.text = page[p].text /\ h.source = page[p].source /\ h.auto = page[p].auto
      /\ h.dropped = page[p].dropped /\ h.skipped = page[p].skipped /\ page[p].render \in Nat
  BY <1>3, ApprovedRecord
<1> HIDE DEF h
<1>5. page' \in [Page -> PageRecord] /\ page'[p] = h /\ \A q \in Page : q # p => page'[q] = page[q]
  BY <1>1, <1>2, <1>4 DEF Typed
<1>6. /\ approvedAs' \in [Page -> Picture \cup {None}] /\ approvedAs'[p] = seen
      /\ \A q \in Page : q # p => approvedAs'[q] = approvedAs[q]
  <2>1. seen \in Picture \cup {None}
    BY <1>1 DEF Typed, File
  <2> HIDE DEF seen
  <2> QED
    BY <1>1, <1>2, <2>1 DEF Typed
<1>7. Typed'
  <2>1. edits' \in 0..MaxEdits
    BY <1>1, <1>2, EditTyped
  <2>2. chapter' \in [script : BOOLEAN, final : BOOLEAN]
    BY <1>1, <1>2 DEF Typed
  <2> QED
    BY <1>1, <1>2, <1>5, <1>6, <2>1, <2>2 DEF Typed, files, work
<1>8. Calm
  <2>1. ASSUME NEW q \in Page PROVE RecordCalm(q) /\ FileCalm(q)
    BY <1>2, <1>4, <1>5 DEF RecordCalm, FileCalm, files
  <2> QED
    BY <1>1, <1>2, <2>1 DEF Calm, BaseCalm, Typed, files
<1>9. \A q \in Page : (Traced(q) /\ Fits(q))'
  <2> SUFFICES ASSUME NEW q \in Page PROVE (Traced(q) /\ Fits(q))'
    OBVIOUS
  <2>1. TextKept(q)
    BY <1>2, <1>4, <1>5 DEF TextKept, Pending
  <2>2. Traced(q) /\ Fits(q)
    BY <1>1 DEF TextsInv
  <2> QED
    BY <2>1, <2>2, TextStays
<1>10. \A r \in Renderer : AsksOfRecord(r)' /\ RenderOK(r)'
  <2> SUFFICES ASSUME NEW r \in Renderer PROVE AsksOfRecord(r)' /\ RenderOK(r)'
    OBVIOUS
  <2>1. RenderStays(r)
    BY <1>2, LetteringAssumption DEF RenderStays, work
  <2>2. RenderOK(r)'
    BY <1>1, <1>7, <1>8, <2>1, RenderKept DEF Calm
  <2> QED
    BY <1>1, <1>2, <2>2 DEF AsksOfRecord, TextsInv, work
<1>11. ApprovedInv'
  <2> SUFFICES ASSUME NEW q \in Page
               PROVE  /\ page'[q].approved <= page'[q].render
                      /\ page'[q].approved = page'[q].render /\ page'[q].render > 0 /\ OfOneRender(q)'
                           => approvedAs'[q] = out'[q].picture
    BY DEF ApprovedInv
  <2>1. CASE q = p
    BY <1>2, <1>4, <1>5, <1>6, <2>1 DEF OfOneRender, files
  <2>2. CASE q # p
    BY <1>1, <1>2, <1>5, <1>6, <2>2 DEF ApprovedInv, OfOneRender, files
  <2> QED
    BY <2>1, <2>2
<1>12. export' \in {export, Idle}
  BY <1>2 DEF work
<1> QED
  BY <1>7, <1>8, <1>9, <1>10, <1>11, <1>12, CalmKept

-----------------------------------------------------------------------------
(* Steps that leave the records and the pictures alone.                     *)

Still ==
  /\ UNCHANGED <<page, out, origin, approvedAs, overwritten, slipped>>
  /\ BaseCalm
  /\ \A p \in Page : Pending(p) \/ p \in lost => Pending(p)' \/ p \in lost'

LEMMA StillKept ==
  ASSUME LetteringInv, Typed', Still,
         export' \in {export, Idle} \/ ExportInv',
         \A r \in Renderer : AsksOfRecord(r)' /\ RenderOK(r)'
  PROVE  LetteringInv'
<1>1. Calm
  BY DEF Still, Calm, RecordCalm, FileCalm
<1>2. \A p \in Page : ReviewCalm(p)
  BY DEF Still, ReviewCalm
<1>3. \A p \in Page : (Traced(p) /\ Fits(p))'
  <2> SUFFICES ASSUME NEW p \in Page PROVE (Traced(p) /\ Fits(p))'
    OBVIOUS
  <2>1. TextKept(p)
    BY DEF Still, TextKept
  <2>2. Traced(p) /\ Fits(p)
    BY DEF LetteringInv, TextsInv
  <2> QED
    BY <2>1, <2>2, TextStays
<1> QED
  BY <1>1, <1>2, <1>3, CalmKept

\* The renders go on as they were.
LEMMA NoRenderKept ==
  ASSUME LetteringInv, Typed', Still, UNCHANGED <<render, lock>>,
         export' \in {export, Idle} \/ ExportInv'
  PROVE  LetteringInv'
<1> SUFFICES ASSUME NEW r \in Renderer PROVE AsksOfRecord(r)' /\ RenderOK(r)'
  BY StillKept
<1>1. Typed /\ Stamps /\ RenderOK(r) /\ AsksOfRecord(r)
  BY DEF LetteringInv, PicturesInv, TextsInv
<1>2. RenderStays(r)
  BY DEF Still, RenderStays
<1>3. RenderOK(r)'
  BY <1>1, <1>2, RenderKept DEF Still
<1> QED
  BY <1>1, <1>3 DEF AsksOfRecord

\* One render goes on.
LEMMA OneRenderKept ==
  ASSUME LetteringInv, Typed', Still, export' \in {export, Idle}, NEW r \in Renderer,
         \A q \in Renderer : q # r => render'[q] = render[q] /\ (lock' = q <=> lock = q),
         AsksOfRecord(r)', RenderOK(r)'
  PROVE  LetteringInv'
<1> SUFFICES ASSUME NEW q \in Renderer, q # r PROVE AsksOfRecord(q)' /\ RenderOK(q)'
  BY StillKept
<1>1. Typed /\ Stamps /\ RenderOK(q) /\ AsksOfRecord(q)
  BY DEF LetteringInv, PicturesInv, TextsInv
<1>2. RenderStays(q)
  BY DEF Still, RenderStays
<1>3. RenderOK(q)'
  BY <1>1, <1>2, RenderKept DEF Still
<1> QED
  BY <1>1, <1>3 DEF AsksOfRecord

\* A base is replaced, while renders may be publishing.
LEMMA PaintCleanKept ==
  ASSUME LetteringInv, NEW p \in Page, PaintClean(p)
  PROVE  LetteringInv'
<1>1. Typed
  BY DEF LetteringInv
<1>2. /\ Edit
      /\ cleaning' = [at |-> "painted", page |-> p, image |-> base[p].image]
      /\ base' = [base EXCEPT ![p] = [image |-> clock + 1, stamp |-> clock + 1]]
      /\ clock' = clock + 1
      /\ UNCHANGED <<manifest, out, pending, translator, render, lock, export,
                     archive, renders, history>>
  BY DEF PaintClean
<1>3. Typed'
  <2>1. base' \in [Page -> [image : Nat, stamp : Nat]] /\ clock' \in Nat
    BY <1>1, <1>2 DEF Typed
  <2>2. cleaning' \in Painting \cup {Idle}
    BY <1>1, <1>2 DEF Typed, Painting
  <2>3. edits' \in 0..MaxEdits
    BY <1>1, <1>2, EditTyped
  <2> QED
    BY <1>1, <1>2, <2>1, <2>2, <2>3 DEF Typed, manifest, history
<1>4. BaseCalm
  BY <1>1, <1>2 DEF Typed, BaseCalm
<1>5. Still
  BY <1>2, <1>4 DEF Still, Pending, manifest, history
<1> QED
  BY <1>2, <1>3, <1>5, NoRenderKept

LEMMA RestoredBaseCalm ==
  ASSUME Typed, RestoredBase
  PROVE  BaseCalm /\ base' \in [Page -> [image : Nat, stamp : Nat]] /\ clock' \in Nat
<1>1. CASE cleaning = Idle
  BY <1>1 DEF RestoredBase, BaseCalm, Typed
<1>2. CASE cleaning # Idle
  <2> PICK p \in Page : p = cleaning.page
    BY <1>2 DEF Typed, Painting
  <2> PICK i \in Nat : i = cleaning.image
    BY <1>2 DEF Typed, Painting
  <2>1. base' = [base EXCEPT ![p] = [image |-> i, stamp |-> clock + 1]] /\ clock' = clock + 1
    BY <1>2 DEF RestoredBase
  <2> QED
    BY <2>1 DEF Typed, BaseCalm
<1> QED
  BY <1>1, <1>2

LEMMA RollBackCleanKept ==
  ASSUME LetteringInv, RollBackClean
  PROVE  LetteringInv'
<1>1. Typed
  BY DEF LetteringInv
<1>2. BaseCalm /\ base' \in [Page -> [image : Nat, stamp : Nat]] /\ clock' \in Nat
  BY <1>1, RestoredBaseCalm DEF RollBackClean
<1>3. Typed'
  BY <1>1, <1>2 DEF Typed, RollBackClean, manifest, bounds, history
<1>4. Still
  BY <1>2 DEF Still, RollBackClean, Pending, manifest, history
<1> QED
  BY <1>3, <1>4, NoRenderKept DEF RollBackClean

LEMMA CrashKept ==
  ASSUME LetteringInv, Crash
  PROVE  LetteringInv'
<1>1. Typed
  BY DEF LetteringInv
<1>2. BaseCalm /\ base' \in [Page -> [image : Nat, stamp : Nat]] /\ clock' \in Nat
  BY <1>1, RestoredBaseCalm DEF Crash
<1>3. Typed'
  <2>1. lost' \in SUBSET Page /\ pending' \in SUBSET [page : Page, source : Source]
    BY <1>1 DEF Typed, Crash
  <2>2. render' \in [Renderer -> RenderRecord] /\ translator' \in TranslatorRecord
    BY DEF Crash, RenderRecord, TranslatorRecord
  <2>3. edits' \in 0..MaxEdits
    BY <1>1, EditTyped DEF Crash
  <2> QED
    BY <1>1, <1>2, <2>1, <2>2, <2>3 DEF Typed, Crash, manifest
<1>4. Still
  <2>1. ASSUME NEW p \in Page, Pending(p) \/ p \in lost PROVE p \in lost'
    BY <2>1 DEF Pending, Crash
  <2> QED
    BY <1>2, <2>1 DEF Still, Crash, manifest
<1>5. ASSUME NEW r \in Renderer PROVE AsksOfRecord(r)' /\ RenderOK(r)'
  <2>1. render'[r] = Idle /\ lock' # r
    BY LetteringAssumption DEF Crash
  <2>2. RenderGone(r)
    BY <2>1 DEF RenderGone
  <2>3. Stamps /\ RenderOK(r)
    BY DEF LetteringInv, PicturesInv
  <2>4. RenderOK(r)'
    BY <1>1, <1>2, <1>3, <2>2, <2>3, RenderKept
  <2> QED
    BY <2>1, <2>4 DEF AsksOfRecord, Idle
<1>6. export' = Idle
  BY DEF Crash
<1> QED
  BY <1>3, <1>4, <1>5, <1>6, StillKept

LEMMA DropTranslationKept ==
  ASSUME LetteringInv, DropTranslation
  PROVE  LetteringInv'
<1>1. Typed
  BY DEF LetteringInv
<1>2. Typed'
  BY <1>1 DEF Typed, DropTranslation, TranslatorRecord, manifest, files, bounds, history
<1>3. Still
  BY <1>1 DEF Still, BaseCalm, Typed, DropTranslation, Pending, manifest, files, history
<1> QED
  BY <1>2, <1>3, NoRenderKept DEF DropTranslation

-----------------------------------------------------------------------------
(* A render, before it publishes.                                           *)

LEMMA StartRenderKept ==
  ASSUME LetteringInv, NEW r \in Renderer, NEW p \in Page, NEW by \in Asker, NEW t \in AnyText,
         by = "translator" => t = Blank,
         StartRender(r, p, by, t), translator' \in TranslatorRecord,
         UNCHANGED <<manifest, files, pending, cleaning, lock, export, archive, edits, history>>
  PROVE  LetteringInv'
<1>1. Typed /\ RenderOK(r)
  BY DEF LetteringInv, PicturesInv
<1> DEFINE w == [at |-> "asked", page |-> p, by |-> by, text |-> t, origin |-> origin[p]]
<1>2. /\ render[r] = Idle /\ renders < MaxRenders /\ renders' = renders + 1
      /\ render' = [render EXCEPT ![r] = w]
  BY DEF StartRender
<1>3. w \in RenderRecord
  BY <1>1 DEF Typed, RenderRecord, Asked
<1>4. w.at = "asked" /\ w.by = by /\ w.text = t
  OBVIOUS
<1> HIDE DEF w
<1>5. /\ render' \in [Renderer -> RenderRecord] /\ render'[r] = w
      /\ \A q \in Renderer : q # r => render'[q] = render[q]
  BY <1>1, <1>2, <1>3 DEF Typed
<1>6. Typed'
  <2>1. renders' \in 0..MaxRenders
    BY <1>1, <1>2, LetteringAssumption DEF Typed
  <2> QED
    BY <1>1, <1>5, <2>1 DEF Typed, manifest, files, history
<1>7. Still
  BY <1>1 DEF Still, BaseCalm, Typed, Pending, manifest, files, history
<1>8. lock # r
  BY <1>1, <1>2 DEF RenderOK, Idle
<1>9. AsksOfRecord(r)' /\ RenderOK(r)'
  BY <1>4, <1>5, <1>8 DEF AsksOfRecord, RenderOK
<1> QED
  BY <1>5, <1>6, <1>7, <1>9, OneRenderKept

LEMMA RenderByUserKept ==
  ASSUME LetteringInv, NEW r \in Renderer, NEW p \in Page, RenderByUser(r, p)
  PROVE  LetteringInv'
<1>1. PICK t \in AnyText :
        /\ StartRender(r, p, "user", t)
        /\ UNCHANGED <<manifest, files, pending, cleaning, translator, lock, export,
                       archive, edits, history>>
  BY DEF RenderByUser
<1>2. translator' \in TranslatorRecord /\ "user" \in Asker
  BY <1>1 DEF LetteringInv, Typed, Asker
<1> QED
  BY <1>1, <1>2, StartRenderKept

LEMMA RenderTranslatedKept ==
  ASSUME LetteringInv, NEW r \in Renderer, RenderTranslated(r)
  PROVE  LetteringInv'
<1>1. translator \in Translated
  BY DEF LetteringInv, Typed, RenderTranslated, TranslatorRecord, Answered, Idle
<1> PICK p \in Page : p = translator.page
  BY <1>1 DEF Translated
<1>2. translator' \in TranslatorRecord /\ "translator" \in Asker /\ Blank \in AnyText
  BY DEF RenderTranslated, TranslatorRecord, Asker, AnyText
<1>3. StartRender(r, p, "translator", Blank)
  BY DEF RenderTranslated
<1>4. UNCHANGED <<manifest, files, pending, cleaning, lock, export, archive, edits, history>>
  BY DEF RenderTranslated
<1> QED
  BY <1>2, <1>3, <1>4, StartRenderKept

LEMMA RenderChapterPageKept ==
  ASSUME LetteringInv, NEW r \in Renderer, NEW p \in Page, RenderChapterPage(r, p)
  PROVE  LetteringInv'
<1> PICK t : t = IF page[p].dropped THEN Blank ELSE page[p].text
  OBVIOUS
<1>1. page[p] \in PageRecord
  BY DEF LetteringInv, Typed
<1>2. t \in AnyText
  BY <1>1 DEF PageRecord, AnyText
<1>3. /\ StartRender(r, p, "chapter", t)
      /\ UNCHANGED <<manifest, files, pending, cleaning, translator, lock, export,
                     archive, edits, history>>
  BY DEF RenderChapterPage
<1>4. translator' \in TranslatorRecord /\ "chapter" \in Asker
  BY <1>3 DEF LetteringInv, Typed, Asker
<1> QED
  BY <1>2, <1>3, <1>4, StartRenderKept

\* Only the render r moves, and not to publish.
RenderMoves(r, w) ==
  /\ render' = [render EXCEPT ![r] = w] /\ w \in RenderRecord
  /\ w # Idle => w.by = render[r].by /\ w.text = render[r].text /\ render[r].at # "idle"
  /\ lock' = lock \/ (lock = None /\ lock' = r)
  /\ UNCHANGED <<manifest, files, pending, cleaning, translator, export, archive, bounds, history>>

LEMMA RenderMovesKept ==
  ASSUME LetteringInv, NEW r \in Renderer, NEW w, RenderMoves(r, w), RenderOK(r)'
  PROVE  LetteringInv'
<1>1. Typed /\ AsksOfRecord(r)
  BY DEF LetteringInv, TextsInv
<1>2. /\ render' \in [Renderer -> RenderRecord] /\ render'[r] = w
      /\ \A q \in Renderer : q # r => render'[q] = render[q]
  BY <1>1 DEF Typed, RenderMoves
<1>3. Typed'
  BY <1>1, <1>2 DEF Typed, RenderMoves, manifest, files, bounds, history
<1>4. Still
  BY <1>1 DEF Still, BaseCalm, Typed, Pending, RenderMoves, manifest, files, history
<1>5. AsksOfRecord(r)'
  BY <1>1, <1>2 DEF AsksOfRecord, RenderMoves, Idle
<1>6. \A q \in Renderer : q # r => (lock' = q <=> lock = q)
  BY LetteringAssumption DEF RenderMoves
<1>7. export' \in {export, Idle}
  BY DEF RenderMoves
<1> QED
  BY <1>2, <1>3, <1>4, <1>5, <1>6, <1>7, OneRenderKept

LEMMA LoadRenderSnapshotKept ==
  ASSUME LetteringInv, NEW r \in Renderer, LoadRenderSnapshot(r)
  PROVE  LetteringInv'
<1>1. Typed /\ RenderOK(r)
  BY DEF LetteringInv, PicturesInv
<1>2. render[r] \in Asked
  BY <1>1 DEF LoadRenderSnapshot, Goes, Typed, RenderRecord, Drawing, Drawn, Published, Idle
<1> PICK old \in Asked : old = render[r]
  BY <1>2
<1> PICK p \in Page : p = old.page
  BY DEF Asked
<1> PICK g \in PageRecord : g = page[p]
  BY <1>1 DEF Typed
<1> DEFINE drawn == IF g.dropped THEN Blank ELSE IF old.text # Blank THEN old.text ELSE g.text
           seal == SignatureOf(g, base[p].stamp)
           w == [at |-> "drawing", page |-> p, by |-> old.by, text |-> old.text,
                 origin |-> old.origin, drawn |-> drawn, seal |-> seal]
<1>3. ~g.skipped /\ BaseStamp(p) = base[p].stamp
  BY DEF LoadRenderSnapshot, BaseStamp
<1>4. render' = [render EXCEPT ![r] = w]
  BY <1>3 DEF LoadRenderSnapshot, RenderInputSignature
<1>5. base[p].stamp \in Nat
  BY <1>1 DEF Typed
<1>6. /\ seal \in Signature /\ seal.stamp = base[p].stamp /\ seal.skipped = g.skipped
      /\ seal.dropped = g.dropped /\ seal.text = g.text
  BY <1>5 DEF SignatureOf, Signature, PageRecord
<1>7. drawn \in AnyText /\ drawn = TextFor(old.text, seal)
  BY <1>6 DEF Asked, PageRecord, AnyText, TextFor
<1> HIDE DEF drawn, seal
<1>8. w \in Drawing
  BY <1>6, <1>7 DEF Asked, Drawing
<1>9. /\ w.at = "drawing" /\ w.page = p /\ w.by = old.by /\ w.text = old.text
      /\ w.drawn = drawn /\ w.seal = seal
  OBVIOUS
<1> HIDE DEF w
<1>10. RenderMoves(r, w)
  BY <1>4, <1>8, <1>9 DEF RenderMoves, RenderRecord, LoadRenderSnapshot, OnlyRender, Asked
<1>11. render'[r] = w /\ UNCHANGED <<lock, base>>
  BY <1>1, <1>4 DEF Typed, LoadRenderSnapshot, OnlyRender, files
<1>12. lock # r
  BY <1>1 DEF RenderOK, Asked
<1>13. RenderOK(r)'
  BY <1>3, <1>5, <1>6, <1>7, <1>9, <1>11, <1>12 DEF RenderOK
<1> QED
  BY <1>10, <1>13, RenderMovesKept

LEMMA DrawPageKept ==
  ASSUME LetteringInv, NEW r \in Renderer, DrawPage(r)
  PROVE  LetteringInv'
<1>1. Typed /\ RenderOK(r)
  BY DEF LetteringInv, PicturesInv
<1>2. render[r] \in Drawing
  BY <1>1 DEF DrawPage, Goes, Typed, RenderRecord, Asked, Drawn, Published, Idle
<1> PICK old \in Drawing : old = render[r]
  BY <1>2
<1> PICK p \in Page : p = old.page
  BY DEF Drawing
<1> PICK picture : picture = [image |-> base[p].image, text |-> old.drawn]
  OBVIOUS
<1> DEFINE w == [at |-> "drawn", page |-> p, by |-> old.by, text |-> old.text,
                 origin |-> old.origin, seal |-> old.seal, picture |-> picture]
<1>3. render' = [render EXCEPT ![r] = w]
  BY DEF DrawPage
<1>4. /\ picture \in Picture /\ picture.image = base[p].image /\ picture.text = old.drawn
  BY <1>1 DEF Typed, Picture, Drawing
<1>5. w \in Drawn
  BY <1>4 DEF Drawing, Drawn
<1>6. /\ w.at = "drawn" /\ w.page = p /\ w.by = old.by /\ w.text = old.text
      /\ w.picture = picture /\ w.seal = old.seal
  OBVIOUS
<1> HIDE DEF w
<1>7. RenderMoves(r, w)
  BY <1>3, <1>5, <1>6 DEF RenderMoves, RenderRecord, DrawPage, OnlyRender, Drawing
<1>8. render'[r] = w /\ UNCHANGED <<lock, base>>
  BY <1>1, <1>3 DEF Typed, DrawPage, OnlyRender, files
<1>9. /\ ~old.seal.skipped /\ old.drawn = TextFor(old.text, old.seal)
      /\ old.seal.stamp <= base[p].stamp /\ lock # r
  BY <1>1 DEF RenderOK, Drawing
<1>10. Shows(p, old.seal.stamp, picture.image)'
  BY <1>4, <1>8, <1>9 DEF Shows
<1>11. RenderOK(r)'
  BY <1>4, <1>6, <1>8, <1>9, <1>10 DEF RenderOK
<1> QED
  BY <1>7, <1>11, RenderMovesKept

LEMMA CompareRenderKept ==
  ASSUME LetteringInv, NEW r \in Renderer, CompareRender(r)
  PROVE  LetteringInv'
<1>1. Typed /\ RenderOK(r)
  BY DEF LetteringInv, PicturesInv
<1>2. render[r] \in Drawn
  BY <1>1 DEF CompareRender, Goes, Typed, RenderRecord, Asked, Drawing, Published, Idle
<1> PICK old \in Drawn : old = render[r]
  BY <1>2
<1> PICK p \in Page : p = old.page
  BY DEF Drawn
<1> DEFINE w == [old EXCEPT !.at = "compared"]
<1>3. render' = [render EXCEPT ![r] = w]
  BY <1>1 DEF CompareRender, Typed
<1>4. /\ w \in Drawn /\ w.at = "compared" /\ w.page = p /\ w.by = old.by /\ w.text = old.text
      /\ w.picture = old.picture /\ w.seal = old.seal
  BY DEF Drawn
<1> HIDE DEF w
<1>5. old.at = "drawn" /\ lock = None /\ lock' = r /\ RenderInputSignature(p) = old.seal
  BY DEF CompareRender, Goes, Unlocked, SnapshotIsCurrent
<1>6. RenderMoves(r, w)
  BY <1>3, <1>4, <1>5 DEF RenderMoves, RenderRecord, CompareRender
<1>7. render'[r] = w /\ UNCHANGED <<page, base>>
  BY <1>1, <1>3 DEF Typed, CompareRender, manifest, files
<1>8. /\ ~old.seal.skipped /\ old.picture.text = TextFor(old.text, old.seal)
      /\ Shows(p, old.seal.stamp, old.picture.image)
  BY <1>1, <1>5 DEF RenderOK
<1>9. Shows(p, old.seal.stamp, old.picture.image)'
  BY <1>7, <1>8 DEF Shows
<1>10. AsSealed(page'[p], old.seal)
  <2>1. old.seal.stamp = BaseStamp(p)
    BY <1>5 DEF RenderInputSignature, SignatureOf
  <2> QED
    BY <1>5, <1>7, <2>1 DEF RenderInputSignature, AsSealed
<1>11. RenderOK(r)'
  BY <1>4, <1>5, <1>7, <1>8, <1>9, <1>10 DEF RenderOK
<1> QED
  BY <1>6, <1>11, RenderMovesKept

LEMMA DropRenderKept ==
  ASSUME LetteringInv, NEW r \in Renderer, DropRender(r)
  PROVE  LetteringInv'
<1>1. Typed /\ RenderOK(r)
  BY DEF LetteringInv, PicturesInv
<1>2. RenderMoves(r, Idle)
  BY DEF DropRender, RenderMoves, RenderRecord, OnlyRender
<1>3. render'[r] = Idle /\ lock' = lock
  BY <1>1 DEF DropRender, Typed, OnlyRender
<1>4. lock # r
  BY <1>1 DEF DropRender, RenderOK
<1>5. RenderOK(r)'
  BY <1>3, <1>4 DEF RenderOK, Idle
<1> QED
  BY <1>2, <1>5, RenderMovesKept

-----------------------------------------------------------------------------
(* Publishing.                                                              *)

\* The published file of p is replaced by f, or removed, by the render that holds the lock.
Republished(r, p, f) ==
  /\ lock = r /\ (lock' = r \/ lock' = None)
  /\ out' = [out EXCEPT ![p] = f] /\ f \in File \cup {None}
  /\ clock' = clock + 1 /\ (f # None => f.stamp = clock')
  /\ \A q \in Page : q # p => (q \in slipped' <=> q \in slipped)
  /\ \A q \in Renderer : q # r => render'[q] = render[q]
  /\ UNCHANGED <<page, base, pending, export, origin, approvedAs, lost, overwritten>>

LEMMA RepublishedKept ==
  ASSUME LetteringInv, Typed', NEW r \in Renderer, NEW p \in Page, NEW f,
         Republished(r, p, f), AsksOfRecord(r)', RenderOK(r)'
  PROVE  LetteringInv'
<1>1. /\ Typed /\ TextsInv /\ Stamps /\ ExportInv /\ ApprovedInv
      /\ (\A q \in Renderer : RenderOK(q)) /\ (\A q \in Page : Sealed(q))
  BY DEF LetteringInv, PicturesInv
<1>2. out'[p] = f /\ \A q \in Page : q # p => out'[q] = out[q]
  BY <1>1 DEF Typed, Republished
<1>3. clock \in Nat /\ clock' = clock + 1 /\ page' = page /\ base' = base
  BY <1>1 DEF Typed, Republished
<1>4. BaseCalm
  BY <1>3 DEF BaseCalm
<1>5. TextsInv'
  <2>1. ASSUME NEW q \in Page PROVE (Traced(q) /\ Fits(q))'
    <3>1. TextKept(q)
      BY DEF Republished, TextKept, Pending
    <3>2. Traced(q) /\ Fits(q)
      BY <1>1 DEF TextsInv
    <3> QED
      BY <3>1, <3>2, TextStays
  <2>2. ASSUME NEW q \in Renderer PROVE AsksOfRecord(q)'
    BY <1>1 DEF TextsInv, AsksOfRecord, Republished
  <2> QED
    BY <2>1, <2>2 DEF TextsInv
<1>6. Stamps'
  <2>1. ASSUME NEW q \in Page PROVE base'[q].stamp <= clock' /\ page'[q].stamp <= clock'
    <3>1. base[q].stamp <= clock /\ page[q].stamp <= clock
      BY <1>1 DEF Stamps
    <3>2. base[q].stamp \in Nat /\ page[q].stamp \in Nat
      BY <1>1 DEF Typed, PageRecord
    <3> QED
      BY <1>3, <3>1, <3>2
  <2>2. ASSUME NEW q \in Page, out'[q] # None PROVE out'[q].stamp <= clock'
    <3>1. CASE q = p
      BY <1>2, <1>3, <2>2, <3>1 DEF Republished
    <3>2. CASE q # p
      <4>1. out'[q] = out[q] /\ out[q].stamp <= clock
        BY <1>1, <1>2, <2>2, <3>2 DEF Stamps
      <4>2. out[q].stamp \in Nat
        BY <1>1, <2>2, <4>1 DEF Typed, File
      <4> QED
        BY <1>3, <4>1, <4>2
    <3> QED
      BY <3>1, <3>2
  <2> QED
    BY <2>1, <2>2 DEF Stamps
<1>7. \A q \in Renderer : RenderOK(q)'
  <2> SUFFICES ASSUME NEW q \in Renderer, q # r PROVE RenderOK(q)'
    OBVIOUS
  <2>1. RenderStays(q)
    BY LetteringAssumption DEF Republished, RenderStays
  <2> QED
    BY <1>1, <1>4, <2>1, RenderKept
<1>8. ~OfOneRender(p)'
  <2>1. page[p].stamp <= clock /\ page[p].stamp \in Nat
    BY <1>1 DEF Stamps, Typed, PageRecord
  <2> QED
    BY <1>2, <1>3, <2>1 DEF OfOneRender, Republished
<1>9. ASSUME NEW q \in Page, q # p
      PROVE  out'[q] = out[q] /\ page'[q] = page[q] /\ base'[q] = base[q]
             /\ (q \in slipped' <=> q \in slipped) /\ approvedAs'[q] = approvedAs[q]
  BY <1>2, <1>3, <1>9 DEF Republished
<1>10. ASSUME NEW q \in Page PROVE Sealed(q)'
  BY <1>1, <1>8, <1>9 DEF Sealed, OfOneRender, Shows, TextFor
<1>11. ExportInv'
  <2> SUFFICES ASSUME export # Idle, NEW q \in Page PROVE Packed(q)'
    BY DEF ExportInv, Republished
  <2>1. Packed(q) /\ export' = export
    BY <1>1 DEF ExportInv, Republished
  <2>2. PICK s \in Nat : s = export.paths[q].stamp
    BY <1>1 DEF Typed, Packing, Path
  <2>3. CASE q # p
    BY <1>3, <1>9, <2>1, <2>2, <2>3 DEF Packed
  <2>4. CASE q = p
    BY <1>2, <1>3, <2>1, <2>2, <2>4 DEF Packed, Republished
  <2> QED
    BY <2>3, <2>4
<1>12. ApprovedInv'
  BY <1>1, <1>3, <1>8, <1>9 DEF ApprovedInv, OfOneRender
<1> QED
  BY <1>5, <1>6, <1>7, <1>10, <1>11, <1>12 DEF LetteringInv, PicturesInv

LEMMA RestorePublishedKept ==
  ASSUME LetteringInv, NEW r \in Renderer, RestorePublished(r)
  PROVE  LetteringInv'
<1>1. Typed /\ RenderOK(r)
  BY DEF LetteringInv, PicturesInv
<1>2. render[r] \in Published
  BY <1>1 DEF RestorePublished, Goes, Typed, RenderRecord, Asked, Drawing, Drawn, Idle
<1> PICK w \in Published : w = render[r]
  BY <1>2
<1> PICK p \in Page : p = w.page
  BY DEF Published
<1> PICK f : f = IF w.old = None THEN None ELSE [picture |-> w.old.picture, stamp |-> clock + 1]
  OBVIOUS
<1>3. /\ lock = r /\ lock' = None /\ clock' = clock + 1
      /\ out' = [out EXCEPT ![p] = f]
      /\ render' = [render EXCEPT ![r] = Idle]
      /\ UNCHANGED <<manifest, base, pending, cleaning, translator, export, archive,
                     bounds, history>>
  BY <1>1 DEF RestorePublished, Goes, RenderOK
<1>4. f \in File \cup {None} /\ (f # None => f.stamp = clock')
  BY <1>1, <1>3 DEF Published, File, Typed
<1>5. render' \in [Renderer -> RenderRecord] /\ render'[r] = Idle
      /\ \A q \in Renderer : q # r => render'[q] = render[q]
  BY <1>1, <1>3 DEF Typed, RenderRecord
<1>6. Typed'
  <2>1. out' \in [Page -> File \cup {None}] /\ clock' \in Nat
    BY <1>1, <1>3, <1>4 DEF Typed
  <2> QED
    BY <1>1, <1>3, <1>5, <2>1 DEF Typed, manifest, bounds, history
<1>7. Republished(r, p, f)
  BY <1>3, <1>4, <1>5 DEF Republished, manifest, history
<1>8. RenderOK(r)'
  BY <1>3, <1>5, LetteringAssumption DEF RenderOK, Idle
<1>9. AsksOfRecord(r)'
  BY <1>5 DEF AsksOfRecord, Idle
<1> QED
  BY <1>6, <1>7, <1>8, <1>9, RepublishedKept

\* What is recorded with a picture.
LEMMA PersistedRecord ==
  ASSUME Typed, NEW r \in Renderer, render[r].page \in Page, render[r].text \in AnyText
  PROVE  LET g == page[render[r].page]
             h == Persisted(r)
         IN  /\ h \in PageRecord /\ Edited(g, h)
             /\ h.source = g.source /\ h.dropped = g.dropped /\ h.skipped = g.skipped
             /\ h.revision = g.revision
             /\ h.text = (IF g.dropped \/ render[r].text = Blank THEN g.text ELSE render[r].text)
<1> PICK g \in PageRecord : g = page[render[r].page]
  BY DEF Typed
<1> PICK t \in AnyText : t = render[r].text
  OBVIOUS
<1> DEFINE k == [g EXCEPT !.text = t]
<1>1. /\ Edited(g, k) /\ k.text = t /\ k.source = g.source /\ k.dropped = g.dropped
      /\ k.skipped = g.skipped /\ k.revision = g.revision
  BY DEF Edited, PageRecord, Marks
<1>2. Persisted(r) = IF g.dropped \/ t = Blank THEN g ELSE k
  BY DEF Persisted
<1> HIDE DEF k
<1> QED
  BY <1>1, <1>2 DEF Edited

LEMMA PublishRenderKept ==
  ASSUME LetteringInv, NEW r \in Renderer, PublishRender(r)
  PROVE  LetteringInv'
<1>1. Typed /\ RenderOK(r) /\ AsksOfRecord(r)
  BY DEF LetteringInv, PicturesInv, TextsInv
<1>2. render[r] \in Drawn /\ render[r].at = "compared"
  BY <1>1 DEF PublishRender, Goes, Typed, RenderRecord, Asked, Drawing, Published, Idle
<1> PICK old \in Drawn : old = render[r]
  BY <1>2
<1> PICK p \in Page : p = old.page
  BY DEF Drawn
<1> PICK g \in PageRecord : g = page[p]
  BY <1>1 DEF Typed
<1> PICK h : h = Persisted(r)
  OBVIOUS
<1> PICK seal : seal = SignatureOf(h, BaseStamp(p))
  OBVIOUS
<1> PICK f : f = [picture |-> old.picture, stamp |-> clock + 1]
  OBVIOUS
<1> PICK w : w = [at |-> "published", page |-> p, by |-> old.by, text |-> old.text,
                  origin |-> old.origin, old |-> out[p], seal |-> seal]
  OBVIOUS
<1>3. /\ out' = [out EXCEPT ![p] = f]
      /\ clock' = clock + 1
      /\ render' = [render EXCEPT ![r] = w]
      /\ slipped' = IF BaseStamp(p) = old.seal.stamp THEN slipped \ {p} ELSE slipped \cup {p}
      /\ UNCHANGED <<manifest, base, pending, cleaning, translator, lock, export, archive,
                     bounds, origin, approvedAs, lost, overwritten>>
  BY DEF PublishRender
<1>4. /\ lock = r /\ ~old.seal.skipped /\ AsSealed(g, old.seal)
      /\ old.picture.text = TextFor(old.text, old.seal)
      /\ Shows(p, old.seal.stamp, old.picture.image)
  BY <1>1, <1>2 DEF RenderOK
<1>5. ~g.skipped /\ old.seal.dropped = g.dropped /\ old.seal.text = g.text
      /\ BaseStamp(p) = base[p].stamp /\ base[p].stamp \in Nat
  <2>1. old.seal = SignatureOf(g, old.seal.stamp)
    BY <1>4 DEF AsSealed
  <2>2. old.seal.skipped = g.skipped /\ old.seal.dropped = g.dropped /\ old.seal.text = g.text
    BY <2>1 DEF SignatureOf
  <2> QED
    BY <1>1, <1>4, <2>2 DEF BaseStamp, Typed
<1>6. /\ h \in PageRecord /\ h.skipped = g.skipped /\ h.dropped = g.dropped
      /\ h.text = (IF g.dropped \/ old.text = Blank THEN g.text ELSE old.text)
  <2>1. old.text \in AnyText
    BY DEF Drawn
  <2> QED
    BY <1>1, <2>1, PersistedRecord
<1>7. /\ seal \in Signature /\ seal.stamp = base[p].stamp /\ seal.skipped = g.skipped
      /\ seal.dropped = g.dropped /\ seal.text = h.text /\ AsSealed(h, seal)
  BY <1>5, <1>6 DEF SignatureOf, Signature, PageRecord, AsSealed
<1>8. f \in File /\ f.stamp = clock' /\ f.picture = old.picture
  BY <1>1, <1>3 DEF File, Drawn, Typed
<1>9. /\ w \in Published /\ w.at = "published" /\ w.page = p /\ w.by = old.by
      /\ w.text = old.text /\ w.seal = seal
  BY <1>1, <1>7 DEF Published, Drawn, Typed
<1>10. /\ render' \in [Renderer -> RenderRecord] /\ render'[r] = w
       /\ \A q \in Renderer : q # r => render'[q] = render[q]
  BY <1>1, <1>3, <1>9 DEF Typed, RenderRecord
<1>11. /\ out' \in [Page -> File \cup {None}] /\ out'[p] = f
       /\ clock' \in Nat /\ slipped' \in SUBSET Page
  BY <1>1, <1>3, <1>8 DEF Typed
<1>12. Typed'
  BY <1>1, <1>3, <1>10, <1>11 DEF Typed, manifest, bounds
<1>13. Republished(r, p, f)
  BY <1>3, <1>4, <1>8, <1>10 DEF Republished, manifest
<1>14. AsksOfRecord(r)'
  BY <1>1, <1>2, <1>9, <1>10 DEF AsksOfRecord
<1>15. Persisted(r)' = h
  <2>1. render'[r].page = p /\ render'[r].text = old.text /\ page' = page
    BY <1>3, <1>9, <1>10 DEF manifest
  <2> QED
    BY <2>1 DEF Persisted
<1>16. f.picture.text = TextFor(Blank, seal)
  BY <1>4, <1>5, <1>6, <1>7, <1>8 DEF TextFor
<1>17. p \in slipped' \/ Shows(p, seal.stamp, f.picture.image)'
  <2>1. CASE BaseStamp(p) = old.seal.stamp
    <3>1. Shows(p, seal.stamp, f.picture.image)
      BY <1>4, <1>5, <1>7, <1>8, <2>1
    <3> QED
      BY <1>3, <3>1 DEF Shows
  <2>2. CASE BaseStamp(p) # old.seal.stamp
    BY <1>3, <2>2
  <2> QED
    BY <2>1, <2>2
<1>18. f # None /\ ~seal.skipped /\ lock' = r
  BY <1>3, <1>4, <1>5, <1>7, <1>8, LetteringAssumption
<1>19. RenderOK(r)'
  BY <1>7, <1>9, <1>10, <1>11, <1>15, <1>16, <1>17, <1>18 DEF RenderOK
<1> QED
  BY <1>12, <1>13, <1>14, <1>19, RepublishedKept

LEMMA SavedRecord ==
  ASSUME NEW r, Persisted(r) \in PageRecord, render[r].seal \in Signature,
         out[render[r].page].stamp \in Nat
  PROVE  LET g == Persisted(r)
             h == Saved(r)
         IN  /\ h \in PageRecord /\ h.rendered /\ h.seal = render[r].seal
             /\ h.stamp = out[render[r].page].stamp /\ h.render = g.render + 1
             /\ h.approved = g.approved /\ h.text = g.text /\ h.auto = g.auto
             /\ h.source = g.source /\ h.dropped = g.dropped /\ h.skipped = g.skipped
<1> PICK g \in PageRecord : g = Persisted(r)
  OBVIOUS
<1> PICK seal \in Signature : seal = render[r].seal
  OBVIOUS
<1> PICK stamp \in Nat : stamp = out[render[r].page].stamp
  OBVIOUS
<1> PICK n \in Nat : n = g.render + 1
  BY DEF PageRecord
<1> DEFINE h == [g EXCEPT !.rendered = TRUE, !.seal = seal, !.stamp = stamp, !.render = n]
<1>1. h \in PageRecord
  BY ZenonT(60) DEF PageRecord
<1>2. /\ h.rendered /\ h.seal = seal /\ h.stamp = stamp /\ h.render = n
      /\ h.approved = g.approved /\ h.text = g.text /\ h.auto = g.auto
      /\ h.source = g.source /\ h.dropped = g.dropped /\ h.skipped = g.skipped
  BY DEF PageRecord
<1>3. Saved(r) = h
  BY DEF Saved
<1> QED
  BY <1>1, <1>2, <1>3

LEMMA SaveRenderKept ==
  ASSUME LetteringInv, NEW r \in Renderer, SaveRender(r)
  PROVE  LetteringInv'
<1>1. /\ Typed /\ TextsInv /\ Stamps /\ ExportInv /\ ApprovedInv /\ AsksOfRecord(r)
      /\ (\A q \in Renderer : RenderOK(q)) /\ (\A q \in Page : Sealed(q))
  BY DEF LetteringInv, PicturesInv, TextsInv
<1>2. render[r] \in Published /\ render[r].at = "published"
  BY <1>1 DEF SaveRender, Goes, Typed, RenderRecord, Asked, Drawing, Drawn, Idle
<1> PICK w \in Published : w = render[r]
  BY <1>2
<1> PICK p \in Page : p = w.page
  BY DEF Published
<1> PICK f : f = out[p]
  OBVIOUS
<1> PICK g \in PageRecord : g = page[p]
  BY <1>1 DEF Typed
<1> PICK h : h = Saved(r)
  OBVIOUS
<1> DEFINE moves == h.text # g.text
<1>3. /\ lock = r /\ f # None /\ ~w.seal.skipped /\ w.seal \in Signature
      /\ f.picture.text = TextFor(Blank, w.seal)
      /\ p \in slipped \/ Shows(p, w.seal.stamp, f.picture.image)
  BY <1>1, <1>2 DEF RenderOK, Published
<1>4. f.stamp \in Nat /\ f.stamp <= clock
  BY <1>1, <1>3 DEF Typed, File, Stamps
<1>5. /\ Persisted(r) \in PageRecord /\ Edited(g, Persisted(r))
      /\ Persisted(r).source = g.source /\ Persisted(r).dropped = g.dropped
      /\ Persisted(r).skipped = g.skipped
      /\ Persisted(r).text = (IF g.dropped \/ w.text = Blank THEN g.text ELSE w.text)
  <2>1. w.text \in AnyText
    BY DEF Published
  <2> QED
    BY <1>1, <2>1, PersistedRecord
<1>6. /\ h \in PageRecord /\ h.rendered /\ h.seal = w.seal /\ h.stamp = f.stamp
      /\ h.render = g.render + 1 /\ h.approved = g.approved
      /\ h.text = Persisted(r).text /\ h.auto = g.auto
      /\ h.source = g.source /\ h.dropped = g.dropped /\ h.skipped = g.skipped
  <2>1. /\ h \in PageRecord /\ h.rendered /\ h.seal = w.seal /\ h.stamp = f.stamp
        /\ h.render = Persisted(r).render + 1 /\ h.approved = Persisted(r).approved
        /\ h.text = Persisted(r).text /\ h.auto = Persisted(r).auto
        /\ h.source = Persisted(r).source /\ h.dropped = Persisted(r).dropped
        /\ h.skipped = Persisted(r).skipped
    BY <1>3, <1>4, <1>5, SavedRecord
  <2> QED
    BY <1>5, <2>1 DEF Edited, Marks
<1>7. /\ page' = [page EXCEPT ![p] = h]
      /\ render' = [render EXCEPT ![r] = Idle]
      /\ lock' = None
      /\ origin' = IF ~moves THEN origin
                   ELSE [origin EXCEPT ![p] = IF w.by = "user" THEN "user" ELSE w.origin]
      /\ overwritten' = IF moves /\ w.by = "chapter" THEN overwritten \cup {p} ELSE overwritten
      /\ UNCHANGED <<chapter, files, pending, cleaning, translator, export, archive,
                     bounds, approvedAs, lost, slipped>>
  BY <1>6 DEF SaveRender
<1>8. page' \in [Page -> PageRecord] /\ page'[p] = h /\ \A q \in Page : q # p => page'[q] = page[q]
  BY <1>1, <1>6, <1>7 DEF Typed
<1>9. /\ origin' \in [Page -> Origin] /\ (~moves => origin' = origin)
      /\ (moves => origin'[p] = IF w.by = "user" THEN "user" ELSE w.origin)
      /\ \A q \in Page : q # p => origin'[q] = origin[q]
  <2>1. (IF w.by = "user" THEN "user" ELSE w.origin) \in Origin
    BY DEF Published, Origin
  <2> QED
    BY <1>1, <1>7, <2>1 DEF Typed
<1>10. /\ render' \in [Renderer -> RenderRecord] /\ render'[r] = Idle
       /\ \A q \in Renderer : q # r => render'[q] = render[q]
  BY <1>1, <1>7 DEF Typed, RenderRecord
<1>11. Typed'
  <2>1. overwritten' \in SUBSET Page
    BY <1>1, <1>7 DEF Typed
  <2> QED
    BY <1>1, <1>7, <1>8, <1>9, <1>10, <2>1 DEF Typed, files, bounds
<1>12. (Traced(p) /\ Fits(p))'
  <2>1. CASE ~moves
    <3>1. TextKept(p)
      BY <1>6, <1>7, <1>8, <1>9, <2>1 DEF TextKept, Pending
    <3>2. Traced(p) /\ Fits(p)
      BY <1>1 DEF TextsInv
    <3> QED
      BY <3>1, <3>2, TextStays
  <2>2. CASE moves
    <3>1. w.by \in Asker /\ w.text # Blank
      BY <1>5, <1>6, <2>2 DEF Published
    <3>2. w.by # "translator"
      BY <1>1, <1>2, <3>1 DEF AsksOfRecord
    <3>3. CASE w.by = "user"
      BY <1>9, <2>2, <3>3 DEF Traced, Fits
    <3>4. CASE w.by = "chapter"
      BY <1>7, <2>2, <3>4 DEF Traced, Fits
    <3> QED
      BY <3>1, <3>2, <3>3, <3>4 DEF Asker
  <2> QED
    BY <2>1, <2>2
<1>13. TextsInv'
  <2>1. ASSUME NEW q \in Page, q # p PROVE (Traced(q) /\ Fits(q))'
    <3>1. TextKept(q)
      BY <1>7, <1>8, <1>9, <2>1 DEF TextKept, Pending
    <3>2. Traced(q) /\ Fits(q)
      BY <1>1 DEF TextsInv
    <3> QED
      BY <3>1, <3>2, TextStays
  <2>2. ASSUME NEW q \in Renderer PROVE AsksOfRecord(q)'
    BY <1>1, <1>10 DEF TextsInv, AsksOfRecord, Idle
  <2> QED
    BY <1>12, <2>1, <2>2 DEF TextsInv
<1>14. Stamps'
  BY <1>1, <1>4, <1>6, <1>7, <1>8 DEF Stamps, files
<1>15. \A q \in Renderer : RenderOK(q)'
  <2>1. BaseCalm
    BY <1>1, <1>7 DEF BaseCalm, Typed, files
  <2>2. ASSUME NEW q \in Renderer PROVE RenderStays(q) \/ RenderGone(q)
    <3>1. CASE q = r
      BY <1>7, <1>10, <3>1, LetteringAssumption DEF RenderGone
    <3>2. CASE q # r
      BY <1>3, <1>7, <1>10, <3>2, LetteringAssumption DEF RenderStays
    <3> QED
      BY <3>1, <3>2
  <2> QED
    BY <1>1, <1>11, <2>1, <2>2, RenderKept
<1>16. \A q \in Page : Sealed(q)'
  <2> SUFFICES ASSUME NEW q \in Page PROVE Sealed(q)'
    OBVIOUS
  <2>1. CASE q = p
    BY <1>3, <1>6, <1>7, <1>8, <2>1 DEF Sealed, Shows, files
  <2>2. CASE q # p
    BY <1>1, <1>7, <1>8, <2>2 DEF Sealed, OfOneRender, Shows, TextFor, files
  <2> QED
    BY <2>1, <2>2
<1>17. ExportInv'
  BY <1>1, <1>7 DEF ExportInv, Packed, files
<1>18. ApprovedInv'
  <2> SUFFICES ASSUME NEW q \in Page
               PROVE  /\ page'[q].approved <= page'[q].render
                      /\ page'[q].approved = page'[q].render /\ page'[q].render > 0 /\ OfOneRender(q)'
                           => approvedAs'[q] = out'[q].picture
    BY DEF ApprovedInv
  <2>1. CASE q = p
    <3>1. g.approved <= g.render /\ g.approved \in Nat /\ g.render \in Nat
      BY <1>1 DEF ApprovedInv, PageRecord
    <3> QED
      BY <1>6, <1>8, <2>1, <3>1
  <2>2. CASE q # p
    BY <1>1, <1>7, <1>8, <2>2 DEF ApprovedInv, OfOneRender, files
  <2> QED
    BY <2>1, <2>2
<1> QED
  BY <1>11, <1>13, <1>14, <1>15, <1>16, <1>17, <1>18 DEF LetteringInv, PicturesInv

-----------------------------------------------------------------------------
(* Archiving.                                                               *)

\* The steps of an export leave everything else alone.
Archiving ==
  UNCHANGED <<manifest, files, pending, cleaning, translator, render, lock, bounds, history>>

LEMMA ArchivingKept ==
  ASSUME LetteringInv, Archiving, export' \in Packing \cup {Idle},
         archive' = None \/ archive' \in [Page -> Picture \cup {None}],
         export' \in {export, Idle} \/ ExportInv'
  PROVE  LetteringInv'
<1>1. Typed
  BY DEF LetteringInv
<1>2. Typed'
  BY <1>1 DEF Typed, Archiving, manifest, files, bounds, history
<1>3. Still
  BY <1>1 DEF Still, BaseCalm, Typed, Archiving, Pending, manifest, files, history
<1> QED
  BY <1>2, <1>3, NoRenderKept DEF Archiving

LEMMA SnapshotExportKept ==
  ASSUME LetteringInv, SnapshotExport
  PROVE  LetteringInv'
<1>1. Typed /\ Stamps
  BY DEF LetteringInv, PicturesInv
<1>2. PICK force \in BOOLEAN :
        /\ \A p \in Page : page[p].skipped \/ RenderArtifactIsCurrent(p)
        /\ export' = [at |-> "packing", force |-> force,
                      paths |-> [p \in Page |-> ExportPath(p, page[p])],
                      packed |-> [p \in Page |-> None]]
        /\ UNCHANGED <<manifest, files, pending, cleaning, translator, render, lock,
                       archive, bounds, history>>
  BY DEF SnapshotExport
<1>3. ASSUME NEW p \in Page
      PROVE  /\ ExportPath(p, page[p]) \in Path
             /\ ExportPath(p, page[p]).from = "output" =>
                  /\ ExportPath(p, page[p]).stamp <= clock
                  /\ ExportPath(p, page[p]).stamp = out[p].stamp
  <2>1. page[p] \in PageRecord /\ page[p].stamp \in Nat /\ page[p].stamp <= clock
    BY <1>1 DEF Typed, PageRecord, Stamps
  <2>2. page[p].skipped \/ page[p].stamp = out[p].stamp
    BY <1>2 DEF RenderArtifactIsCurrent
  <2> QED
    BY <2>1, <2>2 DEF ExportPath, Path
<1>4. export' \in Packing
  BY <1>2, <1>3 DEF Packing
<1>5. ExportInv'
  <2> SUFFICES ASSUME NEW p \in Page PROVE Packed(p)'
    BY DEF ExportInv
  <2>1. export'.paths[p] = ExportPath(p, page[p]) /\ export'.packed[p] = None
    BY <1>2
  <2>2. out' = out /\ clock' = clock
    BY <1>2 DEF files
  <2>3. PICK path \in Path : path = ExportPath(p, page[p])
    BY <1>3
  <2>4. path.from = "output" => path.stamp <= clock /\ path.stamp = out[p].stamp /\ path.stamp \in Nat
    BY <1>3, <2>3 DEF Path
  <2> QED
    BY <2>1, <2>2, <2>3, <2>4 DEF Packed
<1>6. Archiving
  BY <1>2 DEF Archiving
<1>7. archive' = None \/ archive' \in [Page -> Picture \cup {None}]
  BY <1>1, <1>2 DEF Typed
<1> QED
  BY <1>4, <1>5, <1>6, <1>7, ArchivingKept

LEMMA PackPageKept ==
  ASSUME LetteringInv, NEW p \in Page, PackPage(p)
  PROVE  LetteringInv'
<1>1. Typed /\ ExportInv
  BY DEF LetteringInv
<1>2. export \in Packing
  BY <1>1 DEF PackPage, Typed, Idle
<1> PICK old \in Packing : old = export
  BY <1>2
<1> PICK x : x = IF old.paths[p].from = "original" THEN Original ELSE out[p].picture
  OBVIOUS
<1> DEFINE packed == [old.packed EXCEPT ![p] = x]
           new == [old EXCEPT !.packed = packed]
<1>3. export' = new /\ old.packed[p] = None /\ (old.paths[p].from = "original" \/ out[p] # None)
  BY DEF PackPage
<1>4. x \in Picture
  <2>1. Original \in Picture
    BY DEF Original, Picture, AnyText
  <2>2. out[p] # None => out[p].picture \in Picture
    BY <1>1 DEF Typed, File
  <2> QED
    BY <1>3, <2>1, <2>2
<1>5. /\ packed \in [Page -> Picture \cup {None}] /\ packed[p] = x
      /\ \A q \in Page : q # p => packed[q] = old.packed[q]
  BY <1>4 DEF Packing
<1> HIDE DEF packed
<1>6. new \in Packing /\ new.packed = packed /\ new.paths = old.paths
  BY <1>5 DEF Packing
<1> HIDE DEF new
<1>7. UNCHANGED <<out, clock, archive>> /\ Archiving
  BY DEF PackPage, Archiving, files
<1>8. ExportInv'
  <2> SUFFICES ASSUME NEW q \in Page PROVE Packed(q)'
    BY DEF ExportInv
  <2>1. old # Idle
    BY DEF Packing, Idle
  <2>2. Packed(q)
    BY <1>1, <2>1 DEF ExportInv
  <2>3. old.paths[q] \in Path
    BY DEF Packing
  <2>4. CASE q = p
    BY <1>3, <1>5, <1>6, <1>7, <2>2, <2>3, <2>4 DEF Packed, Path
  <2>5. CASE q # p
    BY <1>3, <1>5, <1>6, <1>7, <2>2, <2>5 DEF Packed
  <2> QED
    BY <2>4, <2>5
<1> QED
  BY <1>1, <1>3, <1>6, <1>7, <1>8, ArchivingKept DEF Typed

LEMMA DeliverKept ==
  ASSUME LetteringInv, Deliver
  PROVE  LetteringInv'
<1>1. Typed
  BY DEF LetteringInv
<1>2. export \in Packing /\ archive' = export.packed /\ export' = Idle
  BY <1>1 DEF Typed, Deliver, Idle
<1>3. archive' \in [Page -> Picture \cup {None}]
  BY <1>2 DEF Packing
<1>4. Archiving
  BY DEF Deliver, Archiving
<1> QED
  BY <1>2, <1>3, <1>4, ArchivingKept

LEMMA DropExportKept ==
  ASSUME LetteringInv, DropExport
  PROVE  LetteringInv'
<1>1. archive' = None \/ archive' \in [Page -> Picture \cup {None}]
  BY DEF LetteringInv, Typed, DropExport
<1>2. Archiving /\ export' = Idle
  BY DEF DropExport, Archiving
<1> QED
  BY <1>1, <1>2, ArchivingKept

-----------------------------------------------------------------------------
LEMMA LetteringStep == LetteringInv /\ [Next]_vars => LetteringInv'
<1> SUFFICES ASSUME LetteringInv, [Next]_vars PROVE LetteringInv'
  OBVIOUS
<1>1. ASSUME NEW p \in Page, EditPage(p) PROVE LetteringInv'
  BY <1>1, EditTranslationKept, EditSourceKept, CommitReadingKept, ReviewDispositionKept,
     AutoTextObjectsKept, MarkSkippedKept, PaintCleanKept, ScriptReviewKept, FinalReviewKept
     DEF EditPage
<1>2. ASSUME NEW p \in Page, AskTranslator(p) \/ PackPage(p) PROVE LetteringInv'
  BY <1>2, AskTranslatorKept, PackPageKept
<1>3. CASE ReconcileTranslation \/ CommitClean \/ RollBackClean
  BY <1>3, ReconcileTranslationKept, CommitCleanKept, RollBackCleanKept
<1>4. CASE CommitTranslation \/ DropTranslation
  BY <1>4, CommitTranslationKept, DropTranslationKept
<1>5. ASSUME NEW r \in Renderer, RenderStep(r) PROVE LetteringInv'
  BY <1>5, RenderTranslatedKept, LoadRenderSnapshotKept, DrawPageKept, CompareRenderKept,
     PublishRenderKept, SaveRenderKept, RestorePublishedKept, DropRenderKept
     DEF RenderStep
<1>6. ASSUME NEW r \in Renderer, NEW p \in Page, RenderByUser(r, p) \/ RenderChapterPage(r, p)
      PROVE  LetteringInv'
  BY <1>6, RenderByUserKept, RenderChapterPageKept
<1>7. CASE SnapshotExport \/ Deliver \/ DropExport
  BY <1>7, SnapshotExportKept, DeliverKept, DropExportKept
<1>8. CASE Crash
  BY <1>8, CrashKept
<1>9. CASE UNCHANGED vars
  <2>1. Typed
    BY DEF LetteringInv
  <2>2. Typed'
    BY <1>9, <2>1 DEF Typed, vars, manifest, files, work, bounds, history
  <2>3. Still
    BY <1>9, <2>1 DEF Still, BaseCalm, Typed, Pending, vars, manifest, files, history
  <2> QED
    BY <1>9, <2>2, <2>3, NoRenderKept DEF vars, work
<1> QED
  BY <1>1, <1>2, <1>3, <1>4, <1>5, <1>6, <1>7, <1>8, <1>9 DEF Next

\* The invariant holds of every run of the lettering (project.py, translation_service.py,
\* page_processing.py, export.py).
THEOREM LetteringHolds == Spec => []LetteringInv
  BY LetteringInit, LetteringStep, PTL DEF Spec

\* A text that the translator made belongs to the source the record has now, for any pages,
\* sources, texts and renders (_reconcile_translation_after_ocr_edit,
\* sync_existing_auto_text_object).
THEOREM TextsAreRight == Spec => []TextsOK
<1>1. LetteringInv => TextsOK
  <2> SUFFICES ASSUME LetteringInv PROVE TextsOK
    OBVIOUS
  <2>1. Typed /\ TextsInv
    BY DEF LetteringInv
  <2>2. TypeOK
    <3>1. cleaning = Idle \/ cleaning \in [at : {"painted"}, page : Page, image : Nat]
      BY <2>1 DEF Typed, Painting
    <3>2. translator = Idle \/ translator.page \in Page
      BY <2>1 DEF Typed, TranslatorRecord, Answered, Translated
    <3>3. \A r \in Renderer : render[r] = Idle \/ render[r].page \in Page
      BY <2>1 DEF Typed, RenderRecord, Asked, Drawing, Drawn, Published
    <3> QED
      BY <2>1, <3>1, <3>2, <3>3 DEF Typed, TypeOK
  <2>3. MachineFits
    BY <2>1 DEF TextsInv, Fits, Pending, MachineFits
  <2> QED
    BY <2>2, <2>3 DEF TextsOK
<1> QED
  BY <1>1, LetteringHolds, PTL

\* What a current picture shows.
LEMMA CurrentPicture ==
  ASSUME LetteringInv, NEW p \in Page, RenderArtifactIsCurrent(p)
  PROVE  /\ OfOneRender(p) /\ ~page[p].skipped
         /\ out[p].picture.text = (IF page[p].dropped THEN Blank ELSE page[p].text)
         /\ p \notin slipped => out[p].picture.image = base[p].image
<1> PICK seal : seal = page[p].seal
  OBVIOUS
<1>1. OfOneRender(p) /\ page[p].rendered /\ seal = SignatureOf(page[p], BaseStamp(p))
  BY DEF RenderArtifactIsCurrent, OfOneRender, RenderInputSignature
<1>2. /\ ~seal.skipped /\ out[p].picture.text = TextFor(Blank, seal)
      /\ p \in slipped \/ Shows(p, seal.stamp, out[p].picture.image)
  BY <1>1 DEF LetteringInv, PicturesInv, Sealed
<1>3. /\ seal.skipped = page[p].skipped /\ seal.dropped = page[p].dropped
      /\ seal.text = page[p].text /\ seal.stamp = BaseStamp(p)
  BY <1>1 DEF SignatureOf
<1> QED
  BY <1>1, <1>2, <1>3 DEF TextFor, Shows, BaseStamp

\* A picture that counts as current shows the record's text on the clean image as it is, for any
\* pages, texts, renders and edits of the clean image (render_artifact_is_current,
\* publish_then_commit).
THEOREM CurrentIsTrueAlways == Spec => []CurrentIsTrue
<1>1. LetteringInv => CurrentIsTrue
  BY CurrentPicture DEF CurrentIsTrue
<1> QED
  BY <1>1, LetteringHolds, PTL

\* Every step but a delivery leaves the archive.
LEMMA OnlyDeliver ==
  ASSUME [Next]_vars, archive' # archive
  PROVE  Deliver
<1>1. ASSUME NEW p \in Page, EditPage(p) PROVE FALSE
  BY <1>1 DEF EditPage, EditTranslation, EditSource, CommitReading, ReviewDisposition,
     AutoTextObjects, MarkSkipped, PaintClean, ScriptReview, FinalReview
<1>2. ASSUME NEW p \in Page, AskTranslator(p) \/ PackPage(p) PROVE FALSE
  BY <1>2 DEF AskTranslator, PackPage
<1>3. CASE ReconcileTranslation \/ CommitClean \/ RollBackClean
  BY <1>3 DEF ReconcileTranslation, CommitClean, RollBackClean
<1>4. CASE CommitTranslation \/ DropTranslation
  BY <1>4 DEF CommitTranslation, DropTranslation
<1>5. ASSUME NEW r \in Renderer, RenderStep(r) PROVE FALSE
  BY <1>5 DEF RenderStep, RenderTranslated, LoadRenderSnapshot, DrawPage, CompareRender,
     PublishRender, SaveRender, RestorePublished, DropRender, OnlyRender
<1>6. ASSUME NEW r \in Renderer, NEW p \in Page, RenderByUser(r, p) \/ RenderChapterPage(r, p)
      PROVE  FALSE
  BY <1>6 DEF RenderByUser, RenderChapterPage
<1>7. CASE SnapshotExport \/ DropExport \/ Crash
  BY <1>7 DEF SnapshotExport, DropExport, Crash
<1>8. CASE UNCHANGED vars
  BY <1>8 DEF vars
<1> QED
  BY <1>1, <1>2, <1>3, <1>4, <1>5, <1>6, <1>7, <1>8 DEF Next

\* What a delivery packs.
LEMMA Delivered ==
  ASSUME LetteringInv, Deliver, NEW p \in Page
  PROVE  IF page[p].skipped THEN archive'[p] = Original
         ELSE RenderArtifactIsCurrent(p) /\ archive'[p] = out[p].picture
<1>1. /\ archive' = export.packed /\ export # Idle /\ export.packed[p] # None
      /\ page[p].skipped \/ RenderArtifactIsCurrent(p)
      /\ ExportPath(p, page[p]) = export.paths[p]
  BY DEF Deliver, ExportSnapshotIsCurrent, Idle
<1>2. Packed(p)
  BY <1>1 DEF LetteringInv, ExportInv
<1>3. CASE page[p].skipped
  BY <1>1, <1>2, <1>3 DEF ExportPath, Packed
<1>4. CASE ~page[p].skipped
  BY <1>1, <1>2, <1>4 DEF ExportPath, Packed, RenderArtifactIsCurrent
<1> QED
  BY <1>3, <1>4

DeliverStep ==
  /\ archive' # archive =>
       \A p \in Page : IF page[p].skipped THEN archive'[p] = Original
                       ELSE /\ RenderArtifactIsCurrent(p)
                            /\ archive'[p] = out[p].picture
  /\ archive' # archive /\ ~export.force =>
       \A p \in Page : page[p].skipped \/
         /\ chapter.final => archive'[p] = approvedAs[p]
         /\ chapter.script /\ ~page[p].dropped => archive'[p].text = page[p].reviewed.text

LEMMA DeliverStepHolds == LetteringInv /\ [Next]_vars => [DeliverStep]_vars
<1> SUFFICES ASSUME LetteringInv, [Next]_vars, archive' # archive PROVE DeliverStep
  BY DEF DeliverStep
<1>1. Deliver
  BY OnlyDeliver
<1>2. \A p \in Page : IF page[p].skipped THEN archive'[p] = Original
                      ELSE RenderArtifactIsCurrent(p) /\ archive'[p] = out[p].picture
  BY <1>1, Delivered
<1>3. ASSUME ~export.force, NEW p \in Page, ~page[p].skipped
      PROVE  /\ chapter.final => archive'[p] = approvedAs[p]
             /\ chapter.script /\ ~page[p].dropped => archive'[p].text = page[p].reviewed.text
  <2>1. ScriptOK(page[p]) /\ FinalOK(page[p])
    BY <1>1, <1>3 DEF Deliver, EditorialPreflight
  <2>2. RenderArtifactIsCurrent(p) /\ archive'[p] = out[p].picture
    BY <1>2, <1>3
  <2>3. OfOneRender(p) /\ out[p].picture.text = (IF page[p].dropped THEN Blank ELSE page[p].text)
    BY <2>2, CurrentPicture
  <2>4. ASSUME chapter.final PROVE archive'[p] = approvedAs[p]
    BY <2>1, <2>2, <2>3, <2>4 DEF FinalOK, LetteringInv, ApprovedInv
  <2>5. ASSUME chapter.script, ~page[p].dropped PROVE archive'[p].text = page[p].reviewed.text
    BY <2>1, <2>2, <2>3, <2>5 DEF ScriptOK
  <2> QED
    BY <2>4, <2>5
<1> QED
  BY <1>2, <1>3 DEF DeliverStep

\* An archive is of one instant, and holds what was approved and reviewed, although it is read
\* page by page without a lock, for any number of pages and concurrent renders and edits
\* (export.py:500-529, editorial_gate.py:456-515).
THEOREM DeliveryIsRight == Spec => DeliveryOK
<1>1. LetteringInv /\ [Next]_vars =>
        [archive' # archive =>
           \A p \in Page : IF page[p].skipped THEN archive'[p] = Original
                           ELSE /\ RenderArtifactIsCurrent(p)
                                /\ archive'[p] = out[p].picture]_vars
  BY DeliverStepHolds DEF DeliverStep
<1>2. LetteringInv /\ [Next]_vars =>
        [archive' # archive /\ ~export.force =>
           \A p \in Page : page[p].skipped \/
             /\ chapter.final => archive'[p] = approvedAs[p]
             /\ chapter.script /\ ~page[p].dropped => archive'[p].text = page[p].reviewed.text]_vars
  BY DeliverStepHolds DEF DeliverStep
<1>3. Spec => ArchiveOfOneInstant
  BY <1>1, LetteringHolds, PTL DEF Spec, ArchiveOfOneInstant
<1>4. Spec => OnlyApprovedDelivered
  BY <1>2, LetteringHolds, PTL DEF Spec, OnlyApprovedDelivered
<1> QED
  BY <1>3, <1>4 DEF DeliveryOK
=============================================================================
