------------------------------- MODULE Seams -------------------------------
(***************************************************************************)
(* Text that crosses a slice cut, from the slicer to the stitched page:    *)
(* every slice searches its own core, the neighbours of an unsafe cut      *)
(* share one more search of the strip around it (pipeline.py:328-446,      *)
(* page_processing.py), the A.I mode joins the lines of one block, lets    *)
(* the slice that owns a text translate it and copies its lettering to     *)
(* the neighbour (ai_mode/seams.py), and the export puts the cores         *)
(* together again.                                                         *)
(*                                                                         *)
(* The page is seen from its side: a text is an interval of rows, all      *)
(* texts are of the same width, and none is beside another.  The detector  *)
(* finds every text that is whole in the image it is given; of a text cut  *)
(* by the edge of that image it finds the piece, or, when the text is      *)
(* faint, nothing.                                                         *)
(***************************************************************************)
EXTENDS Slicer, FiniteSets, SequencesExt

\* An image of Images also has
\*   text:  the texts drawn in it, intervals of unsafe rows;
\*   faint: those that are recognised only when they are whole.
ASSUME TextOK ==
  \A im \in Images :
    /\ im.faint \subseteq im.text
    /\ \A t \in im.text : t.y1 < t.y2 /\ t.y1 .. t.y2 - 1 \subseteq im.unsafe

VARIABLES
  pages,   \* the manifest's page of each slice
  stage    \* how far the A.I mode has come with the chapter

seamsVars == <<image, cuts, slices, pages, stage>>
-----------------------------------------------------------------------------
Shift(box, offset) == [y1 |-> box.y1 + offset, y2 |-> box.y2 + offset]
Height(box) == box.y2 - box.y1
Common(a, b) == Larger(0, Smaller(a.y2, b.y2) - Larger(a.y1, b.y1))

SetMin(S) == CHOOSE x \in S : \A y \in S : x <= y
SetMax(S) == CHOOSE x \in S : \A y \in S : x >= y
Hull(boxes) == [y1 |-> SetMin({b.y1 : b \in boxes}), y2 |-> SetMax({b.y2 : b \in boxes})]

Slices == 1 .. Len(slices)
Active == {i \in Slices : pages[i].state # "skipped"}
Core(i) == [y1 |-> slices[i].core_source_y1, y2 |-> slices[i].core_source_y2]
-----------------------------------------------------------------------------
(* Detection. *)

\* The boxes the detector finds in rows lo to hi of the source, in the coordinates of that strip.
DetectIn(lo, hi) ==
  LET strip == [y1 |-> lo, y2 |-> hi]
      seen  == {t \in image.text : /\ Common(t, strip) > 0
                                   /\ t \in image.faint => Common(t, strip) = Height(t)}
  IN  {Shift([y1 |-> Larger(t.y1, lo), y2 |-> Smaller(t.y2, hi)], -lo) : t \in seen}

\* The search of a slice: of its core only, shifted into the slice.
CoreDetections(i) ==
  {Shift(box, slices[i].core_y1) : box \in DetectIn(Core(i).y1, Core(i).y2)}

\* _shared_seam_detections: the cuts, by the slice above, that need a search of their own when
\* the chosen slices are processed, and who asks for it.
Consumers(k, chosen) ==
  {i \in chosen : \/ i = k /\ slices[i].unsafe_after /\ slices[i].core_source_y2 < image.height
                  \/ i = k + 1 /\ slices[i].unsafe_before /\ slices[i].core_source_y1 > 0}
Seams(chosen) == {k \in 1 .. Len(slices) - 1 : Consumers(k, chosen) # {}}

\* The strip around cut k is read from the first slice that asks; its boxes in source rows.
SeamDetections(k, chosen) ==
  LET provider == slices[SetMin(Consumers(k, chosen))]
      center == slices[k].core_source_y2 - provider.source_y1
      lo == provider.source_y1 + Larger(0, center - OverlapContext)
      hi == provider.source_y1 + Smaller(provider.source_y2 - provider.source_y1, center + OverlapContext)
  IN  {Shift(box, lo) : box \in DetectIn(lo, hi)}

\* _map_seam_detection_to_page: clipped to the slice and in its coordinates.
MapToSlice(boxes, i) ==
  LET shown == [y1 |-> slices[i].source_y1, y2 |-> slices[i].source_y2]
  IN  {Shift([y1 |-> Larger(b.y1, shown.y1), y2 |-> Smaller(b.y2, shown.y2)], -shown.y1) :
         b \in {c \in boxes : Common(c, shown) > 0}}

\* Mutant: what the core search found stays beside what the shared search found.
FoldNothing(boxes) == boxes

\* _fold_nested: of the larger boxes first, one that holds half of a smaller one takes it in.
Contained(box, home) == 2 * Common(box, home) >= Height(box)
FoldNested(boxes) ==
  LET TakeIn(groups, box) ==
        LET homes == {g \in DOMAIN groups : Contained(box, groups[g][1])}
        IN  IF homes = {} THEN Append(groups, <<box>>)
            ELSE [groups EXCEPT ![SetMin(homes)] = Append(@, box)]
      groups == FoldLeft(TakeIn, <<>>, SetToSortSeq(boxes, LAMBDA a, b : Height(a) > Height(b)))
  IN  {Hull(Range(groups[g])) : g \in DOMAIN groups}

\* Of the boxes of slice i, those that are not only in the rows it shares with a neighbour.
InCore(boxes, i) ==
  {b \in boxes : ~(b.y2 <= slices[i].core_y1 \/ b.y1 >= slices[i].core_y2)}

\* What is read in a box of slice i: every text it shows a part of.
WordsIn(box, i) == {t \in image.text : Common(t, Shift(box, slices[i].source_y1)) > 0}

\* ensure_page_text_objects: one object for each box that is not of the context only.
NewObjects(boxes, i) ==
  LET ordered == SetToSortSeq(boxes, LAMBDA a, b : a.y1 < b.y1)
  IN  [n \in DOMAIN ordered |->
         [region |-> ordered[n], words |-> WordsIn(ordered[n], i), translation |-> {},
          joined |-> FALSE, dropped |-> FALSE, own |-> FALSE]]

RawPage == [state |-> "raw", objects |-> <<>>, erased |-> {}, unavailable |-> FALSE]

\* _process_page of slice i, of those chosen, with the shared searches that failed.  The
\* apply_final_nms before the fold is left out: every box here has the role of the text segmenter
\* and a mask, so it joins boxes instead of dropping them, and two that it joins (an overlap over
\* 0.35 of their union) share more than half of the smaller one, where the fold joins them too.
CleanPage(i, chosen, failed) ==
  LET mine  == {k \in Seams(chosen) : i \in Consumers(k, chosen)}
      seam  == UNION {MapToSlice(SeamDetections(k, chosen), i) : k \in mine \ failed}
      found == InCore(FoldNested(CoreDetections(i) \cup seam), i)
  IN  [state |-> "clean", objects |-> NewObjects(found, i), erased |-> found,
       unavailable |-> mine \cap failed # {}]
-----------------------------------------------------------------------------
(* Ownership and lettering (ai_mode/seams.py), on the pages ps of a chapter. *)

Rect(ps, i, o) == Shift(ps[i].objects[o].region, slices[i].source_y1)

\* _shared at least OWNER_SHARE or OVERLAP_KEEP, and which of two candidates shares more.
Shared(a, b) == 2 * Common(a, b) >= Smaller(Height(a), Height(b))
SharesMore(r, a, b) ==
  Common(r, a) * Smaller(Height(r), Height(b)) > Common(r, b) * Smaller(Height(r), Height(a))

\* The object of slice j that shows most of the text at rect, if it shows enough of it.
Match(ps, rect, j) ==
  LET there == {p \in DOMAIN ps[j].objects : ~ps[j].objects[p].joined}
      best  == {p \in there : \A q \in there : ~SharesMore(rect, Rect(ps, j, q), Rect(ps, j, p))}
  IN  {p \in best : p = SetMin(best) /\ Shared(rect, Rect(ps, j, p))}

\* _owner: <<slice, object>> of the neighbour whose core holds the middle of all that the two
\* slices see of the text; empty when there is none.
Owner(ps, i, o) ==
  LET rect == Rect(ps, i, o)
      Middle(j, p) == Smaller(rect.y1, Rect(ps, j, p).y1) + Larger(rect.y2, Rect(ps, j, p).y2)
      owners == UNION {{<<j, p>> : p \in {q \in Match(ps, rect, j) :
                                            /\ 2 * Core(j).y1 <= Middle(j, q)
                                            /\ Middle(j, q) < 2 * Core(j).y2}} :
                         j \in {i - 1, i + 1} \cap Active}
  IN  {w \in owners : \A v \in owners : w[1] <= v[1]}

\* seam_mirror_ids: what another slice owns and letters.
Mirrors(ps, i) ==
  {o \in DOMAIN ps[i].objects : ~ps[i].objects[o].joined /\ Owner(ps, i, o) # {}}

\* _stacked and _letters_continue, the lettering filling its box: lower goes on with the block
\* upper is a part of.
Stacked(upper, lower) ==
  LET h == Smaller(Height(upper), Height(lower))
      gap == lower.y1 - upper.y2
  IN  2 * gap >= -h /\ 5 * gap <= h

\* The blocks of slice i, each a sequence of lines from the top (texts here do not overlap, so
\* only one that follows another can be stacked on it).
Blocks(ps, i) ==
  LET Line(o) == ps[i].objects[o].region
      free == {o \in DOMAIN ps[i].objects :
                 ~ps[i].objects[o].joined /\ ps[i].objects[o].translation = {}}
      Add(blocks, o) ==
        IF blocks # <<>> /\ Stacked(Line(Last(Last(blocks))), Line(o))
        THEN [blocks EXCEPT ![Len(blocks)] = Append(@, o)]
        ELSE Append(blocks, <<o>>)
  IN  Range(FoldLeft(Add, <<>>, SetToSortSeq(free, LAMBDA a, b : Line(a).y1 < Line(b).y1)))

\* join_stacked_lines: the first line of a block stands for all of them.
JoinLines(ps, i) ==
  LET long == {b \in Blocks(ps, i) : Len(b) > 1}
      obj(o) == ps[i].objects[o]
      lines(b) == {obj(o) : o \in Range(b)}
  IN  [ps[i] EXCEPT !.objects = [o \in DOMAIN @ |->
         IF \E b \in long : b[1] = o
         THEN LET b == CHOOSE c \in long : c[1] = o
              IN  [obj(o) EXCEPT !.region = Hull({l.region : l \in lines(b)}),
                                 !.words = UNION {l.words : l \in lines(b)}]
         ELSE IF \E b \in long : o \in Range(b) THEN [obj(o) EXCEPT !.joined = TRUE]
         ELSE obj(o)]]

\* sync_seam_mirrors for one object: it takes over the lettering and the region of its owner.
SyncObject(ps, i, o) ==
  LET me == ps[i].objects[o]
      translated == {w \in Owner(ps, i, o) : ps[w[1]].objects[w[2]].translation # {}}
  IN  IF me.joined \/ me.dropped \/ translated = {} THEN ps
      ELSE LET w == CHOOSE v \in translated : TRUE
           IN  [ps EXCEPT ![i].objects[o].translation = ps[w[1]].objects[w[2]].translation,
                          ![i].objects[o].region = Shift(Rect(ps, w[1], w[2]), -slices[i].source_y1)]

\* ... and for every object of every active slice, each seeing what those before it did.
SyncMirrors(ps) ==
  LET SyncSlice(qs, i) ==
        IF i \notin Active THEN qs
        ELSE FoldLeftDomain(LAMBDA rs, o : SyncObject(rs, i, o), qs, qs[i].objects)
  IN  FoldLeftDomain(SyncSlice, ps, ps)

\* drop_overlapping_letters: of two that mostly overlap the larger stays.
DropOverlapping(ps) ==
  [i \in DOMAIN ps |->
     LET obj(o) == ps[i].objects[o]
         Larger2(a, b) == \/ Height(obj(a).region) > Height(obj(b).region)
                          \/ Height(obj(a).region) = Height(obj(b).region) /\ a < b
         Keep(kept, o) ==
           IF \E k \in kept : Shared(obj(o).region, obj(k).region) THEN kept ELSE kept \cup {o}
         lettered == {o \in DOMAIN ps[i].objects : obj(o).translation # {}}
         kept == FoldLeft(Keep, {}, SetToSortSeq(lettered, Larger2))
     IN  [ps[i] EXCEPT !.objects = [o \in DOMAIN @ |->
            IF o \in lettered \ kept
            THEN [obj(o) EXCEPT !.translation = {}, !.dropped = TRUE] ELSE obj(o)]]]
-----------------------------------------------------------------------------
SeamsInit ==
  /\ SlicerInit
  /\ pages = <<>>
  /\ stage = "slice"

\* The slicer's loop, and the pages the manifest gets for its slices.
Cut == stage = "slice" /\ FindCutRow /\ UNCHANGED <<pages, stage>>

WriteSlices ==
  /\ stage = "slice" /\ SliceImage
  /\ pages' = [i \in 1 .. Len(slices') |-> RawPage]
  /\ stage' = "process"

\* mark_skipped: a slice is left as it is, and is not searched.
Skip(i) ==
  /\ stage = "process" /\ pages[i].state = "raw"
  /\ pages' = [pages EXCEPT ![i].state = "skipped"]
  /\ UNCHANGED <<image, cuts, slices, stage>>

\* process_pages for some of the slices: the shared searches first, each of which may fail.
ProcessPages(chosen) ==
  /\ stage = "process" /\ \A i \in chosen : pages[i].state = "raw"
  /\ \E failed \in SUBSET Seams(chosen) :
       pages' = [i \in Slices |-> IF i \in chosen THEN CleanPage(i, chosen, failed) ELSE pages[i]]
  /\ UNCHANGED <<image, cuts, slices, stage>>

\* The A.I mode's translate stage begins: _join_stacked_lines for every active slice.
JoinStackedLines ==
  /\ stage = "process" /\ \A i \in Slices : pages[i].state # "raw"
  /\ pages' = [i \in Slices |-> IF i \in Active THEN JoinLines(pages, i) ELSE pages[i]]
  /\ stage' = "translate"
  /\ UNCHANGED <<image, cuts, slices>>

\* translate_one for every active slice: it translates what no other slice owns, or its call and
\* the retries fail.  (What is owned depends on boxes only, so the calls may be taken together.)
TranslateSlices ==
  /\ stage = "translate"
  /\ \E failed \in SUBSET Active :
       LET Asked(o) == IF o.joined THEN o ELSE [o EXCEPT !.translation = o.words, !.own = TRUE]
       IN  pages' = [i \in Slices |->
             IF i \in failed \/ i \notin Active THEN pages[i]
             ELSE [pages[i] EXCEPT !.objects = [o \in DOMAIN @ |->
                     IF o \in Mirrors(pages, i) THEN @[o] ELSE Asked(@[o])]]]
  /\ stage' = "sync"
  /\ UNCHANGED <<image, cuts, slices>>

\* _sync_seams, when every slice has answered.
Synced(ps) == SyncMirrors(DropOverlapping(ps))
SyncSeams ==
  /\ stage = "sync"
  /\ pages' = Synced(pages)
  /\ stage' = "synced"
  /\ UNCHANGED <<image, cuts, slices>>

\* write_chapter_archive: the gate lets no untranslated object pass, then the cores are stitched.
ExportChapter ==
  /\ stage = "synced" /\ ValidStitchGroup(slices)
  /\ \A i \in Active : \A o \in DOMAIN pages[i].objects :
       pages[i].objects[o].joined \/ pages[i].objects[o].translation # {}
  /\ stage' = "exported"
  /\ UNCHANGED <<image, cuts, slices, pages>>

SeamsNext ==
  \/ Cut \/ WriteSlices
  \/ \E i \in Slices : Skip(i)
  \/ \E chosen \in SUBSET Slices \ {{}} : ProcessPages(chosen)
  \/ JoinStackedLines \/ TranslateSlices \/ SyncSeams \/ ExportChapter

SeamsSpec == SeamsInit /\ [][SeamsNext]_seamsVars
-----------------------------------------------------------------------------
SeamsTypeOK ==
  /\ stage \in {"slice", "process", "translate", "sync", "synced", "exported"}
  /\ DOMAIN pages = Slices
  /\ \A i \in Slices :
       /\ pages[i].state \in {"raw", "skipped", "clean"}
       /\ pages[i].unavailable \in BOOLEAN
       /\ \A o \in DOMAIN pages[i].objects : pages[i].objects[o].words # {}

\* The slices that the searches start from are what the export demands, of allowed heights, with
\* every text whole in one of them; no later step changes them
\* (_build_chapter_from_raw_paths, pipeline.py:237-271).
SlicesAreSound == stage = "process" => SlicesOK

\* The slices that export rows of text t, and whether the search for t had all it needs: t is no
\* taller than the context, none of those slices is skipped and none had a search fail.
ShowingSlices(t) == {i \in Slices : Common(t, Core(i)) > 0}
Searched(t) ==
  /\ Height(t) <= OverlapContext
  /\ \A i \in ShowingSlices(t) : pages[i].state # "skipped" /\ ~pages[i].unavailable

\* A text that is not a line of a longer block.
Alone(t) == \A u \in image.text \ {t} : ~Stacked(u, t) /\ ~Stacked(t, u)

\* Every row of a text is erased by the slice that exports it.
Erased(t) ==
  \A i \in ShowingSlices(t) :
    \A r \in Larger(t.y1, Core(i).y1) .. Smaller(t.y2, Core(i).y2) - 1 :
      \E b \in pages[i].erased : Shift(b, slices[i].source_y1).y1 <= r /\ r < Shift(b, slices[i].source_y1).y2

\* All slices that export a part of a text letter it, in the same place, from one translation.
LetteredOnce(t) ==
  LET telling == {w \in UNION {{i} \X DOMAIN pages[i].objects : i \in Active} :
                    t \in pages[w[1]].objects[w[2]].translation}
  IN  /\ Cardinality({w \in telling : pages[w[1]].objects[w[2]].own}) = 1
      /\ \A v, w \in telling : Rect(pages, v[1], v[2]) = Rect(pages, w[1], w[2])
      /\ \A w \in telling : Common(Rect(pages, w[1], w[2]), t) = Height(t)
      /\ \A i \in ShowingSlices(t) : \E w \in telling : w[1] = i
      /\ \A i \in Slices : Cardinality({w \in telling : w[1] = i}) <= 1

\* In an exported chapter every text that crosses no block of lines was erased wherever it is
\* shown, was paid for once, and is lettered once although two slices show a part of it
\* (pipeline.py:390-446, page_processing.py:103-172, seams.py:68-140), and copying the owners'
\* lettering again changes nothing (tests/test_ai_seams.py:39).
TextReplaced ==
  /\ SeamsTypeOK
  /\ stage = "exported" =>
       \A t \in image.text : Searched(t) /\ Alone(t) => Erased(t) /\ LetteredOnce(t)
  /\ stage = "synced" => Synced(pages) = pages

\* "Lines the detector split from one block become one object before translation, so no word is
\* dropped. Lines in the overlap with a neighbour join too: both slices then hold the same block
\* and one of them owns it" (join_stacked_lines, seams.py:213-218).
NoWordDropped ==
  stage = "exported" =>
    \A t \in image.text : Searched(t) =>
      \E i \in ShowingSlices(t) : \E o \in DOMAIN pages[i].objects :
        t \in pages[i].objects[o].translation
=============================================================================
