----------------------------- MODULE Lettering -----------------------------
(* The text of a chapter's pages and the pictures made of it: editing and   *)
(* translating a text object, rendering a page, and archiving a chapter.    *)
(*                                                                          *)
(* Everything that touches manifest.json does so under the manifest lock,   *)
(* but drawing, translating and archiving run for seconds without it. Each  *)
(* of them remembers what it started from and compares before it commits.   *)
(*                                                                          *)
(* A page has one text object, made from one detector box. Its boxes,       *)
(* preserve regions and cleaning are the subject of PageEditing; here an    *)
(* edit of the clean image only replaces the file and commits or not.       *)
EXTENDS Integers, FiniteSets

CONSTANTS
  Page,        \* the pages of the chapter
  Source,      \* what may be read in the box of a page
  Text,        \* the translations there may be
  Blank,       \* the empty translation
  None,        \* no translation data, no review, no file
  Renderer,    \* requests that render, one at a time each
  MaxEdits,    \* bound: edits, translations and readings
  MaxRenders   \* bound: renders that are started

AnyText == Text \cup {Blank}
Translation == [text : Text, input : Source]
Picture == [image : Nat, text : AnyText]
File == [picture : Picture, stamp : Nat]

ASSUME LetteringAssumption ==
  /\ Blank \notin Text
  /\ None \notin Source /\ None \notin Renderer
  /\ None \notin Translation /\ None \notin File
  /\ MaxEdits \in Nat
  /\ MaxRenders \in Nat

VARIABLES
  page,        \* the pages of manifest.json
  chapter,     \* [script, final]: which reviews the chapter requires
  base,        \* the clean image of each page: what it shows and its file stamp
  out,         \* the published picture of each page, or None
  clock,       \* the last file stamp: (size, mtime, ctime) never repeats
  pending,     \* source edits whose second part has not run
  cleaning,    \* the edit that has painted a clean image and not committed
  translator,  \* the translation under way
  render,      \* the renders under way
  lock,        \* the render that holds the manifest lock to publish, or None
  export,      \* the archive being written
  archive,     \* the delivered archive
  edits, renders,   \* how much of the bounds is used
  origin,      \* history: who wrote the text of a page, and for which source
  approvedAs,  \* history: the picture a page had when it was approved
  lost,        \* history: pages with a source edit cut short by a crash
  overwritten, \* history: pages whose text a chapter render has put back
  slipped      \* history: pages whose base changed while their render was sealed

manifest == <<page, chapter>>
files == <<base, out, clock>>
work == <<cleaning, translator, render, lock, export>>
bounds == <<edits, renders>>
history == <<origin, approvedAs, lost, overwritten, slipped>>
vars == <<manifest, files, pending, work, archive, bounds, history>>

Idle == [at |-> "idle"]
Signature == [text : AnyText, dropped : BOOLEAN, skipped : BOOLEAN,
              revision : Nat, stamp : Nat]
PageRecord ==
  [source : Source, boxText : Source, autoText : Source, text : AnyText,
   auto : Translation \cup {None},
   reviewed : [source : Source, text : AnyText] \cup {None},
   dropped : BOOLEAN, skipped : BOOLEAN, revision : Nat, rendered : BOOLEAN,
   seal : Signature \cup {None}, stamp : Nat, render : Nat, approved : Nat]

TypeOK ==
  /\ page \in [Page -> PageRecord]
  /\ chapter \in [script : BOOLEAN, final : BOOLEAN]
  /\ base \in [Page -> [image : Nat, stamp : Nat]]
  /\ out \in [Page -> File \cup {None}]
  /\ clock \in Nat
  /\ pending \subseteq [page : Page, source : Source]
  /\ cleaning = Idle \/ cleaning \in [at : {"painted"}, page : Page, image : Nat]
  /\ translator = Idle \/ translator.page \in Page
  /\ \A r \in Renderer : render[r] = Idle \/ render[r].page \in Page
  /\ lock \in Renderer \cup {None}
  /\ archive = None \/ archive \in [Page -> Picture \cup {None}]
  /\ edits \in 0..MaxEdits /\ renders \in 0..MaxRenders

Init ==
  /\ page \in [Page -> {[source |-> s, boxText |-> s, autoText |-> s, text |-> t,
                         auto |-> None, reviewed |-> None, dropped |-> FALSE,
                         skipped |-> FALSE, revision |-> 1, rendered |-> FALSE,
                         seal |-> None, stamp |-> 0, render |-> 0, approved |-> 0]
                        : s \in Source, t \in AnyText}]
  /\ chapter = [script |-> FALSE, final |-> FALSE]
  /\ base = [p \in Page |-> [image |-> 1, stamp |-> 1]]
  /\ out = [p \in Page |-> None]
  /\ clock = 1
  /\ pending = {} /\ lost = {} /\ overwritten = {} /\ slipped = {}
  /\ cleaning = Idle /\ translator = Idle /\ export = Idle
  /\ render = [r \in Renderer |-> Idle]
  /\ lock = None /\ archive = None
  /\ edits = 0 /\ renders = 0
  /\ origin = [p \in Page |-> "user"]
  /\ approvedAs = [p \in Page |-> None]

----------------------------------------------------------------------------
(* What the record says of a picture.                                       *)

Unlocked == lock = None
Painted(p) == cleaning # Idle /\ cleaning.page = p
Unpainted(p) == ~Painted(p)

\* a skipped page has no clean image: its base is the original
BaseStamp(p) == IF page[p].skipped THEN 0 ELSE base[p].stamp

SignatureOf(g, stamp) ==
  [text |-> g.text, dropped |-> g.dropped, skipped |-> g.skipped,
   revision |-> g.revision, stamp |-> stamp]
RenderInputSignature(p) == SignatureOf(page[p], BaseStamp(p))

RenderArtifactIsCurrent(p) ==
  /\ page[p].rendered
  /\ out[p] # None
  /\ page[p].seal = RenderInputSignature(p)
  /\ page[p].stamp = out[p].stamp

\* the record after its machine translation was checked against a source
InvalidateStale(g, source) ==
  IF g.auto # None /\ g.auto.input # source /\ g.text = g.auto.text
  THEN [g EXCEPT !.text = Blank, !.auto = None] ELSE g

\* text read by machine follows the box; text corrected by hand stays
SyncExisting(g) ==
  IF g.source = g.autoText
  THEN [InvalidateStale(g, g.boxText) EXCEPT !.source = g.boxText, !.autoText = g.boxText]
  ELSE InvalidateStale(g, g.source)

EnsureTextObjects(g) == IF g.dropped \/ g.skipped THEN g ELSE SyncExisting(g)

Unrendered(g) == [g EXCEPT !.rendered = FALSE]
Turned(g) == [g EXCEPT !.dropped = ~@]
Revised(g) == [g EXCEPT !.revision = @ + 1]

\* the published file of a page goes when its record is saved as not rendered
SyncOutput(p) == out' = [out EXCEPT ![p] = None]

Edit == edits < MaxEdits /\ edits' = edits + 1
Healed(p) == lost' = lost \ {p}

----------------------------------------------------------------------------
(* Edits of the text.                                                       *)

EditTranslation(p) == \E t \in AnyText :
  /\ Unlocked /\ Edit
  /\ page' = [page EXCEPT ![p] = Unrendered([@ EXCEPT !.text = t])]
  /\ origin' = [origin EXCEPT ![p] = "user"]
  /\ overwritten' = overwritten \ {p}
  /\ UNCHANGED <<chapter, files, pending, work, archive, renders, approvedAs, lost, slipped>>

EditSource(p) == \E s \in Source :
  /\ Unlocked /\ Edit
  /\ page' = [page EXCEPT ![p] = Unrendered([@ EXCEPT !.source = s])]
  /\ pending' = pending \cup {[page |-> p, source |-> s]}
  /\ UNCHANGED <<chapter, files, work, archive, renders, history>>

\* the second part of a source edit, after the lock was released in between
ReconcileTranslation == \E e \in pending :
  LET p == e.page
      g == InvalidateStale(page[p], e.source)
      stale == page[p].source = e.source /\ g # page[p]
  IN /\ Unlocked
     /\ pending' = pending \ {e}
     /\ IF stale THEN page' = [page EXCEPT ![p] = Unrendered(g)] /\ SyncOutput(p)
        ELSE UNCHANGED <<page, out>>
     /\ UNCHANGED <<chapter, base, clock, work, archive, bounds, history>>

CommitReading(p) == \E s \in Source :
  /\ Unlocked /\ Edit
  /\ ~page[p].skipped /\ ~page[p].dropped
  /\ page' = [page EXCEPT ![p] = Unrendered(SyncExisting([@ EXCEPT !.boxText = s]))]
  /\ SyncOutput(p)
  /\ Healed(p)
  /\ UNCHANGED <<chapter, base, clock, pending, work, archive, renders,
                 origin, approvedAs, overwritten, slipped>>

\* a reviewer takes the box out of the story, or promotes it
ReviewDisposition(p) ==
  /\ Unlocked /\ Unpainted(p) /\ Edit
  /\ ~page[p].skipped
  /\ page' = [page EXCEPT ![p] = Unrendered(EnsureTextObjects(Turned(@)))]
  /\ SyncOutput(p)
  /\ lost' = IF page[p].dropped THEN lost \ {p} ELSE lost
  /\ UNCHANGED <<chapter, base, clock, pending, work, archive, renders,
                 origin, approvedAs, overwritten, slipped>>

\* objects are brought in line with boxes wherever a chapter is looked over
AutoTextObjects(p) ==
  /\ Unlocked /\ ~page[p].skipped
  /\ EnsureTextObjects(page[p]) # page[p]
  /\ page' = [page EXCEPT ![p] = Unrendered(EnsureTextObjects(@))]
  /\ Healed(p)
  /\ UNCHANGED <<chapter, files, pending, work, archive, bounds,
                 origin, approvedAs, overwritten, slipped>>

MarkSkipped(p) ==
  /\ Unlocked /\ Unpainted(p) /\ Edit
  /\ ~page[p].skipped
  /\ page' = [page EXCEPT ![p] = Unrendered([Revised(@) EXCEPT !.skipped = TRUE])]
  /\ SyncOutput(p)
  /\ UNCHANGED <<chapter, base, clock, pending, work, archive, renders, history>>

----------------------------------------------------------------------------
(* Edits of the clean image: the file first, the record afterwards.         *)

PaintClean(p) ==
  /\ cleaning = Idle /\ Edit
  /\ ~page[p].skipped
  /\ cleaning' = [at |-> "painted", page |-> p, image |-> base[p].image]
  /\ base' = [base EXCEPT ![p] = [image |-> clock + 1, stamp |-> clock + 1]]
  /\ clock' = clock + 1
  /\ UNCHANGED <<manifest, out, pending, translator, render, lock, export,
                 archive, renders, history>>

CommitClean ==
  /\ Unlocked /\ cleaning # Idle
  /\ page' = [page EXCEPT ![cleaning.page] = Unrendered(Revised(@))]
  /\ SyncOutput(cleaning.page)
  /\ cleaning' = Idle
  /\ UNCHANGED <<chapter, base, clock, pending, translator, render, lock, export,
                 archive, bounds, history>>

\* the backup is put back: the old image in a file with a stamp of its own
RestoredBase ==
  IF cleaning = Idle THEN UNCHANGED <<base, clock>>
  ELSE /\ base' = [base EXCEPT ![cleaning.page] =
                     [image |-> cleaning.image, stamp |-> clock + 1]]
       /\ clock' = clock + 1

RollBackClean ==
  /\ cleaning # Idle
  /\ RestoredBase
  /\ cleaning' = Idle
  /\ UNCHANGED <<manifest, out, pending, translator, render, lock, export,
                 archive, bounds, history>>

----------------------------------------------------------------------------
(* Translating a page.                                                      *)

AskTranslator(p) == \E force \in BOOLEAN :
  LET g == EnsureTextObjects(page[p]) IN
  /\ Unlocked /\ translator = Idle /\ Edit
  /\ ~g.skipped /\ ~g.dropped
  /\ g.text = Blank \/ force
  /\ page' = [page EXCEPT ![p] = IF g = @ THEN @ ELSE Unrendered(g)]
  /\ translator' = [at |-> "asked", page |-> p, source |-> g.source, text |-> g.text,
                    revision |-> g.revision]
  /\ Healed(p)
  /\ UNCHANGED <<chapter, files, pending, cleaning, render, lock, export, archive,
                 renders, origin, approvedAs, overwritten, slipped>>

\* Mutant: an answer to another source is taken
AnswerFitsText ==
  LET g == page[translator.page] IN
  /\ ~g.skipped /\ g.revision = translator.revision
  /\ ~g.dropped /\ g.text = translator.text

\* nothing changed under the translator
AnswerFits ==
  LET g == page[translator.page] IN
  /\ ~g.skipped /\ g.revision = translator.revision
  /\ ~g.dropped /\ g.source = translator.source /\ g.text = translator.text

WithAnswer(g, t, source) ==
  [g EXCEPT !.text = t, !.auto = [text |-> t, input |-> source]]

CommitTranslation == \E t \in Text :
  LET p == translator.page IN
  /\ Unlocked /\ translator.at = "asked"
  /\ AnswerFits
  /\ page' = [page EXCEPT ![p] = Unrendered(WithAnswer(@, t, translator.source))]
  /\ translator' = [at |-> "committed", page |-> p]
  /\ origin' = [origin EXCEPT ![p] = translator.source]
  /\ overwritten' = overwritten \ {p}
  /\ UNCHANGED <<chapter, files, pending, cleaning, render, lock, export, archive,
                 bounds, approvedAs, lost, slipped>>

\* the answer was blank, late or an error; what is there stays
DropTranslation ==
  /\ translator.at = "asked"
  /\ translator' = Idle
  /\ UNCHANGED <<manifest, files, pending, cleaning, render, lock, export, archive,
                 bounds, history>>

----------------------------------------------------------------------------
(* Rendering a page.                                                        *)

StartRender(r, p, by, t) ==
  /\ render[r] = Idle
  /\ renders < MaxRenders /\ renders' = renders + 1
  /\ render' = [render EXCEPT ![r] =
       [at |-> "asked", page |-> p, by |-> by, text |-> t, origin |-> origin[p]]]

\* the editor sends the text the user sees; empty means what the record has
RenderByUser(r, p) == \E t \in AnyText :
  /\ StartRender(r, p, "user", t)
  /\ UNCHANGED <<manifest, files, pending, cleaning, translator, lock, export,
                 archive, edits, history>>

\* a translation that was committed is drawn at once
RenderTranslated(r) ==
  /\ translator.at = "committed"
  /\ StartRender(r, translator.page, "translator", Blank)
  /\ translator' = Idle
  /\ UNCHANGED <<manifest, files, pending, cleaning, lock, export,
                 archive, edits, history>>

\* rendering a chapter takes the text from the record, under the lock
RenderChapterPage(r, p) ==
  /\ Unlocked
  /\ ~page[p].skipped /\ ~RenderArtifactIsCurrent(p)
  /\ StartRender(r, p, "chapter", IF page[p].dropped THEN Blank ELSE page[p].text)
  /\ UNCHANGED <<manifest, files, pending, cleaning, translator, lock, export,
                 archive, edits, history>>

Goes(r, at) == render[r].at = at
OnlyRender == UNCHANGED <<manifest, files, pending, cleaning, translator, lock,
                          export, archive, bounds, history>>

LoadRenderSnapshot(r) ==
  LET p == render[r].page
      drawn == IF page[p].dropped THEN Blank
               ELSE IF render[r].text # Blank THEN render[r].text ELSE page[p].text
  IN /\ Goes(r, "asked") /\ Unlocked
     /\ ~page[p].skipped
     /\ render' = [render EXCEPT ![r] =
          [at |-> "drawing", page |-> p, by |-> @.by, text |-> @.text, origin |-> @.origin,
           drawn |-> drawn, seal |-> RenderInputSignature(p)]]
     /\ OnlyRender

\* the base image is opened after the lock was released
DrawPage(r) ==
  /\ Goes(r, "drawing")
  /\ render' = [render EXCEPT ![r] =
       [at |-> "drawn", page |-> @.page, by |-> @.by, text |-> @.text, origin |-> @.origin,
        seal |-> @.seal, picture |-> [image |-> base[@.page].image, text |-> @.drawn]]]
  /\ OnlyRender

\* Mutant: a render is published whatever changed since its snapshot
SnapshotNotCompared(r) == render[r].page \in Page

SnapshotIsCurrent(r) == RenderInputSignature(render[r].page) = render[r].seal

CompareRender(r) ==
  /\ Goes(r, "drawn") /\ Unlocked
  /\ SnapshotIsCurrent(r)
  /\ lock' = r
  /\ render' = [render EXCEPT ![r].at = "compared"]
  /\ UNCHANGED <<manifest, files, pending, cleaning, translator, export, archive,
                 bounds, history>>

\* what the request says of the text goes into the record with the picture
Persisted(r) ==
  LET g == page[render[r].page] IN
  IF g.dropped \/ render[r].text = Blank THEN g ELSE [g EXCEPT !.text = render[r].text]

\* the signature is taken again, and then the file is replaced
PublishRender(r) ==
  LET p == render[r].page IN
  /\ Goes(r, "compared")
  /\ out' = [out EXCEPT ![p] = [picture |-> render[r].picture, stamp |-> clock + 1]]
  /\ clock' = clock + 1
  /\ render' = [render EXCEPT ![r] =
       [at |-> "published", page |-> p, by |-> @.by, text |-> @.text, origin |-> @.origin,
        old |-> out[p], seal |-> SignatureOf(Persisted(r), BaseStamp(p))]]
  /\ slipped' = IF BaseStamp(p) = render[r].seal.stamp THEN slipped \ {p}
                ELSE slipped \cup {p}
  /\ UNCHANGED <<manifest, base, pending, cleaning, translator, lock, export, archive,
                 bounds, origin, approvedAs, lost, overwritten>>

\* the record of a page whose picture is published
Saved(r) ==
  [Persisted(r) EXCEPT !.rendered = TRUE, !.seal = render[r].seal,
                       !.stamp = out[render[r].page].stamp, !.render = @ + 1]

SaveRender(r) ==
  LET p == render[r].page
      moves == Persisted(r).text # page[p].text
  IN /\ Goes(r, "published")
     /\ page' = [page EXCEPT ![p] = Saved(r)]
     /\ render' = [render EXCEPT ![r] = Idle]
     /\ lock' = None
     /\ origin' = IF ~moves THEN origin
                  ELSE [origin EXCEPT ![p] =
                          IF render[r].by = "user" THEN "user" ELSE render[r].origin]
     /\ overwritten' = IF moves /\ render[r].by = "chapter"
                       THEN overwritten \cup {p} ELSE overwritten
     /\ UNCHANGED <<chapter, files, pending, cleaning, translator, export, archive,
                    bounds, approvedAs, lost, slipped>>

\* saving fails: the file is put back from its copy, or removed
RestorePublished(r) ==
  LET p == render[r].page IN
  /\ Goes(r, "published")
  /\ clock' = clock + 1
  /\ out' = [out EXCEPT ![p] =
       IF render[r].old = None THEN None
       ELSE [picture |-> render[r].old.picture, stamp |-> clock + 1]]
  /\ render' = [render EXCEPT ![r] = Idle]
  /\ lock' = None
  /\ UNCHANGED <<manifest, base, pending, cleaning, translator, export, archive,
                 bounds, history>>

\* the page is skipped, the snapshot is stale, or drawing fails
DropRender(r) ==
  /\ render[r].at \in {"asked", "drawing", "drawn"}
  /\ render' = [render EXCEPT ![r] = Idle]
  /\ OnlyRender

----------------------------------------------------------------------------
(* Reviewing, and archiving a chapter.                                      *)

ScriptReview(p) == \E reviewed \in BOOLEAN :
  /\ Unlocked /\ Unpainted(p) /\ Edit
  /\ ~page[p].dropped
  /\ page' = [page EXCEPT ![p].reviewed =
       IF reviewed THEN [source |-> page[p].source, text |-> page[p].text] ELSE None]
  /\ chapter' = [chapter EXCEPT !.script = TRUE]
  /\ UNCHANGED <<files, pending, work, archive, renders, history>>

FinalReview(p) ==
  /\ Unlocked /\ Unpainted(p) /\ Edit
  /\ page[p].render > 0 /\ page[p].rendered
  /\ page' = [page EXCEPT ![p].approved = page[p].render]
  /\ chapter' = [chapter EXCEPT !.final = TRUE]
  /\ approvedAs' = [approvedAs EXCEPT ![p] = IF out[p] = None THEN None ELSE out[p].picture]
  /\ UNCHANGED <<files, pending, work, archive, renders, origin, lost, overwritten, slipped>>

ScriptOK(g) ==
  g.dropped \/ /\ g.text # Blank
               /\ chapter.script \/ g.reviewed # None
                    => g.reviewed = [source |-> g.source, text |-> g.text]
FinalOK(g) == chapter.final => g.render > 0 /\ g.approved = g.render
EditorialPreflight(g) == g.skipped \/ (ScriptOK(g) /\ FinalOK(g))

\* where the picture of a page is taken from, if it can be delivered
ExportPath(p, g) ==
  IF g.skipped THEN [from |-> "original", stamp |-> 0]
  ELSE [from |-> "output", stamp |-> g.stamp]

SnapshotExport == \E force \in BOOLEAN :
  LET ensured == [p \in Page |-> EnsureTextObjects(page[p])] IN
  /\ Unlocked /\ export = Idle
  /\ ensured = page
  /\ \A p \in Page : force \/ EditorialPreflight(page[p])
  /\ \A p \in Page : page[p].skipped \/ RenderArtifactIsCurrent(p)
  /\ export' = [at |-> "packing", force |-> force,
                paths |-> [p \in Page |-> ExportPath(p, page[p])],
                packed |-> [p \in Page |-> None]]
  /\ UNCHANGED <<manifest, files, pending, cleaning, translator, render, lock,
                 archive, bounds, history>>

\* pages are read one after the other, without the lock
Original == [image |-> 0, text |-> Blank]
PackPage(p) ==
  /\ export.at = "packing"
  /\ export.packed[p] = None
  /\ export.paths[p].from = "original" \/ out[p] # None
  /\ export' = [export EXCEPT !.packed[p] =
       IF export.paths[p].from = "original" THEN Original ELSE out[p].picture]
  /\ UNCHANGED <<manifest, files, pending, cleaning, translator, render, lock,
                 archive, bounds, history>>

\* Mutant: every page is current, but not the file that was packed
ExportIsRendered ==
  \A p \in Page : page[p].skipped \/ RenderArtifactIsCurrent(p)

ExportSnapshotIsCurrent ==
  \A p \in Page :
    /\ page[p].skipped \/ RenderArtifactIsCurrent(p)
    /\ ExportPath(p, page[p]) = export.paths[p]

Deliver ==
  /\ export.at = "packing" /\ Unlocked
  /\ \A p \in Page : export.packed[p] # None
  /\ ExportSnapshotIsCurrent
  /\ \A p \in Page : export.force \/ EditorialPreflight(page[p])
  /\ archive' = export.packed
  /\ export' = Idle
  /\ UNCHANGED <<manifest, files, pending, cleaning, translator, render, lock,
                 bounds, history>>

\* a file is missing, or the chapter changed: the archive is thrown away
DropExport ==
  /\ export.at = "packing"
  /\ export' = Idle
  /\ UNCHANGED <<manifest, files, pending, cleaning, translator, render, lock,
                 archive, bounds, history>>

----------------------------------------------------------------------------
(* The server dies and starts again: what was under way is gone, and the    *)
(* recovery of page artifacts puts a painted image back.                    *)
Crash ==
  /\ Edit
  /\ RestoredBase
  /\ cleaning' = Idle /\ translator' = Idle /\ export' = Idle /\ lock' = None
  /\ render' = [r \in Renderer |-> Idle]
  /\ lost' = lost \cup {e.page : e \in pending}
  /\ pending' = {}
  /\ UNCHANGED <<manifest, out, archive, renders, origin, approvedAs, overwritten, slipped>>

EditPage(p) ==
  \/ EditTranslation(p) \/ EditSource(p) \/ CommitReading(p)
  \/ ReviewDisposition(p) \/ AutoTextObjects(p) \/ MarkSkipped(p)
  \/ PaintClean(p) \/ ScriptReview(p) \/ FinalReview(p)

RenderStep(r) ==
  \/ RenderTranslated(r) \/ LoadRenderSnapshot(r) \/ DrawPage(r) \/ CompareRender(r)
  \/ PublishRender(r) \/ SaveRender(r) \/ RestorePublished(r) \/ DropRender(r)

Next ==
  \/ \E p \in Page : EditPage(p) \/ AskTranslator(p) \/ PackPage(p)
  \/ ReconcileTranslation \/ CommitClean \/ RollBackClean
  \/ CommitTranslation \/ DropTranslation
  \/ \E r \in Renderer : \/ RenderStep(r)
                         \/ \E p \in Page : RenderByUser(r, p) \/ RenderChapterPage(r, p)
  \/ SnapshotExport \/ Deliver \/ DropExport
  \/ Crash

Spec == Init /\ [][Next]_vars

----------------------------------------------------------------------------
(* Correctness.                                                             *)

\* A picture that counts as current shows the text of the record on the clean
\* image as it is, whatever was edited, rolled back or restored meanwhile
\* (render_artifact_is_current, publish_then_commit). The exception: the file
\* is replaced between the two signatures that a commit takes of it.
CurrentIsTrue == \A p \in Page :
  RenderArtifactIsCurrent(p) /\ p \notin slipped =>
    /\ out[p].picture.text = IF page[p].dropped THEN Blank ELSE page[p].text
    /\ out[p].picture.image = base[p].image

\* A text made by the translator belongs to the source as it is now, unless
\* the edit of the source is still to reconcile it, or died before it could
\* (_reconcile_translation_after_ocr_edit, sync_existing_auto_text_object).
MachineFits == \A p \in Page :
  \/ page[p].text = Blank \/ origin[p] \in {"user", page[p].source}
  \/ \E e \in pending : e.page = p
  \/ p \in lost \/ p \in overwritten \/ page[p].dropped \/ page[p].skipped

\* The record is well formed, and what a machine wrote fits what it wrote it for.
TextsOK == TypeOK /\ MachineFits

\* An archive holds, of all pages at one instant, the pictures that are
\* current then: none is from before a change that the others are after.
ArchiveOfOneInstant ==
  [][archive' # archive =>
       \A p \in Page : IF page[p].skipped THEN archive'[p] = Original
                       ELSE /\ RenderArtifactIsCurrent(p)
                            /\ archive'[p] = out[p].picture]_vars

\* Where final approval is required, an archive that is not forced holds the
\* very pictures that were approved, and where script review is, no text other
\* than the reviewed one (apply_final_review, editorial_preflight).
OnlyApprovedDelivered ==
  [][archive' # archive /\ ~export.force =>
       \A p \in Page : page[p].skipped \/
         /\ chapter.final => archive'[p] = approvedAs[p]
         /\ chapter.script /\ ~page[p].dropped => archive'[p].text = page[p].reviewed.text]_vars

\* What is delivered is current, consistent and approved, although it is read page by page
\* without a lock (export.py:500-529, editorial_gate.py:456-515).
DeliveryOK == ArchiveOfOneInstant /\ OnlyApprovedDelivered

\* Rendering a chapter changes no text: it draws what the record says. Not so:
\* its request is built before its snapshot, and overwrites an edit in between.
EditsKept == overwritten = {}
=============================================================================
