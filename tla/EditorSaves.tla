----------------------------- MODULE EditorSaves -----------------------------
(***************************************************************************)
(* How the editor in the browser saves text objects                        *)
(* (editor-persistence.js, editor-geometry.js, editor.js) through          *)
(* /api/text_object/* of routers/editor.py, for the open page.             *)
(*                                                                         *)
(* What the user sees is currentManifest ("shown"), which an answer with a *)
(* manifest replaces as a whole; the manifest on disk is "server".  Text   *)
(* goes through a chain of flushes, one after another, each taking the     *)
(* entries of _textDirty that are there when it starts.  Places (regions)  *)
(* are sent at once, and a later move aborts the save before it: the       *)
(* browser stops listening, the server does not stop, and the manifest     *)
(* lock gives requests that are under way together no order.               *)
(*                                                                         *)
(* The text of an object is ocr_text, translation and style together,      *)
(* which are always captured and sent together.  Every edit gives a value  *)
(* of its own, the number of the edit.  A request that fails has ended on  *)
(* the server and may have stored all, some or nothing of what it carried. *)
(***************************************************************************)
EXTENDS Naturals, FiniteSets

CONSTANTS
  Object,      \* text objects of the page
  Slot,        \* bound of the model: saves of places under way
  MaxEdits,    \* bound of the model: texts typed and places moved
  MaxFailures, \* bound of the model: requests that fail
  MaxReads     \* bound of the model: answers that replace the manifest, deletions included

ASSUME SavesAssumption == {MaxEdits, MaxFailures, MaxReads} \subseteq Nat

VARIABLES
  shown,    \* text_objects of currentManifest
  server,   \* text_objects of the manifest on disk
  dirty,    \* _textDirty: the captured text, per object
  timer,    \* _textTimer runs
  chain,    \* flushes of _textPersistChain that have not started
  items,    \* what the flush under way carries, per object
  bulk,     \* it is still one update_bulk request
  broken,   \* a request of the flush under way has failed
  failed,   \* _textHasError
  gdirty,   \* geomDirty
  gtimer,   \* geomTimer runs
  gfailed,  \* geomHasError
  moves,    \* saves of places that the server or the browser is not through with
  removal,  \* deleteTextObject under way
  read,     \* a request under way whose answer replaces the manifest
  open,     \* the page is open: pagehide has not happened
  used,     \* edits, failures and reads so far
  entry,    \* history: what was last to be saved, per object
  excused   \* history: places that an abandoned save wrote last, texts that an answer took back on
            \* the screen or replaced while they were being saved, and what was cut off when the
            \* page closed

text == <<dirty, timer, chain, items, bulk, broken, failed>>
geometry == <<gdirty, gtimer, gfailed, moves>>
calls == <<removal, read>>
savesVars == <<shown, server, text, geometry, calls, open, used, entry, excused>>

Value == 0..MaxEdits
None == MaxEdits + 1
Gone == [there |-> FALSE, text |-> 0, place |-> 0]
TextObject == [there : BOOLEAN, text : Value, place : Value]
Page == [Object -> TextObject]
Item == [at : {"none", "sent", "stored"}, text : Value, stale : Value \cup {None}]
PlaceSave == [at : {"none", "sent", "stored"}, object : Object \cup {"none"}, place : Value,
              fresh : BOOLEAN, heard : BOOLEAN, last : BOOLEAN, awaited : BOOLEAN]
Removal == [at : {"none", "flushing", "sent", "done"}, object : Object \cup {"none"}, waits : Nat, page : Page]
Read == [at : {"none", "sent", "done"}, merge : BOOLEAN, target : Object \cup {"none"}, was : Value, page : Page]

NoItem == [at |-> "none", text |-> 0, stale |-> None]
NoMove == [at |-> "none", object |-> "none", place |-> 0, fresh |-> FALSE, heard |-> FALSE,
           last |-> FALSE, awaited |-> FALSE]
NoPage == [o \in Object |-> Gone]
NoRemoval == [at |-> "none", object |-> "none", waits |-> 0, page |-> NoPage]
NoRead == [at |-> "none", merge |-> FALSE, target |-> "none", was |-> 0, page |-> NoPage]

SavesTypeOK ==
  /\ shown \in Page /\ server \in Page
  /\ dirty \in [Object -> Value \cup {None}]
  /\ {timer, bulk, broken, failed} \subseteq BOOLEAN
  /\ chain \in Nat
  /\ items \in [Object -> Item]
  /\ gdirty \in [Object -> Value \cup {None}]
  /\ gtimer \in BOOLEAN /\ gfailed \in BOOLEAN
  /\ moves \in [Slot -> PlaceSave]
  /\ removal \in Removal /\ read \in Read
  /\ open \in BOOLEAN
  /\ used \in [edits : 0..MaxEdits, failures : 0..MaxFailures, reads : 0..MaxReads]
  /\ entry \in [Object -> [text : Value, place : Value]]
  /\ excused \subseteq Object \X {"text", "place"}

SavesInit ==
  /\ shown = [o \in Object |-> [there |-> TRUE, text |-> 0, place |-> 0]]
  /\ server = shown
  /\ dirty = [o \in Object |-> None] /\ gdirty = dirty
  /\ timer = FALSE /\ gtimer = FALSE
  /\ chain = 0 /\ bulk = FALSE /\ broken = FALSE
  /\ items = [o \in Object |-> NoItem]
  /\ failed = FALSE /\ gfailed = FALSE
  /\ moves = [m \in Slot |-> NoMove]
  /\ removal = NoRemoval /\ read = NoRead
  /\ open = TRUE
  /\ used = [edits |-> 0, failures |-> 0, reads |-> 0]
  /\ entry = [o \in Object |-> [text |-> 0, place |-> 0]]
  /\ excused = {}
-----------------------------------------------------------------------------
(* Helpers. *)

DirtyTexts == {o \in Object : dirty[o] # None}
DirtyPlaces == {o \in Object : gdirty[o] # None}
Carried == {o \in Object : items[o].at # "none"}
Heard == {m \in Slot : moves[m].at # "none" /\ moves[m].heard}
Free == {m \in Slot : moves[m].at = "none"}

\* refreshSaveStatus.
Status ==
  IF failed \/ gfailed THEN "error"
  ELSE IF Carried # {} \/ Heard # {} THEN "saving"
  ELSE IF DirtyTexts # {} \/ DirtyPlaces # {} THEN "dirty"
  ELSE "saved"

Failure == used.failures < MaxFailures /\ used' = [used EXCEPT !.failures = @ + 1]
NoFailure == UNCHANGED used

\* geomGeneration += 1: no save under way may clear geomDirty any more.
Outdated(saves) == [m \in Slot |-> [saves[m] EXCEPT !.fresh = FALSE]]

\* The abort of geomController: the browser does not listen to the last batch any longer.
Unheard(save) ==
  IF save.at = "stored" THEN NoMove
  ELSE [save EXCEPT !.fresh = FALSE, !.heard = FALSE, !.last = FALSE, !.awaited = FALSE]

Aborted(saves) == [m \in Slot |-> IF saves[m].last THEN Unheard(saves[m]) ELSE saves[m]]

\* A flush that carries an object of the manifest which is replaced keeps that object.
Replaced(page) ==
  /\ shown' = page
  /\ items' = [o \in Object |->
       IF items[o].at # "none" /\ items[o].stale = None /\ shown[o].there
       THEN [items[o] EXCEPT !.stale = shown[o].text] ELSE items[o]]
  /\ excused' = excused \cup {o \in Object : o \in Carried \/ page[o].text # entry[o].text} \X {"text"}

-----------------------------------------------------------------------------
(* The user's edits. *)

\* scheduleTextObjectPersist after an input.
Type(o) ==
  LET v == used.edits + 1
  IN /\ open /\ used.edits < MaxEdits /\ shown[o].there
     /\ used' = [used EXCEPT !.edits = v]
     /\ shown' = [shown EXCEPT ![o].text = v]
     /\ dirty' = [dirty EXCEPT ![o] = v]
     /\ entry' = [entry EXCEPT ![o].text = v]
     /\ failed' = FALSE /\ timer' = TRUE
     /\ UNCHANGED <<server, chain, items, bulk, broken, geometry, calls, open, excused>>

\* scheduleGeomPersist at the end of a drag.
Move(o) ==
  LET v == used.edits + 1
  IN /\ open /\ used.edits < MaxEdits /\ shown[o].there
     /\ used' = [used EXCEPT !.edits = v]
     /\ shown' = [shown EXCEPT ![o].place = v]
     /\ gdirty' = [gdirty EXCEPT ![o] = v]
     /\ entry' = [entry EXCEPT ![o].place = v]
     /\ moves' = Outdated(Aborted(moves))
     /\ gfailed' = FALSE /\ gtimer' = TRUE
     /\ UNCHANGED <<server, text, calls, open, excused>>
-----------------------------------------------------------------------------
(* Saving text. *)

\* Mutant of TextTimer: the timer asks for no flush while one is under way.
TextTimerSkips ==
  /\ open /\ timer
  /\ timer' = FALSE /\ chain' = (IF Carried = {} THEN chain + 1 ELSE chain)
  /\ UNCHANGED <<shown, server, dirty, items, bulk, broken, failed, geometry, calls, open, used, entry, excused>>

TextTimer ==
  /\ open /\ timer
  /\ timer' = FALSE /\ chain' = chain + 1
  /\ UNCHANGED <<shown, server, dirty, items, bulk, broken, failed, geometry, calls, open, used, entry, excused>>

\* The end of a flush, for those who wait for it: a deletion goes on, or is given up.
FlushOver(ok) ==
  removal' = IF removal.at # "flushing" \/ removal.waits = 0 THEN removal
             ELSE IF removal.waits = 1 /\ ~ok THEN NoRemoval
             ELSE [removal EXCEPT !.waits = @ - 1]

\* _flushTextObjectPersistNow takes all there is; with nothing there it is over at once.  One
\* object is sent on its own, unless it is not in the manifest any more.
StartFlush ==
  /\ open /\ chain > 0 /\ Carried = {}
  /\ chain' = chain - 1 /\ timer' = FALSE
  /\ LET alone == Cardinality(DirtyTexts) = 1
         sent == {o \in DirtyTexts : alone => shown[o].there}
     IN /\ items' = [o \in Object |->
             IF o \in sent THEN [at |-> "sent", text |-> dirty[o], stale |-> None] ELSE NoItem]
        /\ bulk' = (~alone /\ DirtyTexts # {})
        /\ broken' = FALSE
        /\ IF sent = {} THEN FlushOver(TRUE) ELSE UNCHANGED removal
  /\ dirty' = [o \in Object |-> None]
  /\ UNCHANGED <<shown, server, failed, geometry, read, open, used, entry, excused>>

\* update_text_object, for one object: of a request of its own or of one of a bulk.
StoreText(o) ==
  /\ items[o].at = "sent"
  /\ server[o].there
  /\ server' = [server EXCEPT ![o].text = items[o].text]
  /\ items' = [items EXCEPT ![o].at = "stored"]
  /\ UNCHANGED <<shown, dirty, timer, chain, bulk, broken, failed, geometry, calls, open, used, entry, excused>>

BulkSaved ==
  /\ open /\ bulk /\ Carried # {}
  /\ \A o \in Carried : items[o].at = "stored"
  /\ items' = [o \in Object |-> NoItem]
  /\ bulk' = FALSE
  /\ FlushOver(TRUE)
  /\ UNCHANGED <<shown, server, dirty, timer, chain, broken, failed, geometry, read, open, used, entry, excused>>

\* The bulk fails: because of the network, a text the server refuses, or an object that is gone,
\* and what is still in the manifest is sent again on its own.
BulkFails ==
  /\ open /\ bulk /\ Carried # {}
  /\ \/ Failure
     \/ (\E o \in Carried : items[o].at = "sent" /\ ~server[o].there) /\ NoFailure
  /\ LET again == {o \in Carried : shown[o].there}
     IN /\ items' = [o \in Object |->
             IF o \in again THEN [items[o] EXCEPT !.at = "sent", !.stale = None] ELSE NoItem]
        /\ IF again = {} THEN FlushOver(TRUE) ELSE UNCHANGED removal
  /\ bulk' = FALSE
  /\ UNCHANGED <<shown, server, dirty, timer, chain, broken, failed, geometry, read, open, entry, excused>>

\* The answer for one object; the last one ends the flush, which fails if one has failed.
TextSaved(o) ==
  /\ open /\ ~bulk /\ items[o].at = "stored"
  /\ items' = [items EXCEPT ![o] = NoItem]
  /\ IF Carried = {o} THEN FlushOver(~broken) ELSE UNCHANGED removal
  /\ UNCHANGED <<shown, server, dirty, timer, chain, bulk, broken, failed, geometry, read, open, used, entry, excused>>

\* Mutant of TextFails: what could not be saved is not put back.
TextFailsForgets(o) ==
  /\ open /\ ~bulk /\ items[o].at # "none"
  /\ Failure \/ (items[o].at = "sent" /\ ~server[o].there /\ NoFailure)
  /\ failed' = TRUE /\ broken' = TRUE
  /\ items' = [items EXCEPT ![o] = NoItem]
  /\ IF Carried = {o} THEN FlushOver(FALSE) ELSE UNCHANGED removal
  /\ UNCHANGED <<shown, server, dirty, timer, chain, bulk, geometry, read, open, entry, excused>>

\* A save fails: the object that was sent is captured again, as it is by now.
TextFails(o) ==
  /\ open /\ ~bulk /\ items[o].at # "none"
  /\ \/ Failure
     \/ items[o].at = "sent" /\ ~server[o].there /\ NoFailure
  /\ LET now == IF items[o].stale = None THEN shown[o].text ELSE items[o].stale
     IN dirty' = [dirty EXCEPT ![o] = now]
  /\ failed' = TRUE /\ broken' = TRUE
  /\ items' = [items EXCEPT ![o] = NoItem]
  /\ IF Carried = {o} THEN FlushOver(FALSE) ELSE UNCHANGED removal
  /\ UNCHANGED <<shown, server, timer, chain, bulk, geometry, read, open, entry, excused>>
-----------------------------------------------------------------------------
(* Saving places. *)

\* A batch of one request per object.  A batch that is still under way goes on.
SendMoves(heard, awaited) ==
  \E slot \in [DirtyPlaces -> Free] :
    /\ \A o, p \in DirtyPlaces : o # p => slot[o] # slot[p]
    /\ moves' = [m \in Slot |->
         IF \E o \in DirtyPlaces : slot[o] = m
         THEN LET o == CHOOSE o \in DirtyPlaces : slot[o] = m
              IN [at |-> "sent", object |-> o, place |-> gdirty[o], fresh |-> heard,
                  heard |-> heard, last |-> heard, awaited |-> awaited]
         ELSE IF ~heard THEN Unheard(moves[m])
         ELSE IF DirtyPlaces = {} THEN moves[m]
         ELSE [moves[m] EXCEPT !.fresh = FALSE, !.last = FALSE]]

\* flushGeomPersist: the batch becomes the one that the next move aborts.
GeomTimer ==
  /\ open /\ gtimer
  /\ gtimer' = FALSE
  /\ SendMoves(TRUE, FALSE)
  /\ UNCHANGED <<shown, server, text, gdirty, gfailed, calls, open, used, entry, excused>>

\* update_text_object with a region.  An abandoned save may be the last one to write.
StorePlace(m) ==
  LET o == moves[m].object
  IN /\ moves[m].at = "sent"
     /\ server[o].there
     /\ server' = [server EXCEPT ![o].place = moves[m].place]
     /\ moves' = [moves EXCEPT ![m] = IF moves[m].heard THEN [@ EXCEPT !.at = "stored"] ELSE NoMove]
     /\ excused' = IF moves[m].place # entry[o].place THEN excused \cup {<<o, "place">>}
                   ELSE excused \ {<<o, "place">>}
     /\ UNCHANGED <<shown, text, gdirty, gtimer, gfailed, calls, open, used, entry>>

PlaceSaved(m) ==
  /\ open /\ moves[m].at = "stored"
  /\ gdirty' = IF moves[m].fresh THEN [gdirty EXCEPT ![moves[m].object] = None] ELSE gdirty
  /\ moves' = [moves EXCEPT ![m] = NoMove]
  /\ UNCHANGED <<shown, server, text, gtimer, gfailed, calls, open, used, entry, excused>>

\* A save of a place fails, for the reasons a text does; what waits for it fails with it.
PlaceFails(m) ==
  /\ moves[m].at # "none"
  /\ \/ Failure
     \/ moves[m].at = "sent" /\ ~server[moves[m].object].there /\ NoFailure
  /\ gfailed' = IF open /\ moves[m].heard THEN TRUE ELSE gfailed
  /\ moves' = [moves EXCEPT ![m] = NoMove]
  /\ removal' = IF moves[m].awaited THEN NoRemoval ELSE removal
  /\ excused' = IF open THEN excused ELSE excused \cup {<<moves[m].object, "place">>}
  /\ UNCHANGED <<shown, server, text, gdirty, gtimer, read, open, entry>>
-----------------------------------------------------------------------------
(* Answers that replace the manifest. *)

\* deleteTextObject waits until everything is flushed, ...
Delete(o) ==
  /\ open /\ used.reads < MaxReads /\ removal = NoRemoval /\ shown[o].there
  /\ used' = [used EXCEPT !.reads = @ + 1]
  /\ chain' = chain + 1
  /\ gtimer' = FALSE
  /\ SendMoves(TRUE, TRUE)
  /\ removal' = [NoRemoval EXCEPT !.at = "flushing", !.object = o,
                 !.waits = chain + 1 + (IF Carried = {} THEN 0 ELSE 1)]
  /\ UNCHANGED <<shown, server, dirty, timer, items, bulk, broken, failed, gdirty, gfailed, read, open, entry, excused>>

\* ... asks the server, ...
SendDelete ==
  /\ open /\ removal.at = "flushing" /\ removal.waits = 0
  /\ \A m \in Slot : ~moves[m].awaited
  /\ removal' = [removal EXCEPT !.at = "sent"]
  /\ UNCHANGED <<shown, server, text, geometry, read, open, used, entry, excused>>

StoreDelete ==
  /\ removal.at = "sent"
  /\ server' = [server EXCEPT ![removal.object] = Gone]
  /\ removal' = [removal EXCEPT !.at = "done", !.page = server']
  /\ UNCHANGED <<shown, text, geometry, read, open, used, entry, excused>>

\* applyManifestResponse: the objects of the answer, with what is typed in the panel of the
\* target and what waits to be saved of the others put back.
Merged(page, target, typed) ==
  [o \in Object |->
     IF ~page[o].there THEN Gone
     ELSE [page[o] EXCEPT
             !.text = IF o = target THEN typed ELSE IF dirty'[o] # None THEN dirty'[o] ELSE @,
             !.place = IF gdirty'[o] # None THEN gdirty'[o] ELSE @]]

\* ... and drops what waited to be saved of the object before it shows the answer.
Deleted ==
  LET o == removal.object
  IN /\ open /\ removal.at = "done"
     /\ removal' = NoRemoval
     /\ dirty' = [dirty EXCEPT ![o] = None]
     /\ gdirty' = [gdirty EXCEPT ![o] = None]
     /\ moves' = Outdated(moves)
     /\ Replaced(Merged(removal.page, "none", 0))
     /\ UNCHANGED <<server, timer, chain, bulk, broken, failed, gtimer, gfailed, read, open, used, entry>>

\* A request whose answer is the manifest: merged into what is typed (a creation, which may find
\* edits made since its flush; with a target, the reading of a box) or put in place of
\* everything (ensureAutoTextObjects, refreshChapterManifest).
Ask(merge, target) ==
  /\ open /\ used.reads < MaxReads /\ read = NoRead
  /\ target # "none" => merge /\ shown[target].there
  /\ used' = [used EXCEPT !.reads = @ + 1]
  /\ read' = [NoRead EXCEPT !.at = "sent", !.merge = merge, !.target = target,
              !.was = IF target = "none" THEN 0 ELSE shown[target].text]
  /\ UNCHANGED <<shown, server, text, geometry, removal, open, entry, excused>>

ReadManifest ==
  /\ read.at = "sent"
  /\ read' = [read EXCEPT !.at = "done", !.page = server]
  /\ UNCHANGED <<shown, server, text, geometry, removal, open, used, entry, excused>>

\* With merge, a target that is in the panel keeps what was typed there since the request.  A
\* target that has been deleted makes the answer be left aside.
Answered(inPanel) ==
  LET o == read.target
      typed == IF inPanel /\ shown[o].text # read.was THEN shown[o].text ELSE read.page[o].text
  IN /\ open /\ read.at = "done"
     /\ inPanel => o # "none"
     /\ read' = NoRead
     /\ UNCHANGED <<dirty, gdirty>>
     /\ IF o = "none"
        THEN Replaced(IF read.merge THEN Merged(read.page, o, 0) ELSE read.page)
        ELSE IF shown[o].there THEN Replaced(Merged(read.page, o, typed))
        ELSE UNCHANGED <<shown, items, excused>>
     /\ UNCHANGED <<server, timer, chain, bulk, broken, failed, gtimer, gfailed, moves, removal, open,
                    used, entry>>
-----------------------------------------------------------------------------
(* The page closes. *)

\* pagehide sends what is dirty with keepalive, in one bulk.  Requests that are under way are cut
\* off: of the texts, no one is sent again; the places are still dirty.
Close ==
  /\ open
  /\ open' = FALSE
  /\ items' = [o \in Object |->
       IF dirty[o] # None THEN [at |-> "sent", text |-> dirty[o], stale |-> None] ELSE NoItem]
  /\ SendMoves(FALSE, FALSE)
  /\ excused' = excused \cup Carried \X {"text"}
  /\ UNCHANGED <<shown, server, dirty, timer, chain, bulk, broken, failed, gdirty, gtimer, gfailed,
                 calls, used, entry>>

ClosingEnds ==
  /\ ~open /\ Carried # {}
  /\ \A o \in Carried : items[o].at = "stored"
  /\ items' = [o \in Object |-> NoItem]
  /\ UNCHANGED <<shown, server, dirty, timer, chain, bulk, broken, failed, geometry, calls, open, used,
                 entry, excused>>

\* It is lost, or meets an object that is gone, and nobody is there to send it again.
ClosingFails ==
  /\ ~open /\ Carried # {}
  /\ Failure \/ ((\E o \in Carried : ~server[o].there) /\ NoFailure)
  /\ items' = [o \in Object |-> NoItem]
  /\ excused' = excused \cup Carried \X {"text"} \cup {moves[m].object : m \in Slot \ Free} \X {"place"}
  /\ UNCHANGED <<shown, server, dirty, timer, chain, bulk, broken, failed, geometry, calls, open, entry>>
-----------------------------------------------------------------------------
TextStep(o) == StoreText(o) \/ TextSaved(o) \/ TextFails(o)
PlaceStep(m) == StorePlace(m) \/ PlaceSaved(m) \/ PlaceFails(m)

SavesNext ==
  \/ \E o \in Object : Type(o) \/ Move(o) \/ Delete(o) \/ TextStep(o)
  \/ TextTimer \/ StartFlush \/ BulkSaved \/ BulkFails
  \/ GeomTimer \/ \E m \in Slot : PlaceStep(m)
  \/ SendDelete \/ StoreDelete \/ Deleted
  \/ \E merge \in BOOLEAN, target \in Object \cup {"none"} : Ask(merge, target)
  \/ ReadManifest \/ \E inPanel \in BOOLEAN : Answered(inPanel)
  \/ Close \/ ClosingEnds \/ ClosingFails

\* Timers of the browser run out and requests are answered; nothing makes the user go on.
Fairness ==
  /\ \A o \in Object : WF_savesVars(TextStep(o))
  /\ \A m \in Slot : WF_savesVars(PlaceStep(m))
  /\ WF_savesVars(TextTimer) /\ WF_savesVars(StartFlush) /\ WF_savesVars(BulkSaved \/ BulkFails) /\ WF_savesVars(GeomTimer)

SavesSpec == SavesInit /\ [][SavesNext]_savesVars /\ Fairness
-----------------------------------------------------------------------------
(* Properties. *)

TextStored(o) == server[o].there => server[o].text = entry[o].text
PlaceStored(o) == server[o].there => server[o].place = entry[o].place

\* The status line says "Tat ca thay doi da duoc luu" (all changes have been saved,
\* editor-persistence.js:25) only when they are: after flushes that overlap edits, a bulk that
\* fails in the middle and is sent again one by one, aborted saves and deletions, what was last
\* to be saved of each object is on the server.  And so it is when the page was closed and
\* what it sent on leaving has arrived.  Excused are a place an abandoned save has written
\* later than its successor, and texts that were being sent when the page closed.
EditsStored ==
  (IF open THEN Status = "saved" ELSE Carried = {} /\ Free = Slot)
    => \A o \in Object :
         /\ <<o, "text">> \in excused \/ TextStored(o)
         /\ <<o, "place">> \in excused \/ PlaceStored(o)

SavesOK == SavesTypeOK /\ EditsStored

\* An edit that waits to be saved is, unless the editor reports an error, the page closes, the
\* object is deleted or it is excused: no timer that is cleared, no abort and no generation that
\* moves on leaves it behind (editor-persistence.js:84-85,143-144; editor-geometry.js:139-154).
EditsArrive ==
  \A o \in Object :
    /\ dirty[o] # None
         ~> (~open \/ Status = "error" \/ TextStored(o) \/ <<o, "text">> \in excused)
    /\ gdirty[o] # None
         ~> (~open \/ Status = "error" \/ PlaceStored(o) \/ <<o, "place">> \in excused)

\* "Tat ca thay doi da duoc luu" (editor-persistence.js:25): with nothing left to save, the texts
\* on the screen are those on the server.  They are not when an answer that is older than a save
\* under way replaces the manifest: what was typed is taken back on the screen, and the next
\* edit of the object captures the old fields and writes them over it.
SeenIsStored ==
  open /\ Status = "saved" => \A o \in Object : server[o].there => shown[o].text = server[o].text
=============================================================================
