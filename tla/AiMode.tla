------------------------------- MODULE AiMode -------------------------------
(***************************************************************************)
(* A.I mode (ai_mode/job.py, routers/ai_mode.py): one job at a time takes  *)
(* a chapter from its address to a lettered chapter.  Several requests may *)
(* race to start it, each with a job reserved at the gateway.  The slices  *)
(* of the translate stage run a few at a time and share a budget; what the *)
(* model skips is asked for again, what never gets a translation gets its  *)
(* original pixels back, and what is left blank is sorted before rendering.*)
(* Meanwhile the user may edit the chapter or cancel the job.              *)
(*                                                                         *)
(* The clean and review stages are ChapterJobs; here they pass or fail.    *)
(* What scan, glossary and review cost is a free choice; nobody looks at   *)
(* the budget once polish begins, and what polish costs is not counted.    *)
(* Which slice owns a text that crosses a cut, and how its copy is made,   *)
(* is Seams; here an owner is given and its copies take its text.  Joined  *)
(* lines and images are left out: an object is drawn from its pixels or    *)
(* from its text.  The user clears no text and deletes no object.          *)
(***************************************************************************)
EXTENDS Integers, Sequences, FiniteSets, FiniteSetsExt

CONSTANTS
  Caller,       \* calls of start_ai_mode
  Cloud,         \* those that reserve a job at the gateway
  Pages,         \* the slices are 1..Pages
  Object, PageOf,
  None,
  Concurrency,   \* TRANSLATE_CONCURRENCY
  Batch,         \* RETRY_BATCH
  Rounds,        \* RETRY_ROUNDS
  Budget,        \* budget_usd
  MaxCost,       \* what a call costs at most; bound of the model
  Earlier,       \* what the calls before the translate stage may cost together; bound of the model
  Setups         \* of a run: the lines outside every box until the translator reports them,
                 \* which object owns the text of a copy across a cut, and, bound of the
                 \* model, how often each of Ops may be done

Ops == {"request", "cancel", "edit", "escape", "overlap", "unpriced"}

ASSUME AiModeAssumption ==
  /\ Cloud \subseteq Caller /\ None \notin Caller
  /\ Pages \in Nat /\ PageOf \in [Object -> 1..Pages]
  /\ {Concurrency, Batch, Rounds, MaxCost} \subseteq Nat \ {0}
  /\ Budget \in Nat \ {0} /\ Earlier \subseteq Nat /\ None \notin Object
  /\ Setups \subseteq [hidden : SUBSET Object, owner : [Object -> Object \cup {None}], left : [Ops -> Nat]]
  /\ \A s \in Setups, o \in Object : s.owner[o] # None => s.owner[s.owner[o]] = None

VARIABLES
  request, reservation, status,   \* of each request: its handler, its gateway job, its A.I mode job
  worker,                         \* the request whose chapter is modelled
  stage, cancelled, outOfBudget,
  early, cost, priced,            \* spent before the translate stage and in it; whether all of it is known
  slice,                          \* the translation of each slice
  skipped, owner,                 \* slices the scan skips; owners of the copies
  present, text, preserved, attempted, disposition, dropped,  \* of each object
  polishing, pen,                 \* the texts polish is about to rewrite; the lettering of a slice
  left,                           \* what is left of the bounds
  blanked,                        \* objects the model left blank on purpose
  passed,                         \* objects edited while the first call of their slice read them
  excused                         \* slices dropped for the budget, or whose restore failed

requests == <<request, reservation, status, worker>>
run == <<stage, cancelled, outOfBudget>>
money == <<early, cost, priced>>
cuts == <<skipped, owner>>
marks == <<attempted, disposition, dropped>>
objects == <<present, text, preserved, marks>>
hands == <<polishing, pen>>
seen == <<blanked, passed, excused>>
aiVars == <<requests, run, money, slice, cuts, objects, hands, left, seen>>

Page == 1..Pages
On(p) == {o \in Object : PageOf[o] = p}
\* render sorts the blanks, then letters slice by slice: two steps here
Stages == <<"download", "scan", "clean", "review", "translate", "polish", "render", "letter", "finish">>
Outcomes == {"completed", "cancelled", "failed"}
After(s) == Stages[(CHOOSE i \in DOMAIN Stages : Stages[i] = s) + 1]

\* a slice: where it is, the objects asked for, those edited since, whether the slice changed
\* since, what is still to do, and the cost of a call that is not added up yet
NoSlice == [at |-> "off", first |-> TRUE, asked |-> {}, stale |-> {}, changed |-> FALSE, art |-> {}, fresh |-> {},
            todo |-> <<>>, blank |-> {}, fruitless |-> 0, owed |-> 0]

SliceRecord ==
  [at : {"off", "queued", "asking", "art", "box", "retry", "restore", "done"}, first : BOOLEAN,
   asked : SUBSET Object, stale : SUBSET Object, changed : BOOLEAN, art : SUBSET Object, fresh : SUBSET Object,
   todo : Seq(SUBSET Object), blank : SUBSET Object, fruitless : 0..Rounds, owed : 0..MaxCost]

\* lettering: the next slice, whether its texts were read, which they are, and which were typed over since
NoPen == [next |-> 1, out |-> FALSE, sent |-> {}, old |-> {}]

AiInit ==
  /\ request = [r \in Caller |-> "idle"] /\ reservation = [r \in Caller |-> "none"]
  /\ status = [r \in Caller |-> "none"] /\ worker = None
  /\ stage = "off" /\ cancelled = FALSE /\ outOfBudget = FALSE
  /\ early = 0 /\ cost = 0 /\ priced = TRUE
  /\ slice = [p \in Page |-> NoSlice] /\ skipped = {}
  /\ (\E s \in Setups : present = Object \ s.hidden /\ owner = s.owner /\ left = s.left)
  /\ text = [o \in Object |-> "none"]
  /\ preserved = {} /\ attempted = {} /\ disposition = [o \in Object |-> "none"]
  /\ dropped = {} /\ polishing = {} /\ pen = NoPen /\ blanked = {} /\ passed = {} /\ excused = {}

Used(op) == left[op] > 0 /\ left' = [left EXCEPT ![op] = @ - 1]

-----------------------------------------------------------------------------
(* Starting and ending jobs. *)

Active == {r \in Caller : status[r] = "running"}
chapter == <<run, money, slice, cuts, objects, hands, left, seen>>

\* the first job to start is the one whose chapter is modelled
Begins(r) ==
  /\ request' = [request EXCEPT ![r] = "running"]
  /\ status' = [status EXCEPT ![r] = "running"]
  /\ worker' = IF worker = None THEN r ELSE worker
  /\ stage' = IF worker = None THEN "download" ELSE stage

\* without a reservation nothing is awaited between the check and the start
StartLocal(r) ==
  /\ r \notin Cloud /\ request[r] = "idle" /\ Active = {} /\ Used("request") /\ Begins(r)
  /\ UNCHANGED <<reservation, cancelled, outOfBudget, money, slice, cuts, objects, hands, seen>>

Ask(r) ==
  /\ r \in Cloud /\ request[r] = "idle" /\ Active = {} /\ Used("request")
  /\ request' = [request EXCEPT ![r] = "reserving"]
  /\ UNCHANGED <<reservation, status, worker, run, money, slice, cuts, objects, hands, seen>>

Reserve(r) ==
  /\ request[r] = "reserving"
  /\ \/ /\ reservation' = [reservation EXCEPT ![r] = "open"]
        /\ request' = [request EXCEPT ![r] = "starting"]
     \/ request' = [request EXCEPT ![r] = "done"] /\ UNCHANGED reservation
  /\ UNCHANGED <<status, worker, chapter>>

\* Mutant: whether a job is active is only looked at before the reservation
StartUnchecked(r) ==
  /\ request[r] = "starting" /\ Begins(r)
  /\ UNCHANGED <<reservation, cancelled, outOfBudget, money, slice, cuts, objects, hands, left, seen>>

\* another request may have started its job during the reservation
Start(r) ==
  /\ request[r] = "starting"
  /\ IF Active = {} THEN Begins(r)
     ELSE request' = [request EXCEPT ![r] = "refused"] /\ UNCHANGED <<status, worker, stage>>
  /\ UNCHANGED <<reservation, cancelled, outOfBudget, money, slice, cuts, objects, hands, left, seen>>

\* the gateway is told how the job ended, or the call is lost and it expires the job
Settle(r) ==
  /\ \/ request[r] = "refused" /\ \E answer \in {"cancelled", "lost"} :
          reservation' = [reservation EXCEPT ![r] = answer]
     \/ request[r] = "ending" /\ \E answer \in {status[r], "lost"} :
          reservation' = [reservation EXCEPT ![r] = IF r \in Cloud THEN answer ELSE "none"]
  /\ request' = [request EXCEPT ![r] = "done"]
  /\ UNCHANGED <<status, worker, chapter>>

Ends(r, outcome) ==
  /\ status' = [status EXCEPT ![r] = outcome]
  /\ request' = [request EXCEPT ![r] = "ending"]
  /\ UNCHANGED <<reservation, worker>>

\* the job of another chapter
OtherEnds(r) ==
  /\ status[r] = "running" /\ r # worker
  /\ \E outcome \in Outcomes : Ends(r, outcome)
  /\ UNCHANGED chapter

Running == worker # None /\ status[worker] = "running"

Cancel ==
  /\ Running /\ ~cancelled /\ Used("cancel") /\ cancelled' = TRUE
  /\ UNCHANGED <<requests, stage, outOfBudget, money, slice, cuts, objects, hands, seen>>

-----------------------------------------------------------------------------
(* Stages. *)

\* the stage is done; a cancelled job does not begin the next
Advance ==
  IF cancelled /\ stage # "finish"
  THEN Ends(worker, "cancelled") /\ stage' = "over"
  ELSE IF stage = "finish"
  THEN Ends(worker, "completed") /\ stage' = "over"
  ELSE stage' = After(stage) /\ UNCHANGED requests

Fails == Ends(worker, "failed") /\ stage' = "over"

\* finish only writes the report
PlainStage ==
  /\ Running /\ stage \in {"download", "clean", "finish"}
  /\ Advance \/ Fails
  /\ UNCHANGED <<cancelled, outOfBudget, money, slice, cuts, objects, hands, left, seen>>

\* costs are added up; one that is not known ends the adding up, and the budget with it
Pays(e, c) ==
  \/ /\ early' = (IF priced THEN early + e ELSE early) /\ cost' = (IF priced THEN cost + c ELSE cost)
     /\ UNCHANGED <<priced, left>>
  \/ Used("unpriced") /\ priced' = FALSE /\ UNCHANGED <<early, cost>>

\* credits and slices without text are skipped; no call looks at the budget
Scan ==
  /\ Running /\ stage = "scan"
  /\ \/ skipped' \in SUBSET Page /\ Advance
     \/ skipped' = skipped /\ Fails
  /\ \E e \in Earlier : Pays(e, 0)
  /\ UNCHANGED <<cancelled, outOfBudget, slice, owner, objects, hands, seen>>

\* the slices are lined up as the review ends; its sheets look at the budget, the batches of
\* the glossary beside it do not
Review ==
  /\ Running /\ stage = "review"
  /\ Advance \/ Fails
  /\ \E e \in Earlier : Pays(e, 0)
  /\ slice' = IF stage' = "translate"
              THEN [p \in Page |-> [NoSlice EXCEPT !.at = IF p \in skipped THEN "done" ELSE "queued"]]
              ELSE slice
  /\ UNCHANGED <<cancelled, outOfBudget, cuts, objects, hands, seen>>

-----------------------------------------------------------------------------
(* The translation of one slice. *)

InGate(p) == slice[p].at \notin {"off", "queued", "done"}
HasBudget == priced => early + cost < Budget

\* texts across a cut that the slice on the other side translates
Copies == {o \in present : owner[o] \in present /\ PageOf[owner[o]] \notin skipped}

Untranslated(p, only, blank) ==
  {o \in (On(p) \cap present \cap only) \ (blank \cup preserved \cup Copies \cup dropped) : text[o] = "none"}
translating == <<requests, run, cuts, hands>>

Asks(p, batch) == [slice[p] EXCEPT !.at = "asking", !.asked = batch, !.stale = {}, !.changed = FALSE]

\* slices are admitted in reading order
Admit(p) ==
  /\ slice[p].at = "queued" /\ \A q \in Page : q < p => slice[q].at # "queued"
  /\ Cardinality({q \in Page : InGate(q)}) < Concurrency
  /\ IF cancelled \/ outOfBudget \/ ~HasBudget
     THEN /\ slice' = [slice EXCEPT ![p] = [NoSlice EXCEPT !.at = "done"]]
          /\ outOfBudget' = (outOfBudget \/ ~cancelled) /\ excused' = excused \cup {p}
     ELSE /\ slice' = [slice EXCEPT ![p] = Asks(p, Untranslated(p, Object, {}))]
          /\ UNCHANGED <<outOfBudget, excused>>
  /\ UNCHANGED <<requests, stage, cancelled, money, cuts, objects, hands, left, blanked, passed>>

\* Mutant: a retry that fails does not count as fruitless
CallFailsUncounted(p) ==
  /\ slice[p].at = "asking"
  /\ slice' = [slice EXCEPT ![p] =
       IF slice[p].first
       THEN [slice[p] EXCEPT !.at = "retry", !.first = FALSE, !.asked = {}, !.stale = {}, !.todo = <<On(p)>>]
       ELSE [slice[p] EXCEPT !.at = "retry", !.asked = {}, !.stale = {}]]
  /\ UNCHANGED <<translating, money, objects, left, seen>>

Unanswered(p) ==
  IF slice[p].first
  THEN [slice[p] EXCEPT !.at = "retry", !.first = FALSE, !.asked = {}, !.stale = {}, !.todo = <<On(p)>>]
  ELSE [slice[p] EXCEPT !.at = "retry", !.asked = {}, !.stale = {}, !.fruitless = @ + 1]

\* an error, or a slice that changed meanwhile: the job does not learn what the call cost
CallFails(p) ==
  /\ slice[p].at = "asking"
  /\ slice' = [slice EXCEPT ![p] = Unanswered(p)]
  /\ UNCHANGED <<translating, money, objects, left, seen>>

\* Mutant: what was asked for is not looked at again
ValidUnchecked(p) == slice[p].asked

\* the objects of a call that nobody has edited, translated or preserved meanwhile
Valid(p) == {o \in slice[p].asked \ slice[p].stale : text[o] = "none" /\ o \notin preserved}

\* those the answer leaves out are asked for again, stale or not
Missing(p, answer) == {o \in slice[p].asked : answer[o] = "missing"}

\* Mutant: an object the answer leaves out counts as left blank
LeftBlankOrOut(p, answer) == {o \in Valid(p) : answer[o] # "text"}

LeftBlank(p, answer) == {o \in Valid(p) : answer[o] \in {"blank", "art"}}

\* the slice with an answer that cost c; the cost of the first call is counted later
Answered(p, answer, c, fresh) ==
  LET first == slice[p].first
      missing == Missing(p, answer)
  IN [slice[p] EXCEPT
        !.at = "art", !.stale = {}, !.art = {o \in Valid(p) : answer[o] = "art"}, !.fresh = fresh,
        !.owed = IF first THEN c ELSE 0,
        !.todo = IF first /\ missing # {} THEN <<missing>> ELSE @,
        !.blank = IF first THEN {} ELSE @ \cup LeftBlank(p, answer)]

\* the answer is committed; attempts are saved only with a translation beside them
CommitAnswer(p) ==
  /\ slice[p].at = "asking" /\ ~slice[p].changed
  /\ \E answer \in [slice[p].asked -> {"text", "blank", "art", "missing"}], c \in 0..MaxCost,
        fresh \in SUBSET (On(p) \ present) :
       LET first == slice[p].first
           done == {o \in Valid(p) : answer[o] = "text"}
       IN
       /\ slice[p].asked = {} <=> c = 0
       /\ slice[p].asked = {} \/ ~first => fresh = {}
       /\ text' = [o \in Object |-> IF o \in done THEN "ai" ELSE text[o]]
       /\ attempted' = IF done = {} THEN attempted ELSE attempted \cup LeftBlank(p, answer)
       /\ blanked' = blanked \cup {o \in Valid(p) : answer[o] \in {"blank", "art"}}
       /\ passed' = IF first THEN passed \cup (slice[p].stale \ Missing(p, answer)) ELSE passed
       /\ IF first THEN UNCHANGED <<money, left>> ELSE Pays(0, c)
       /\ slice' = [slice EXCEPT ![p] = Answered(p, answer, c, fresh)]
  /\ UNCHANGED <<translating, present, preserved, disposition, dropped, excused>>

AtRetry(todo) == IF todo = <<>> THEN "done" ELSE "retry"

\* the slice after its drawn sounds; a retry is fruitless when it got nowhere with the batch
Judged(p) ==
  IF slice[p].first
  THEN [slice[p] EXCEPT
          !.at = IF slice[p].fresh # {} THEN "box" ELSE AtRetry(slice[p].todo),
          !.first = FALSE, !.asked = {}, !.art = {}, !.owed = 0]
  ELSE [slice[p] EXCEPT
          !.at = "retry", !.asked = {}, !.art = {},
          !.fruitless = IF slice[p].asked \subseteq Untranslated(p, Head(slice[p].todo), slice[p].blank)
                        THEN @ + 1 ELSE @]

\* drawn sounds get their pixels back; then the cost is counted, or the batch is judged
KeepArt(p) ==
  /\ slice[p].at = "art"
  /\ preserved' \in {preserved, preserved \cup slice[p].art}
  /\ slice' = [slice EXCEPT ![p] = Judged(p)]
  /\ IF slice[p].first /\ slice[p].asked # {} THEN Pays(0, slice[p].owed) ELSE UNCHANGED <<money, left>>
  /\ UNCHANGED <<translating, present, text, marks, seen>>

\* Mutant: the lines that are boxed afterwards are not asked for
AddUnboxedOnly(p) ==
  /\ slice[p].at = "box"
  /\ present' \in {present, present \cup slice[p].fresh}
  /\ slice' = [slice EXCEPT ![p] = [slice[p] EXCEPT !.at = AtRetry(slice[p].todo), !.fresh = {}]]
  /\ UNCHANGED <<translating, money, text, preserved, marks, left, seen>>

Boxed(p, todo) == [slice[p] EXCEPT !.at = AtRetry(todo), !.fresh = {}, !.todo = todo]

\* lines the translator saw outside every box are boxed, erased and asked for
AddUnboxed(p) ==
  /\ slice[p].at = "box"
  /\ present' \in {present, present \cup slice[p].fresh}
  /\ LET todo == IF present' = present THEN slice[p].todo ELSE <<slice[p].fresh>> \o slice[p].todo
     IN slice' = [slice EXCEPT ![p] = Boxed(p, todo)]
  /\ UNCHANGED <<translating, money, text, preserved, marks, left, seen>>

Popped(p) ==
  LET todo == Tail(slice[p].todo)
  IN [NoSlice EXCEPT !.at = AtRetry(todo), !.first = (todo = <<>>), !.todo = todo]

\* the targets of the retries are given up
GivenUp(p, targets) == [slice[p] EXCEPT !.at = "restore", !.asked = targets]

\* Mutant: the budget is not looked at between retries
RetryUnpaid(p) ==
  /\ slice[p].at = "retry"
  /\ LET targets == Untranslated(p, Head(slice[p].todo), slice[p].blank) IN
     \/ /\ slice[p].fruitless < Rounds /\ ~cancelled /\ targets # {}
        /\ \E batch \in kSubset(Min({Batch, Cardinality(targets)}), targets) :
             slice' = [slice EXCEPT ![p] = Asks(p, batch)]
     \/ /\ slice[p].fruitless >= Rounds \/ cancelled \/ targets = {}
        /\ slice' = [slice EXCEPT ![p] =
             IF targets = {} THEN Popped(p) ELSE GivenUp(p, targets)]
  /\ UNCHANGED <<translating, money, objects, left, seen>>

\* a small batch is asked for again, or what is left is given up
Retry(p) ==
  /\ slice[p].at = "retry"
  /\ LET targets == Untranslated(p, Head(slice[p].todo), slice[p].blank)
         again == slice[p].fruitless < Rounds /\ ~cancelled /\ targets # {} /\ HasBudget
     IN
     \/ /\ again
        /\ \E batch \in kSubset(Min({Batch, Cardinality(targets)}), targets) :
             slice' = [slice EXCEPT ![p] = Asks(p, batch)]
     \/ /\ ~again
        /\ slice' = [slice EXCEPT ![p] =
             IF targets = {} THEN Popped(p) ELSE GivenUp(p, targets)]
  /\ UNCHANGED <<translating, money, objects, left, seen>>

\* what never translates keeps its original pixels
Restore(p) ==
  /\ slice[p].at = "restore" /\ slice' = [slice EXCEPT ![p] = Popped(p)]
  /\ \/ preserved' = preserved \cup slice[p].asked /\ UNCHANGED excused
     \/ excused' = excused \cup {p} /\ UNCHANGED preserved
  /\ UNCHANGED <<translating, money, present, text, marks, left, blanked, passed>>

\* an error nobody catches ends the job while its other slices go on: gather does not stop them
Escapes(p) ==
  /\ InGate(p) /\ Used("escape") /\ slice' = [slice EXCEPT ![p] = [NoSlice EXCEPT !.at = "done"]]
  /\ IF Running THEN Fails ELSE UNCHANGED <<requests, stage>>
  /\ UNCHANGED <<cancelled, outOfBudget, money, cuts, objects, hands, seen>>

SliceStep(p) ==
  \/ Admit(p) \/ CallFails(p) \/ CommitAnswer(p) \/ KeepArt(p) \/ AddUnboxed(p) \/ Retry(p) \/ Restore(p)
  \/ Escapes(p)

-----------------------------------------------------------------------------
(* Polishing, sorting the blanks and lettering. *)

Shown == {o \in present : PageOf[o] \notin skipped}

\* texts that may be mostly covered by others of their slices, which stay
Overlapped(t) ==
  {gone \in SUBSET {o \in present : t[o] # "none"} :
     \A o \in gone : \E x \in (On(PageOf[o]) \cap present) \ gone : t[x] # "none"}

\* texts that others mostly cover are dropped; copies take the texts of their owners
SyncSeams(t) ==
  \E gone \in Overlapped(t) :
    /\ (gone = {} /\ UNCHANGED left) \/ (gone # {} /\ Used("overlap"))
    /\ dropped' = dropped \cup gone
    /\ text' = [o \in Object |->
         IF o \in gone THEN "none"
         ELSE IF o \in (Copies \cap Shown) \ dropped' /\ owner[o] \notin gone /\ t[owner[o]] # "none" THEN "ai"
         ELSE t[o]]

\* the seams are synced, unless the job was cancelled before; then polish collects the lines
\* it may rewrite, if it is on at all
Translated ==
  /\ Running /\ stage = "translate" /\ \A p \in Page : slice[p].at = "done"
  /\ SyncSeams(text) \/ (cancelled /\ UNCHANGED <<text, dropped, left>>)
  /\ Advance
  /\ polishing' \in IF stage' = "polish"
                    THEN {{}, {o \in Shown \ (Copies \cup dropped') : text'[o] # "none"}} ELSE {polishing}
  /\ UNCHANGED <<cancelled, outOfBudget, money, slice, cuts, present, preserved, attempted, disposition, pen, seen>>

\* the lines graded better are written over whatever is there by now, and the seams synced again
Polish ==
  /\ Running /\ stage = "polish"
  /\ \/ /\ \E kept \in SUBSET polishing :
             IF kept = {} THEN UNCHANGED <<text, dropped, left>>
             ELSE SyncSeams([o \in Object |-> IF o \in kept THEN "ai" ELSE text[o]])
        /\ Advance
     \/ Fails /\ UNCHANGED <<text, dropped, left>>
  /\ polishing' = {}
  /\ UNCHANGED <<cancelled, outOfBudget, money, slice, cuts, present, preserved, attempted, disposition, pen, seen>>

Blank == {o \in Shown \ (preserved \cup dropped) : text[o] = "none"}

\* the export gate looks at the disposition before the translation, and knows of no overlaps
Blocks(o) ==
  /\ o \in Shown \ preserved
  /\ disposition[o] = "untranslated" \/ (disposition[o] = "none" /\ text[o] = "none")

\* a blank that was tried is no story text, one that never was blocks the export
SettleBlanks ==
  /\ Running /\ stage = "render"
  /\ disposition' = [o \in Object |-> IF o \notin Blank THEN disposition[o]
                                      ELSE IF o \in attempted THEN "non_story" ELSE "untranslated"]
  /\ Advance
  /\ UNCHANGED <<cancelled, outOfBudget, money, slice, cuts, present, text, preserved, attempted, dropped,
                 hands, left, seen>>

Texts(p, kept) == {o \in (On(p) \cap present) \ kept : text[o] # "none"}

\* the texts of the next slice whose picture is not current are read; nothing is locked meanwhile
ReadTexts(p) ==
  /\ Running /\ stage = "letter" /\ ~pen.out /\ ~cancelled
  /\ p \notin skipped /\ pen.next <= p
  /\ pen' = [next |-> p, out |-> TRUE, sent |-> Texts(p, preserved), old |-> {}]
  /\ UNCHANGED <<requests, run, money, slice, cuts, objects, polishing, left, seen>>

\* the slice is lettered with the texts that were read, and they are saved with it; or that
\* fails, and an object that cannot be lettered gets its pixels back and the slice another try
\* (RENDER_RESTORE_ATTEMPTS times in the code, once for each object here)
Letter ==
  /\ Running /\ stage = "letter" /\ pen.out
  /\ \/ /\ text' = [o \in Object |-> IF o \in pen.old \ preserved THEN "ai" ELSE text[o]]
        /\ pen' = [NoPen EXCEPT !.next = pen.next + 1] /\ UNCHANGED preserved
     \/ pen' = [NoPen EXCEPT !.next = pen.next + 1] /\ UNCHANGED <<text, preserved>>
     \/ /\ \E o \in pen.sent : preserved' = preserved \cup {o}
        /\ pen' = [pen EXCEPT !.sent = Texts(pen.next, preserved'), !.old = {}] /\ UNCHANGED text
  /\ UNCHANGED <<requests, run, money, slice, cuts, present, marks, polishing, left, seen>>

\* every slice has its picture, or an error ends the job
Lettered ==
  /\ Running /\ stage = "letter"
  /\ (~pen.out /\ Advance) \/ Fails
  /\ pen' = NoPen
  /\ UNCHANGED <<cancelled, outOfBudget, money, slice, cuts, objects, polishing, left, seen>>

StageStep ==
  \/ PlainStage \/ Scan \/ Review \/ Translated \/ Polish \/ SettleBlanks
  \/ \E p \in Page : ReadTexts(p)
  \/ Letter \/ Lettered

-----------------------------------------------------------------------------
(* The user, in the editor. *)

Types(o) ==
  /\ Used("edit") /\ stage \in {"translate", "polish", "render", "letter", "finish", "over"}
  /\ o \in present /\ text' = [text EXCEPT ![o] = "typed"]
  /\ pen' = [pen EXCEPT !.old = @ \cup ({o} \cap pen.sent)]
  /\ UNCHANGED <<requests, run, money, slice, cuts, present, preserved, marks, polishing, seen>>

\* the region or the source text of an object is changed while the model reads it
Moves(o) ==
  LET p == PageOf[o] IN
  /\ Used("edit") /\ slice[p].at = "asking" /\ o \in slice[p].asked
  /\ slice' = [slice EXCEPT ![p].stale = @ \cup {o}]
  /\ UNCHANGED <<requests, run, money, cuts, objects, hands, seen>>

\* the clean image of a slice is replaced while the model reads it
Repaints(p) ==
  /\ Used("edit") /\ slice[p].at = "asking" /\ slice' = [slice EXCEPT ![p].changed = TRUE]
  /\ UNCHANGED <<requests, run, money, cuts, objects, hands, seen>>

-----------------------------------------------------------------------------
RequestStep(r) == Reserve(r) \/ Start(r) \/ Settle(r) \/ OtherEnds(r)

AiNext ==
  \/ \E r \in Caller : StartLocal(r) \/ Ask(r) \/ RequestStep(r)
  \/ StageStep \/ \E p \in Page : SliceStep(p)
  \/ Cancel \/ (\E o \in Object : Types(o) \/ Moves(o)) \/ \E p \in Page : Repaints(p)

\* the event loop runs every task, calls answer or time out; the user need not do anything
Fairness ==
  /\ \A r \in Caller : WF_aiVars(RequestStep(r))
  /\ WF_aiVars(StageStep) /\ \A p \in Page : WF_aiVars(SliceStep(p))

AiSpec == AiInit /\ [][AiNext]_aiVars /\ Fairness

-----------------------------------------------------------------------------
AiTypeOK ==
  /\ request \in [Caller -> {"idle", "reserving", "starting", "refused", "running", "ending", "done"}]
  /\ reservation \in [Caller -> {"none", "open", "lost"} \cup Outcomes]
  /\ status \in [Caller -> {"none", "running"} \cup Outcomes] /\ worker \in Caller \cup {None}
  /\ stage \in {"off", "over"} \cup {Stages[i] : i \in DOMAIN Stages}
  /\ cancelled \in BOOLEAN /\ outOfBudget \in BOOLEAN
  /\ early \in Nat /\ cost \in Nat /\ priced \in BOOLEAN
  /\ slice \in [Page -> SliceRecord]
  /\ \A p \in Page :
       /\ slice[p].at = "retry" => slice[p].todo # <<>>
       /\ slice[p].asked \cup slice[p].art \cup slice[p].fresh \cup slice[p].blank \subseteq On(p)
  /\ owner \in [Object -> Object \cup {None}] /\ \A o \in Object : owner[o] # None => owner[owner[o]] = None
  /\ skipped \subseteq Page /\ present \subseteq Object /\ text \in [Object -> {"none", "ai", "typed"}]
  /\ UNION {preserved, attempted, dropped, polishing, blanked, passed} \subseteq Object /\ excused \subseteq Page
  /\ pen \in [next : 1..Pages + 1, out : BOOLEAN, sent : SUBSET Object, old : SUBSET Object]
  /\ pen.out => pen.next \in Page
  /\ disposition \in [Object -> {"none", "non_story", "untranslated"}]
  /\ left \in [Ops -> Nat]

\* There is one A.I mode job at a time, although requests await their reservations.
OneJob == Cardinality(Active) <= 1

\* A reserved job is open only while somebody is left to finish it, and is finished as
\* its A.I mode job ended: cancelled for a request that was refused.
ReservationSettled ==
  \A r \in Cloud :
    /\ reservation[r] = "open" => request[r] \in {"starting", "refused", "running", "ending"}
    /\ reservation[r] \in Outcomes =>
         reservation[r] = IF status[r] = "none" THEN "cancelled" ELSE status[r]

\* Requests, jobs and reservations fit each other.
JobOK == AiTypeOK /\ OneJob /\ ReservationSettled

OwedBy == [p \in Page |-> slice[p].owed]
SpentOnSlices == cost + MapThenSumSet(LAMBDA p : OwedBy[p], Page)

\* While every cost is known, slices that read the budget side by side overdraw it by no more
\* than their calls in flight, retries included; and they spend nothing at all when scan,
\* glossary and review, which do not look at the budget, have used it up before.
BudgetKept ==
  priced => \/ SpentOnSlices = 0
            \/ early + SpentOnSlices < Budget + Concurrency * MaxCost

\* Why an object has no text: the model left it blank, it was edited under the first call,
\* it was dropped for a text over it, or its slice for the budget or an error.
Given(o) == o \in blanked \cup passed \cup dropped \/ PageOf[o] \in excused

\* A copy has none when its owner has none.
Excused(o) == Given(o) \/ (o \in Copies /\ (Given(owner[o]) \/ owner[o] \in preserved))

\* When a job has completed, an object blocks the export only for a reason: the model left
\* it blank, the user edited it while the first call of its slice read it, it was dropped
\* for a text over it, its slice was dropped for the budget, its pixels could not be
\* restored, or it is the copy of such an object.  No other object is forgotten, whatever
\* the answers leave out, report, or find changed.
NoneForgotten ==
  worker # None /\ status[worker] = "completed" => \A o \in Object : Blocks(o) => Excused(o)

\* Text is dismissed as no story text only when the model saw it and left it blank.
DismissedOnEvidence == \A o \in Object : disposition[o] = "non_story" => o \in blanked

\* What the user types is written over by no answer and no retry, however many calls are in
\* flight: only by polish, on a line it collected; by the seams, on a copy whose owner has a
\* text and on a text that another one covers; and by the lettering of a slice, when the
\* texts were read before it was typed.
TypedKept ==
  [][\A o \in Object : text[o] = "typed" /\ text'[o] # "typed" =>
       \/ stage = "polish" /\ o \in polishing
       \/ stage \in {"translate", "polish"} /\ stage' # stage
          /\ (o \in dropped' \/ (o \in Copies /\ text'[owner[o]] # "none"))
       \/ stage = "letter" /\ pen.out /\ o \in pen.old]_aiVars

\* Every request comes to an end, the job it started included.
RequestEnds == \A r \in Caller : request[r] # "idle" ~> request[r] = "done"

\* Objects left blank on purpose do not block the export.
BlanksDoNotBlock ==
  worker # None /\ status[worker] = "completed" => \A o \in blanked : ~Blocks(o)

\* An object blocks the export only until it is translated.
BlocksUntilTranslated == \A o \in Object : text[o] # "none" => ~Blocks(o)

\* An object the user moved under a call does not block the export.
MovedDoNotBlock ==
  worker # None /\ status[worker] = "completed" => \A o \in passed : ~Blocks(o)

\* Nor does one that was dropped because another text covers it.
DroppedDoNotBlock ==
  worker # None /\ status[worker] = "completed" => \A o \in dropped : ~Blocks(o)

\* A text the user typed is written over by polish only.
OnlyPolishRewrites ==
  [][\A o \in Object : text[o] = "typed" /\ text'[o] # "typed" => stage = "polish"]_aiVars

\* What the job has spent is within the budget and the calls in flight.
JobWithinBudget == early + SpentOnSlices < Budget + Concurrency * MaxCost
=============================================================================
