------------------------------ MODULE OcrJobs ------------------------------
(***************************************************************************)
(* Reading the text of a chapter: the jobs of ocr/jobs.py, whose workers   *)
(* take regions ("boxes") from a queue, the reading of one box by          *)
(* ocr/service.py - looked at under the manifest lock, read without it,    *)
(* committed under it if the box is still the one looked at - and the      *)
(* grouped reading of an editor object that spans boxes, which reads each  *)
(* of them in turn.  The user moves boxes and makes pages unreadable       *)
(* (preserved, skipped, to be processed again) at any moment.              *)
(*                                                                         *)
(* A crop stands for everything a reading depends on (geometry, mask file),*)
(* and a text for the crop it was read from.  Original images are written  *)
(* once, when the chapter is made, and so is their revision.  All readings *)
(* are in one language with one engine.                                    *)
(***************************************************************************)
EXTENDS Integers, Sequences, FiniteSets

CONSTANTS
  Chapter, Box, Crop,
  ChapterOf,     \* the chapter of a box
  ObjectBox,     \* the box an editor object was made for
  Spanned,       \* the boxes its region overlaps
  ActiveLimit,   \* OCR_JOB_ACTIVE_LIMIT
  Concurrency,   \* workers of a job, at most OCR_JOB_CONCURRENCY_LIMIT
  MaxRetained,   \* MAX_RETAINED_JOBS
  MaxJobs,       \* bound of the model: jobs ever started
  MaxEdits,      \* bound of the model: edits of boxes
  MaxGroups,     \* bound of the model: grouped readings
  Unread,        \* no text
  Typed, Whole   \* texts that come from no box: typed by the user, read from the region

ASSUME OcrAssumption ==
  /\ IsFiniteSet(Box) /\ ChapterOf \in [Box -> Chapter]
  /\ ObjectBox \in Spanned /\ Spanned \subseteq Box
  /\ ActiveLimit \in Nat \ {0} /\ Concurrency \in Nat \ {0} /\ MaxRetained \in Nat \ {0}
  /\ ActiveLimit <= MaxRetained       \* at most 8, and 32
  /\ MaxJobs \in Nat /\ MaxEdits \in Nat /\ MaxGroups \in Nat
  /\ Unread \notin Crop /\ Typed \notin Box \X Crop /\ Whole \notin Box \X Crop

VARIABLES
  box,      \* crop, whether it may be read, and the text in its machine cache
  jobs,     \* every job ever started, in order
  kept,     \* the jobs the manager knows (_jobs, oldest first)
  active,   \* _active_chapters
  reader,   \* where each worker, and the grouped reading, is
  object,   \* the text of the editor object, and the text it was given automatically
  group,    \* the grouped reading under way
  edits, groups

manager == <<jobs, kept, active>>
vars == <<box, manager, reader, object, group, edits, groups>>

Active == {"pending", "running"}
Terminal == {"completed", "cancelled"}
Worker == 1..Concurrency
Group == <<0, 0>>                            \* the reader of the grouped reading
Reader == {Group} \cup ((1..MaxJobs) \X Worker)

Idle == [at |-> "idle"]
Looking(b) == [at |-> "looking", box |-> b]
Reading(b, crop) == [at |-> "reading", box |-> b, crop |-> crop]
Done(b, outcome, text) == [at |-> "done", box |-> b, outcome |-> outcome, text |-> text]
Gone == [at |-> "gone"]
NoGroup == [on |-> FALSE]

Cancelled(r) == r # Group /\ jobs[r[1]].cancel
Forced(r) == r # Group /\ jobs[r[1]].force
WorkersOf(j) == {j} \X Worker

Init ==
  /\ box \in [Box -> [crop : Crop, readable : {TRUE}, text : {Unread}]]
  /\ jobs = <<>> /\ kept = {} /\ active = {}
  /\ reader = [r \in Reader |-> Idle]
  /\ object = [text |-> {}, auto |-> {}] /\ group = NoGroup
  /\ edits = 0 /\ groups = 0

-----------------------------------------------------------------------------
(* The jobs of a chapter. *)

ActiveJobs == {j \in kept : jobs[j].status \in Active}

\* Mutant: the oldest jobs go, ended or not
PrunedOldest ==
  {k \in kept : Cardinality(kept) - Cardinality({i \in kept : i < k}) >= MaxRetained}

\* the ended jobs that make room, oldest first, as far as needed and possible
Pruned ==
  LET ended == {i \in kept : jobs[i].status \in Terminal}
  IN  {k \in ended : Cardinality(kept) - Cardinality({i \in ended : i < k}) >= MaxRetained}

\* an empty plan is complete at once
Register(c, items, force) ==
  LET j == Len(jobs) + 1 IN
  /\ j <= MaxJobs /\ c \notin active /\ Cardinality(ActiveJobs) < ActiveLimit
  /\ jobs' = Append(jobs,
       [chapter |-> c, items |-> items, todo |-> items, force |-> force, cancel |-> FALSE,
        status |-> IF items = {} THEN "completed" ELSE "pending",
        completed |-> 0, stale |-> 0, failed |-> 0, retry |-> {}])
  /\ kept' = (kept \ Pruned) \cup {j}
  /\ active' = IF items = {} THEN active ELSE active \cup {c}
  /\ UNCHANGED <<box, reader, object, group, edits, groups>>

PlanChapter(c) == {b \in Box : ChapterOf[b] = c /\ box[b].readable}

Start(c, force) == Register(c, PlanChapter(c), force)

\* a new job for what failed or was stale, not planned afresh
Retry(j) ==
  /\ j \in kept /\ jobs[j].status \in Terminal /\ jobs[j].retry # {}
  /\ Register(jobs[j].chapter, jobs[j].retry, jobs[j].force)

\* the event of a job that has ended is read by nobody
Cancel(j) ==
  /\ j \in kept /\ jobs[j].status \in Active /\ ~jobs[j].cancel
  /\ jobs' = [jobs EXCEPT ![j].cancel = TRUE]
  /\ UNCHANGED <<box, kept, active, reader, object, group, edits, groups>>

Run(j) ==
  /\ j \in DOMAIN jobs /\ jobs[j].status = "pending"
  /\ jobs' = [jobs EXCEPT ![j].status = "running"]
  /\ UNCHANGED <<box, kept, active, reader, object, group, edits, groups>>

Take(j, w) ==
  LET r == <<j, w>> IN
  /\ j \in DOMAIN jobs /\ jobs[j].status = "running" /\ reader[r] = Idle
  /\ ~jobs[j].cancel
  /\ \E b \in jobs[j].todo :
       /\ jobs' = [jobs EXCEPT ![j].todo = @ \ {b}]
       /\ reader' = [reader EXCEPT ![r] = Looking(b)]
  /\ UNCHANGED <<box, kept, active, object, group, edits, groups>>

\* Mutant: a worker leaves only when the queue is empty
LeaveWhenEmpty(j, w) ==
  LET r == <<j, w>> IN
  /\ j \in DOMAIN jobs /\ jobs[j].status = "running" /\ reader[r] = Idle
  /\ jobs[j].todo = {}
  /\ reader' = [reader EXCEPT ![r] = Gone]
  /\ UNCHANGED <<box, manager, object, group, edits, groups>>

\* the queue is empty, or the job cancelled
Leave(j, w) ==
  LET r == <<j, w>> IN
  /\ j \in DOMAIN jobs /\ jobs[j].status = "running" /\ reader[r] = Idle
  /\ jobs[j].cancel \/ jobs[j].todo = {}
  /\ reader' = [reader EXCEPT ![r] = Gone]
  /\ UNCHANGED <<box, manager, object, group, edits, groups>>

\* Mutant: a stale reading counts as a completed one too
CountedStaleAsDone(job, b, outcome) ==
  CASE outcome \in {"read", "stale"} -> [job EXCEPT !.completed = @ + 1, !.stale = @ + 1]
    [] outcome = "failed" -> [job EXCEPT !.failed = @ + 1, !.retry = @ \cup {b}]
    [] OTHER -> job

\* a reading that was cancelled is not counted at all
Counted(job, b, outcome) ==
  CASE outcome = "read" -> [job EXCEPT !.completed = @ + 1]
    [] outcome = "stale" -> [job EXCEPT !.stale = @ + 1, !.retry = @ \cup {b}]
    [] outcome = "failed" -> [job EXCEPT !.failed = @ + 1, !.retry = @ \cup {b}]
    [] OTHER -> job

Record(j, w) ==
  LET r == <<j, w>> IN
  /\ reader[r].at = "done"
  /\ jobs' = [jobs EXCEPT ![j] = Counted(@, reader[r].box, reader[r].outcome)]
  /\ reader' = [reader EXCEPT ![r] = Idle]
  /\ UNCHANGED <<box, kept, active, object, group, edits, groups>>

Finish(j) ==
  /\ j \in DOMAIN jobs /\ jobs[j].status = "running"
  /\ \A r \in WorkersOf(j) : reader[r] = Gone
  /\ jobs' = [jobs EXCEPT ![j].status = IF jobs[j].cancel THEN "cancelled" ELSE "completed"]
  /\ active' = active \ {jobs[j].chapter}
  /\ UNCHANGED <<box, kept, reader, object, group, edits, groups>>

-----------------------------------------------------------------------------
(* The reading of one box, by a worker or for a group. *)

Ends(r, outcome, text) == reader' = [reader EXCEPT ![r] = Done(@.box, outcome, text)]

\* _snapshot_box, the cache, the first check of the cancel event
Look(r) ==
  /\ reader[r].at = "looking"
  /\ LET b == reader[r].box
         cached == ~Forced(r) /\ box[b].text # Unread IN
       \/ ~box[b].readable /\ Ends(r, "failed", Unread)
       \/ box[b].readable /\ cached /\ Ends(r, "read", box[b].text)
       \/ /\ box[b].readable /\ ~cached
          /\ IF Cancelled(r) THEN Ends(r, "cancelled", Unread)
             ELSE reader' = [reader EXCEPT ![r] = Reading(b, box[b].crop)]
  /\ UNCHANGED <<box, manager, object, group, edits, groups>>

\* the engine raises
ReadFails(r) ==
  /\ reader[r].at = "reading" /\ Ends(r, "failed", Unread)
  /\ UNCHANGED <<box, manager, object, group, edits, groups>>

\* Mutant: whether the crop is another is not looked at
ChangedReadable(r) == ~box[reader[r].box].readable

Changed(r) == LET b == reader[r].box IN ~box[b].readable \/ box[b].crop # reader[r].crop

\* the object made for a box follows its machine text while it has no other
Followed(b, crop) ==
  IF b = ObjectBox /\ object.text = object.auto
  THEN [text |-> {<<b, crop>>}, auto |-> {<<b, crop>>}] ELSE object

CommitBox(r) ==
  /\ reader[r].at = "reading"
  /\ LET b == reader[r].box
         crop == reader[r].crop IN
       \/ Cancelled(r) /\ Ends(r, "cancelled", Unread) /\ UNCHANGED <<box, object>>
       \/ Changed(r) /\ Ends(r, "stale", Unread) /\ UNCHANGED <<box, object>>
       \/ /\ ~Changed(r) /\ ~Cancelled(r)
          /\ box' = [box EXCEPT ![b].text = crop] /\ object' = Followed(b, crop)
          /\ Ends(r, "read", crop)
  /\ UNCHANGED <<manager, group, edits, groups>>

-----------------------------------------------------------------------------
(* The grouped reading of the editor object. *)

Signatures == {<<b, box[b].crop>> : b \in {s \in Spanned : box[s].readable}}

GroupStart ==
  /\ ~group.on /\ groups < MaxGroups /\ groups' = groups + 1
  /\ group' = [on |-> TRUE, signatures |-> Signatures, text |-> object.text,
               todo |-> {s[1] : s \in Signatures}, got |-> {},
               moved |-> [b \in Box |-> 0]]
  /\ UNCHANGED <<box, manager, reader, object, edits>>

GroupTake ==
  /\ group.on /\ reader[Group] = Idle
  /\ \E b \in group.todo :
       /\ group' = [group EXCEPT !.todo = @ \ {b}]
       /\ reader' = [reader EXCEPT ![Group] = Looking(b)]
  /\ UNCHANGED <<box, manager, object, edits, groups>>

\* a stale box is passed over, any other failure ends the request
GroupCollect ==
  /\ reader[Group].at = "done"
  /\ LET d == reader[Group] IN
       group' = CASE d.outcome = "read" -> [group EXCEPT !.got = @ \cup {<<d.box, d.text>>}]
                  [] d.outcome = "stale" -> group
                  [] OTHER -> NoGroup
  /\ reader' = [reader EXCEPT ![Group] = Idle]
  /\ UNCHANGED <<box, manager, object, edits, groups>>

\* Mutant: only the text of the object is compared
GroupStaleText == object.text # group.text

GroupStale == object.text # group.text \/ Signatures # group.signatures

\* with no text from its boxes, the region itself has been read
GroupCommit ==
  /\ group.on /\ reader[Group] = Idle /\ group.todo = {}
  /\ group' = NoGroup
  /\ object' = IF GroupStale THEN object
               ELSE [object EXCEPT !.text = IF group.got = {} THEN {Whole} ELSE group.got]
  /\ UNCHANGED <<box, manager, reader, edits, groups>>

-----------------------------------------------------------------------------
(* What the user does meanwhile.  A cached text of another crop is dropped *)
(* by the next load of the manifest.                                       *)

MoveBox(b, crop) ==
  /\ edits < MaxEdits /\ edits' = edits + 1 /\ crop # box[b].crop
  /\ box' = [box EXCEPT ![b].crop = crop, ![b].text = Unread]
  /\ group' = IF group.on THEN [group EXCEPT !.moved[b] = @ + 1] ELSE group
  /\ UNCHANGED <<manager, reader, object, groups>>

SetReadable(b) ==
  /\ edits < MaxEdits /\ edits' = edits + 1
  /\ box' = [box EXCEPT ![b].readable = ~@]
  /\ UNCHANGED <<manager, reader, object, group, groups>>

TypeText ==
  /\ edits < MaxEdits /\ edits' = edits + 1 /\ object.text # {Typed}
  /\ object' = [object EXCEPT !.text = {Typed}]
  /\ UNCHANGED <<box, manager, reader, group, groups>>

WorkerStep(j, w) ==
  Take(j, w) \/ Leave(j, w) \/ Record(j, w)
    \/ Look(<<j, w>>) \/ ReadFails(<<j, w>>) \/ CommitBox(<<j, w>>)

JobStep(j) ==
  /\ j \in DOMAIN jobs /\ jobs[j].status \in Active
  /\ Run(j) \/ Finish(j) \/ \E w \in Worker : WorkerStep(j, w)

GroupStep ==
  GroupTake \/ GroupCollect \/ GroupCommit
    \/ Look(Group) \/ ReadFails(Group) \/ CommitBox(Group)

Next ==
  \/ \E c \in Chapter, force \in BOOLEAN : Start(c, force)
  \/ \E j \in 1..MaxJobs : Retry(j) \/ Cancel(j) \/ JobStep(j)
  \/ GroupStart \/ GroupStep
  \/ \E b \in Box, crop \in Crop : MoveBox(b, crop)
  \/ \E b \in Box : SetReadable(b)
  \/ TypeText

\* a job goes on while there is something to do for it: the event loop runs,
\* and a reading ends
Fairness == \A j \in 1..MaxJobs : WF_vars(JobStep(j))

Spec == Init /\ [][Next]_vars /\ Fairness

-----------------------------------------------------------------------------
(* Properties. *)

Texts == SUBSET ((Box \X Crop) \cup {Typed, Whole})

\* The types: readings, counters, sets of boxes and texts (ChapterOCRJob and
\* the results of inspect_box_id).
TypeOK ==
  /\ box \in [Box -> [crop : Crop, readable : BOOLEAN, text : Crop \cup {Unread}]]
  /\ \A j \in DOMAIN jobs :
       /\ jobs[j].chapter \in Chapter /\ jobs[j].status \in Active \cup Terminal
       /\ jobs[j].todo \subseteq jobs[j].items /\ jobs[j].retry \subseteq jobs[j].items
       /\ jobs[j].items \subseteq {b \in Box : ChapterOf[b] = jobs[j].chapter}
  /\ kept \subseteq DOMAIN jobs /\ active \subseteq Chapter
  /\ DOMAIN reader = Reader
  /\ \A r \in Reader :
       /\ reader[r].at \in {"idle", "looking", "reading", "done", "gone"}
       /\ reader[r].at \notin {"idle", "gone"} => reader[r].box \in Box
  /\ object.text \in Texts /\ object.auto \in Texts
  /\ group.on => group.todo \subseteq Spanned /\ group.got \in Texts

InHand(j) == {b \in Box : \E r \in WorkersOf(j) :
                             reader[r].at \notin {"idle", "gone"} /\ reader[r].box = b}

\* Every box of a job is in the queue, in the hands of one worker, or counted
\* once; only a cancel lets one go uncounted.  What a job has to retry is
\* exactly what it counted as stale or failed (jobs.py, the workers and the
\* three _record methods).
CountedOnce ==
  \A j \in DOMAIN jobs :
    LET job == jobs[j]
        known == Cardinality(job.todo) + Cardinality(InHand(j))
                   + job.completed + job.stale + job.failed IN
    /\ known <= Cardinality(job.items)
    /\ ~job.cancel => known = Cardinality(job.items)
    /\ Cardinality(job.retry) = job.stale + job.failed
    /\ job.retry \cap (job.todo \cup InHand(j)) = {}

\* A chapter is taken exactly while one of its jobs is pending or running; the
\* manager still knows that job, so that it can be asked for and cancelled
\* (_register_job, _prune_locked, _run).
ActiveIsExact ==
  /\ \A j \in DOMAIN jobs : jobs[j].status \in Active => j \in kept
  /\ active = {jobs[j].chapter : j \in ActiveJobs}
  /\ \A i, j \in ActiveJobs : jobs[i].chapter = jobs[j].chapter => i = j

\* Never more active jobs than the limit, nor more jobs known than the manager keeps,
\* although it drops none that is active.
LimitsKept ==
  /\ Cardinality({j \in DOMAIN jobs : jobs[j].status \in Active}) <= ActiveLimit
  /\ Cardinality(kept) <= MaxRetained

\* When a job is over, nobody works for it any more (_run waits for all workers).
OverIsOver ==
  \A j \in DOMAIN jobs : jobs[j].status \in Terminal => InHand(j) = {}

\* What the manager knows of the jobs fits what their workers do, within its limits.
ManagerOK == TypeOK /\ ActiveIsExact /\ LimitsKept /\ OverIsOver

\* A text in a machine cache was read from the crop the box has now, however
\* often it was moved while it was read (_commit_box_result).
CacheIsOfCrop == \A b \in Box : box[b].text \in {Unread, box[b].crop}

Delivers == group.on /\ ~group'.on /\ object'.text # object.text

OfNow ==
  \A s \in object'.text \cap (Box \X Crop) : box[s[1]].crop = s[2] \/ group.moved[s[1]] > 1

\* A grouped reading delivers texts of the crops its boxes have at that moment,
\* although they were read one after the other without a lock: a box that was
\* moved since it began is noticed (unless it was moved there and back).
GroupIsOfNow ==
  [][Delivers => OfNow]_vars

\* A job that was started ends, and a cancelled one too.
JobsEnd ==
  \A j \in 1..MaxJobs :
    (j \in DOMAIN jobs) ~> (j \in DOMAIN jobs /\ jobs[j].status \in Terminal)

=============================================================================
