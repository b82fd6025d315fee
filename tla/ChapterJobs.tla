---------------------------- MODULE ChapterJobs ----------------------------
(***************************************************************************)
(* Who processes a chapter: the background jobs of page_processing_jobs.py,*)
(* the route that processes pages while its caller waits, and the A.I mode,*)
(* which starts a job (or is given the one already running), polls it and  *)
(* feeds each finished slice to its review task (ai_mode/job.py).          *)
(*                                                                         *)
(* A job is created on the event loop and runs on a thread of its own; the *)
(* processing.lock file of the chapter lets one of them in.  What happens  *)
(* to a page inside is the subject of PageEditing: here a page of the plan *)
(* is done, well or not, or it was skipped and is never heard of.          *)
(***************************************************************************)
EXTENDS Integers, Sequences, FiniteSets, SequencesExt

CONSTANTS
  Chapter, Page,
  PagesOf,       \* the pages of a chapter
  MaxRetained,   \* MAX_RETAINED_PROCESS_JOBS
  MaxJobs        \* bound of the model: jobs ever created

ASSUME JobsAssumption ==
  /\ IsFiniteSet(Page) /\ PagesOf \in [Chapter -> SUBSET Page] /\ "end" \notin Page
  /\ MaxRetained \in Nat \ {0} /\ MaxJobs \in Nat

VARIABLES
  jobs,     \* every job created, in this order, with where its thread is
  kept,     \* the jobs the manager still knows (_jobs)
  latest,   \* _latest_by_chapter, 0 for none
  active,   \* _active_by_chapter, 0 for none
  lock,     \* holder of a chapter's processing.lock: a job, Sync or 0
  ai        \* the A.I mode run and its review task

manager == <<jobs, kept, latest, active>>
vars == <<manager, lock, ai>>

Active == {"pending", "running"}
Terminal == {"completed", "failed"}
Sync == -1      \* the route that processes pages while its caller waits
End == "end"    \* the None that ends the review queue

NewJob(c, S) ==
  [chapter |-> c, pages |-> S, status |-> "pending", at |-> "queued", work |-> {},
   done |-> <<>>, completed |-> 0, busy |-> "no"]

NoAI == [at |-> "idle", wanted |-> {}, job |-> 0, fed |-> 0,
         queue |-> <<>>, review |-> "none", reviewed |-> <<>>]

TypeOK ==
  /\ \A i \in DOMAIN jobs :
       /\ jobs[i].chapter \in Chapter /\ jobs[i].pages \subseteq Page
       /\ jobs[i].status \in Active \cup Terminal
       /\ jobs[i].at \in {"queued", "locked", "running", "ran", "ending", "over"}
       /\ jobs[i].work \subseteq jobs[i].pages /\ ToSet(jobs[i].done) \subseteq jobs[i].work
       /\ IsInjective(jobs[i].done) /\ jobs[i].completed \in 0..Cardinality(jobs[i].pages)
  /\ kept \subseteq DOMAIN jobs
  /\ latest \in [Chapter -> 0..Len(jobs)] /\ active \in [Chapter -> 0..Len(jobs)]
  /\ lock \in [Chapter -> Sync..Len(jobs)]
  /\ ai.at \in {"idle", "clean", "over", "failed", "cancelled"}
  /\ ai.review \in {"none", "open", "done", "cancelled"}

Init ==
  /\ jobs = <<>> /\ kept = {}
  /\ latest = [c \in Chapter |-> 0] /\ active = [c \in Chapter |-> 0]
  /\ lock = [c \in Chapter |-> 0]
  /\ ai = NoAI
-----------------------------------------------------------------------------
(* Starting a job. *)

\* Mutant: the oldest jobs go, finished or not.
PrunedOldest ==
  {k \in kept : Cardinality(kept) - Cardinality({i \in kept : i < k}) >= MaxRetained}

\* The finished jobs _prune_locked drops, oldest first, until there is room for one more.
Pruned ==
  LET ended == {i \in kept : jobs[i].status \in Terminal}
  IN  {k \in ended : Cardinality(kept) - Cardinality({i \in ended : i < k}) >= MaxRetained}

DropLatest(S) == [c \in Chapter |-> IF latest[c] \in S THEN 0 ELSE latest[c]]

\* start of a chapter with no active job.
StartNew(c, S) ==
  LET new == Len(jobs) + 1
      gone == Pruned
  IN  /\ new <= MaxJobs
      /\ jobs' = Append(jobs, NewJob(c, S))
      /\ kept' = (kept \ gone) \cup {new}
      /\ latest' = [DropLatest(gone) EXCEPT ![c] = new]
      /\ active' = [active EXCEPT ![c] = new]

\* POST /process/chapter.  With an active job the caller is given that one.
UserStart ==
  /\ \E c \in Chapter : \E S \in SUBSET PagesOf[c] \ {{}} : active[c] = 0 /\ StartNew(c, S)
  /\ UNCHANGED <<lock, ai>>

\* The clean stage of the A.I mode, for the pages it did not skip.
AIStart ==
  /\ ai.at = "idle"
  /\ \E c \in Chapter : \E S \in SUBSET PagesOf[c] \ {{}} :
       /\ \/ active[c] = 0 /\ StartNew(c, S)
          \/ active[c] # 0 /\ UNCHANGED manager
       /\ ai' = [ai EXCEPT !.at = "clean", !.wanted = S, !.job = active'[c],
                           !.review = "open"]
  /\ UNCHANGED lock
-----------------------------------------------------------------------------
(* The thread of job i. *)

\* _fail_job and _complete_job give the chapter up for another job.
Freed(i) ==
  active' = [active EXCEPT ![jobs[i].chapter] = IF @ = i THEN 0 ELSE @]

Fail(i, at, busy) ==
  /\ jobs' = [jobs EXCEPT ![i].status = "failed", ![i].at = at, ![i].busy = busy]
  /\ Freed(i)
  /\ UNCHANGED <<kept, latest, ai>>

\* Mutant: the lock is not asked.
AcquireAnyway(i) ==
  /\ jobs[i].at = "queued"
  /\ jobs' = [jobs EXCEPT ![i].at = "locked"]
  /\ lock' = [lock EXCEPT ![jobs[i].chapter] = i]
  /\ UNCHANGED <<kept, latest, active, ai>>

\* The lock is tried once.  A job that finds it taken fails, and says why.
Acquire(i) ==
  /\ jobs[i].at = "queued"
  /\ LET holder == lock[jobs[i].chapter]
     IN  IF holder = 0
         THEN /\ jobs' = [jobs EXCEPT ![i].at = "locked"]
              /\ lock' = [lock EXCEPT ![jobs[i].chapter] = i]
              /\ UNCHANGED <<kept, latest, active, ai>>
         ELSE /\ Fail(i, "over", IF holder = Sync THEN "running" ELSE jobs[holder].status)
              /\ UNCHANGED lock

\* The lock file cannot be opened: only Timeout is caught, so the thread ends and the job is
\* never told.
AcquireRaises(i) ==
  /\ jobs[i].at = "queued"
  /\ jobs' = [jobs EXCEPT ![i].at = "over"]
  /\ UNCHANGED <<kept, latest, active, lock, ai>>

\* _set_running; process_pages then takes the pages that are not skipped.
SetRunning(i) ==
  /\ jobs[i].at = "locked"
  /\ \E S \in SUBSET jobs[i].pages :
       jobs' = [jobs EXCEPT ![i].status = "running", ![i].at = "running", ![i].work = S]
  /\ UNCHANGED <<kept, latest, active, lock, ai>>

\* on_page_done: a page was committed, found stale or failed.
PageDone(i) ==
  /\ jobs[i].at = "running"
  /\ \E p \in jobs[i].work \ ToSet(jobs[i].done) :
       jobs' = [jobs EXCEPT ![i].done = Append(@, p), ![i].completed = @ + 1]
  /\ UNCHANGED <<kept, latest, active, lock, ai>>

\* process_pages returns: every page counts as completed, the skipped ones too.
PlanReturns(i) ==
  /\ jobs[i].at = "running" /\ ToSet(jobs[i].done) = jobs[i].work
  /\ jobs' = [jobs EXCEPT ![i].at = "ran", ![i].completed = Cardinality(jobs[i].pages)]
  /\ UNCHANGED <<kept, latest, active, lock, ai>>

\* Mutant: an error ends the thread without _fail_job.
PlanRaisesUnheard(i) ==
  /\ jobs[i].at = "running"
  /\ jobs' = [jobs EXCEPT ![i].at = "ending"]
  /\ UNCHANGED <<kept, latest, active, lock, ai>>

\* It raises before the first page or after the last one; or on_completed raises.
PlanRaises(i) ==
  /\ \/ jobs[i].at = "running" /\ ToSet(jobs[i].done) \in {{}, jobs[i].work}
     \/ jobs[i].at = "ran"
  /\ Fail(i, "ending", "no")
  /\ UNCHANGED lock

CompleteJob(i) ==
  /\ jobs[i].at = "ran"
  /\ jobs' = [jobs EXCEPT ![i].status = "completed", ![i].at = "ending"]
  /\ Freed(i)
  /\ UNCHANGED <<kept, latest, lock, ai>>

\* The finally: the lock is released after the job has ended.
Release(i) ==
  /\ jobs[i].at = "ending"
  /\ jobs' = [jobs EXCEPT ![i].at = "over"]
  /\ lock' = [lock EXCEPT ![jobs[i].chapter] = 0]
  /\ UNCHANGED <<kept, latest, active, ai>>

\* POST /process_pages: 409 when the lock is taken.
SyncStart(c) ==
  /\ lock[c] = 0
  /\ lock' = [lock EXCEPT ![c] = Sync]
  /\ UNCHANGED <<manager, ai>>

SyncEnd(c) ==
  /\ lock[c] = Sync
  /\ lock' = [lock EXCEPT ![c] = 0]
  /\ UNCHANGED <<manager, ai>>
-----------------------------------------------------------------------------
(* The A.I mode while it cleans. *)

\* The members of s that are in S, in their order.  (SelectSeq is the same, but has no
\* definition that the proofs could use.)
InOrder(s, S) ==
  LET found == {i \in DOMAIN s : s[i] \in S}
      nth(k) == CHOOSE i \in found : Cardinality({j \in found : j <= i}) = k
  IN  [k \in 1..Cardinality(found) |-> s[nth(k)]]

\* Leaving clean() by an exception cancels the review task.
Leaves(at) == [ai EXCEPT !.at = at, !.review = "cancelled"]

\* Mutant: the pages are fed after the status was acted on.
AIPollEndFirst ==
  /\ ai.at = "clean" /\ ai.job \in kept
  /\ LET job == jobs[ai.job]
         news == InOrder(SubSeq(job.done, ai.fed + 1, Len(job.done)), ai.wanted)
     IN  ai' = IF job.status = "completed"
               THEN [ai EXCEPT !.at = "over", !.queue = Append(@, End)]
               ELSE [ai EXCEPT !.queue = @ \o news, !.fed = Len(job.done)]
  /\ UNCHANGED <<manager, lock>>

\* One turn of the polling loop.  A cancel asked for meanwhile is looked at once the job
\* has completed.
AIPoll ==
  /\ ai.at = "clean"
  /\ IF ai.job \notin kept THEN ai' = Leaves("failed")
     ELSE LET job == jobs[ai.job]
              news == InOrder(SubSeq(job.done, ai.fed + 1, Len(job.done)), ai.wanted)
              heard == [ai EXCEPT !.queue = @ \o news, !.fed = Len(job.done)]
          IN  \/ job.status \in Active /\ ai' = heard
              \/ job.status = "failed" /\ ai' = Leaves("failed")
              \/ job.status = "completed" /\ ai' = Leaves("cancelled")
              \/ job.status = "completed"
                 /\ ai' = [heard EXCEPT !.at = "over", !.queue = Append(@, End)]
  /\ UNCHANGED <<manager, lock>>

\* _review_stream takes the next slice, or the end.
Review ==
  /\ ai.review = "open" /\ ai.queue # <<>>
  /\ ai' = IF Head(ai.queue) = End
           THEN [ai EXCEPT !.queue = Tail(@), !.review = "done"]
           ELSE [ai EXCEPT !.queue = Tail(@), !.reviewed = Append(@, Head(ai.queue))]
  /\ UNCHANGED <<manager, lock>>
-----------------------------------------------------------------------------
Thread(i) ==
  \/ Acquire(i) \/ AcquireRaises(i) \/ SetRunning(i) \/ PageDone(i)
  \/ PlanReturns(i) \/ PlanRaises(i) \/ CompleteJob(i) \/ Release(i)

Next ==
  \/ UserStart \/ AIStart \/ AIPoll \/ Review
  \/ \E i \in DOMAIN jobs : Thread(i)
  \/ \E c \in Chapter : SyncStart(c) \/ SyncEnd(c)

\* A thread that has work gets a processor, and the event loop polls and reviews; nobody
\* has to start or cancel anything.
Fairness ==
  /\ \A i \in 1..MaxJobs : WF_vars(i \in DOMAIN jobs /\ Thread(i))
  /\ WF_vars(AIPoll) /\ WF_vars(Review)

Spec == Init /\ [][Next]_vars /\ Fairness
-----------------------------------------------------------------------------
(* What must hold of the jobs. *)

\* The active job of a chapter is its one job that has not ended, and the manager never
\* forgets it, however many jobs it drops (page_processing_jobs.py:67-86, 188-210).
ActiveExact ==
  \A i \in DOMAIN jobs :
    jobs[i].status \in Active <=> active[jobs[i].chapter] = i /\ i \in kept

\* At most one job or request is inside process_pages for a chapter (the processing.lock
\* of page_processing_jobs.py:110 and routers/chapters.py:337).
OneRun ==
  \A c \in Chapter :
    LET inside == {i \in DOMAIN jobs : jobs[i].chapter = c /\ jobs[i].at \in {"locked", "running", "ran", "ending"}}
    IN  Cardinality(inside) <= (IF lock[c] = Sync THEN 0 ELSE 1)

\* A client that comes back asks for the latest job of a chapter: it is one the manager
\* knows, and no newer one is (latest_for_chapter, page_processing_jobs.py:101).
LatestKnown ==
  \A c \in Chapter :
    /\ latest[c] # 0 => latest[c] \in kept
    /\ \A i \in kept : jobs[i].chapter = c => i <= latest[c]

\* What the manager knows of the jobs fits what they do.
ManagerOK == TypeOK /\ ActiveExact /\ LatestKnown

\* The review has seen, once each, exactly the slices of its plan that the job reported,
\* the last ones too (ai_mode/job.py:341-357).
ReviewSeesAll ==
  ai.review = "done" =>
    /\ IsInjective(ai.reviewed)
    /\ ToSet(ai.reviewed) = ai.wanted \cap ToSet(jobs[ai.job].done)

\* A job told that its chapter "is already being processed" was told the truth
\* (page_processing_jobs.py:117).
BusyIsTrue == \A i \in DOMAIN jobs : jobs[i].busy \notin Terminal

\* The thread of job i ended at the lock file, and the job will be pending for ever.
Stuck(i) == i \in DOMAIN jobs /\ jobs[i].status = "pending" /\ jobs[i].at = "over"

\* Every job ends, whoever else wants its chapter, unless its lock file cannot be opened.
JobsEnd == \A i \in 1..MaxJobs :
  (i \in DOMAIN jobs /\ jobs[i].status \in Active)
    ~> (i \in DOMAIN jobs /\ jobs[i].status \in Terminal) \/ Stuck(i)

\* The clean stage of the A.I mode ends, and its review task with it, unless it waits for
\* such a job.
AIEnds ==
  ai.at = "clean"
    ~> (ai.at # "clean" /\ ai.review \in {"done", "cancelled"}) \/ Stuck(ai.job)

\* Nothing that was started stays behind: no job, no clean stage and no review, whichever of
\* them fails, is dropped or is cancelled first, but for a job whose thread could not open
\* the lock file (page_processing_jobs.py:113-121, 142-197, ai_mode/job.py:323-360).
AllEnd == JobsEnd /\ AIEnds

\* No chapter is kept from being processed for ever.  It fails: a stuck job stays the active
\* one of its chapter, and every later start is given that job.
NoneStuck == \A i \in DOMAIN jobs : ~Stuck(i)
=============================================================================
