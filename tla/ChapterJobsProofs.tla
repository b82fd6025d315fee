------------------------- MODULE ChapterJobsProofs -------------------------
(***************************************************************************)
(* What the manager of the processing jobs promises, for any chapters,     *)
(* pages, limits and numbers of jobs.                                      *)
(***************************************************************************)
EXTENDS ChapterJobs, FiniteSetTheorems, SequenceTheorems, TLAPS

JobRecord ==
  [chapter : Chapter, pages : SUBSET Page, status : Active \cup Terminal,
   at : {"queued", "locked", "running", "ran", "ending", "over"}, work : SUBSET Page,
   done : Seq(Page), completed : Nat, busy : {"no"} \cup Active \cup Terminal]

Typed ==
  /\ jobs \in Seq(JobRecord)
  /\ kept \subseteq DOMAIN jobs
  /\ latest \in [Chapter -> Nat] /\ active \in [Chapter -> Nat]
  /\ lock \in [Chapter -> {Sync, 0} \cup DOMAIN jobs]

Inside == {"locked", "running", "ran", "ending"}

\* A chapter's lock is held by exactly the job whose thread is inside.
HolderInside ==
  \A i \in DOMAIN jobs : jobs[i].at \in Inside <=> lock[jobs[i].chapter] = i

\* A thread that is about to release its lock has ended its job, and none works on a job that
\* has ended.
EndedWhenLeaving ==
  \A i \in DOMAIN jobs :
    /\ jobs[i].at = "ending" => jobs[i].status \in Terminal
    /\ jobs[i].status \in Terminal => jobs[i].at \in {"ending", "over"}

\* A chapter's earlier jobs ended before its later ones began.
EarlierEnded ==
  \A i, k \in DOMAIN jobs :
    i < k /\ jobs[i].chapter = jobs[k].chapter => jobs[i].status \in Terminal

\* The latest job of a chapter is one of its jobs.
LatestOwn ==
  \A c \in Chapter : latest[c] # 0 => latest[c] \in DOMAIN jobs /\ jobs[latest[c]].chapter = c

\* The inductive invariant.
JobInv ==
  /\ Typed
  /\ ActiveExact
  /\ HolderInside
  /\ EndedWhenLeaving
  /\ EarlierEnded
  /\ LatestOwn
  /\ LatestKnown
-----------------------------------------------------------------------------
\* Sync is no job and no free lock.
LEMMA SyncIsNoJob == Sync \notin Nat
  BY DEF Sync

\* Nothing is active that has ended.
LEMMA Exclusive == Active \cap Terminal = {}
  BY DEF Active, Terminal

\* There are no jobs at first.
LEMMA JobInit == Init => JobInv
<1> SUFFICES ASSUME Init PROVE JobInv
  OBVIOUS
<1>1. jobs = <<>> /\ kept = {} /\ DOMAIN jobs = {} /\ jobs \in Seq(JobRecord)
  BY EmptySeq DEF Init
<1> QED
  BY <1>1 DEF Init, JobInv, Typed, ActiveExact, HolderInside, EndedWhenLeaving, EarlierEnded,
              LatestOwn, LatestKnown

\* Replacing the record of one job.
LEMMA Replace ==
  ASSUME Typed, NEW i \in DOMAIN jobs, NEW r \in JobRecord, jobs' = [jobs EXCEPT ![i] = r]
  PROVE  /\ jobs' \in Seq(JobRecord) /\ DOMAIN jobs' = DOMAIN jobs
         /\ \A k \in DOMAIN jobs : jobs'[k] = IF k = i THEN r ELSE jobs[k]
<1>1. DOMAIN jobs = 1..Len(jobs)
  BY LenProperties DEF Typed
<1>2. /\ jobs' \in Seq(JobRecord) /\ Len(jobs') = Len(jobs)
      /\ \A k \in 1..Len(jobs) : jobs'[k] = IF k = i THEN r ELSE jobs[k]
  BY <1>1, ExceptSeq DEF Typed
<1>3. DOMAIN jobs' = 1..Len(jobs')
  BY <1>2, LenProperties
<1> QED
  BY <1>1, <1>2, <1>3

\* The record of a job is one.
LEMMA JobTyped ==
  ASSUME Typed, NEW i \in DOMAIN jobs
  PROVE  jobs[i] \in JobRecord /\ i \in Nat \ {0}
<1>1. DOMAIN jobs = 1..Len(jobs) /\ Len(jobs) \in Nat
  BY LenProperties DEF Typed
<1> QED
  BY <1>1, ElementOfSeq DEF Typed

\* A thread that works on inside the lock: the status stays active or stays ended.
LEMMA WorkStep ==
  ASSUME JobInv, NEW i \in DOMAIN jobs, NEW r \in JobRecord, jobs' = [jobs EXCEPT ![i] = r],
         r.chapter = jobs[i].chapter, r.at \in {"running", "ran"},
         jobs[i].at \in {"locked", "running"}, r.status \in Active,
         UNCHANGED <<kept, latest, active, lock>>
  PROVE  JobInv'
<1>1. /\ jobs' \in Seq(JobRecord) /\ DOMAIN jobs' = DOMAIN jobs
      /\ \A k \in DOMAIN jobs : jobs'[k] = IF k = i THEN r ELSE jobs[k]
  BY Replace DEF JobInv
<1>2. jobs[i] \in JobRecord
  BY JobTyped DEF JobInv
<1>3. jobs[i].status \in Active /\ jobs[i].status \notin Terminal /\ r.status \notin Terminal
  BY <1>2, Exclusive DEF JobInv, EndedWhenLeaving, JobRecord
<1>4. \A k \in DOMAIN jobs :
        /\ jobs'[k].chapter = jobs[k].chapter
        /\ jobs'[k].status \in Active <=> jobs[k].status \in Active
        /\ jobs'[k].status \in Terminal <=> jobs[k].status \in Terminal
        /\ jobs'[k].at \in Inside <=> jobs[k].at \in Inside
        /\ jobs'[k].at = "ending" => jobs[k].at = "ending"
        /\ jobs[k].at \in {"ending", "over"} => jobs'[k].at \in {"ending", "over"}
  BY <1>1, <1>3 DEF Inside
<1>5. Typed'
  BY <1>1 DEF JobInv, Typed
<1>6. ActiveExact'
  BY <1>1, <1>4 DEF JobInv, ActiveExact
<1>7. HolderInside' /\ EndedWhenLeaving' /\ EarlierEnded'
  BY <1>1, <1>4 DEF JobInv, HolderInside, EndedWhenLeaving, EarlierEnded
<1>8. LatestOwn' /\ LatestKnown'
  BY <1>1, <1>4 DEF JobInv, LatestOwn, LatestKnown, Typed
<1> QED
  BY <1>5, <1>6, <1>7, <1>8 DEF JobInv

\* A job ends, inside the lock or in front of it, and its chapter is free.
LEMMA EndStep ==
  ASSUME JobInv, NEW i \in DOMAIN jobs, NEW r \in JobRecord, jobs' = [jobs EXCEPT ![i] = r],
         r.chapter = jobs[i].chapter, r.at \in {"ending", "over"}, r.status \in Terminal,
         jobs[i].at \notin {"ending", "over"}, r.at \in Inside <=> jobs[i].at \in Inside,
         Freed(i), UNCHANGED <<kept, latest, lock>>
  PROVE  JobInv'
<1>1. /\ jobs' \in Seq(JobRecord) /\ DOMAIN jobs' = DOMAIN jobs
      /\ \A k \in DOMAIN jobs : jobs'[k] = IF k = i THEN r ELSE jobs[k]
  BY Replace DEF JobInv
<1>2. jobs[i] \in JobRecord /\ i \in Nat \ {0}
  BY JobTyped DEF JobInv
<1>3. jobs[i].status \in Active /\ jobs[i].chapter \in Chapter
  BY <1>2 DEF JobInv, EndedWhenLeaving, JobRecord
<1>4. active[jobs[i].chapter] = i /\ active \in [Chapter -> Nat]
  BY <1>3 DEF JobInv, ActiveExact, Typed
<1>5. active' = [active EXCEPT ![jobs[i].chapter] = 0]
  BY <1>3, <1>4 DEF Freed
<1>6. \A k \in DOMAIN jobs :
        /\ jobs'[k].chapter = jobs[k].chapter
        /\ k # i => jobs'[k] = jobs[k]
        /\ jobs'[k].at \in Inside <=> jobs[k].at \in Inside
  BY <1>1
<1>7. Typed'
  BY <1>1, <1>4, <1>5 DEF JobInv, Typed
<1>8. ActiveExact'
  <2> SUFFICES ASSUME NEW k \in DOMAIN jobs
               PROVE  jobs'[k].status \in Active <=> active'[jobs[k].chapter] = k /\ k \in kept
    BY <1>1, <1>6 DEF ActiveExact
  <2>1. CASE k = i
    BY <1>1, <1>2, <1>3, <1>4, <1>5, <2>1, Exclusive
  <2>2. CASE k # i /\ jobs[k].chapter = jobs[i].chapter
    <3>1. k \in Nat \ {0} /\ jobs[k].status \notin Active
      BY <1>4, <2>2, JobTyped DEF JobInv, ActiveExact
    <3> QED
      BY <1>3, <1>4, <1>5, <1>6, <2>2, <3>1
  <2>3. CASE k # i /\ jobs[k].chapter # jobs[i].chapter
    <3>1. jobs[k].chapter \in Chapter
      BY JobTyped DEF JobInv, JobRecord
    <3> QED
      BY <1>4, <1>5, <1>6, <2>3, <3>1 DEF JobInv, ActiveExact
  <2> QED
    BY <2>1, <2>2, <2>3
<1>9. HolderInside' /\ EndedWhenLeaving' /\ EarlierEnded'
  BY <1>1, <1>6 DEF JobInv, HolderInside, EndedWhenLeaving, EarlierEnded
<1>10. LatestOwn' /\ LatestKnown'
  BY <1>1, <1>6 DEF JobInv, LatestOwn, LatestKnown, Typed
<1> QED
  BY <1>7, <1>8, <1>9, <1>10 DEF JobInv

\* The lock changes hands for one chapter; a job that takes it or leaves it moves its thread.
LEMMA LockStep ==
  ASSUME JobInv, NEW i \in DOMAIN jobs, NEW r \in JobRecord, jobs' = [jobs EXCEPT ![i] = r],
         r.chapter = jobs[i].chapter, r.status = jobs[i].status,
         r.at = "ending" => jobs[i].at = "ending",
         jobs[i].at \in {"ending", "over"} => r.at \in {"ending", "over"},
         NEW h \in {0, i}, lock' = [lock EXCEPT ![jobs[i].chapter] = h],
         lock[jobs[i].chapter] \in {0, i}, r.at \in Inside <=> h = i,
         UNCHANGED <<kept, latest, active>>
  PROVE  JobInv'
<1>1. /\ jobs' \in Seq(JobRecord) /\ DOMAIN jobs' = DOMAIN jobs
      /\ \A k \in DOMAIN jobs : jobs'[k] = IF k = i THEN r ELSE jobs[k]
  BY Replace DEF JobInv
<1>2. \A k \in DOMAIN jobs : jobs[k].chapter \in Chapter /\ k \in Nat \ {0}
  BY JobTyped DEF JobInv, JobRecord
<1>3. \A k \in DOMAIN jobs :
        /\ jobs'[k].chapter = jobs[k].chapter /\ jobs'[k].status = jobs[k].status
        /\ jobs'[k].at = "ending" => jobs[k].at = "ending"
        /\ jobs[k].at \in {"ending", "over"} => jobs'[k].at \in {"ending", "over"}
  BY <1>1
<1>4. Typed'
  BY <1>1 DEF JobInv, Typed
<1>5. HolderInside'
  <2> SUFFICES ASSUME NEW k \in DOMAIN jobs
               PROVE  jobs'[k].at \in Inside <=> lock'[jobs[k].chapter] = k
    BY <1>1, <1>3 DEF HolderInside
  <2>1. lock \in [Chapter -> {Sync, 0} \cup DOMAIN jobs]
    BY DEF JobInv, Typed
  <2>2. CASE k = i
    BY <1>1, <1>2, <2>1, <2>2
  <2>3. CASE k # i /\ jobs[k].chapter = jobs[i].chapter
    BY <1>1, <1>2, <2>1, <2>3 DEF JobInv, HolderInside
  <2>4. CASE k # i /\ jobs[k].chapter # jobs[i].chapter
    BY <1>1, <1>2, <2>1, <2>4 DEF JobInv, HolderInside
  <2> QED
    BY <2>2, <2>3, <2>4
<1>6. ActiveExact' /\ EndedWhenLeaving' /\ EarlierEnded'
  BY <1>1, <1>3 DEF JobInv, ActiveExact, EndedWhenLeaving, EarlierEnded
<1>7. LatestOwn' /\ LatestKnown'
  BY <1>1, <1>3 DEF JobInv, LatestOwn, LatestKnown, Typed
<1> QED
  BY <1>4, <1>5, <1>6, <1>7 DEF JobInv
-----------------------------------------------------------------------------
(* The steps of a thread. *)

\* The lock is free and taken, or the job fails.
LEMMA AcquireStep == ASSUME JobInv, NEW i \in DOMAIN jobs, Acquire(i) PROVE JobInv'
<1>1. jobs[i] \in JobRecord /\ i \in Nat \ {0} /\ jobs[i].at = "queued"
  BY JobTyped DEF JobInv, Acquire
<1> DEFINE holder == lock[jobs[i].chapter]
<1>2. CASE holder = 0
  <2> DEFINE r == [jobs[i] EXCEPT !.at = "locked"]
  <2>1. jobs' = [jobs EXCEPT ![i] = r] /\ lock' = [lock EXCEPT ![jobs[i].chapter] = i]
    BY <1>2 DEF Acquire
  <2>2. r \in JobRecord /\ r.chapter = jobs[i].chapter /\ r.status = jobs[i].status /\ r.at = "locked"
    BY <1>1 DEF JobRecord
  <2>3. UNCHANGED <<kept, latest, active>>
    BY <1>2 DEF Acquire
  <2> HIDE DEF r
  <2> QED
    BY <1>1, <1>2, <2>1, <2>2, <2>3, LockStep DEF Inside
<1>3. CASE holder # 0
  <2>1. PICK b : Fail(i, "over", b) /\ b \in {"running"} \cup Active \cup Terminal /\ UNCHANGED lock
    <3>1. holder # Sync => holder \in DOMAIN jobs
      BY <1>1, <1>3 DEF JobInv, Typed, JobRecord
    <3>2. holder # Sync => jobs[holder].status \in Active \cup Terminal
      BY <3>1, JobTyped DEF JobInv, JobRecord
    <3> QED
      BY <1>3, <3>2 DEF Acquire
  <2> DEFINE r == [jobs[i] EXCEPT !.status = "failed", !.at = "over", !.busy = b]
  <2>2. jobs' = [jobs EXCEPT ![i] = r] /\ Freed(i) /\ UNCHANGED <<kept, latest>>
    BY <2>1 DEF Fail
  <2>3. r \in JobRecord /\ r.chapter = jobs[i].chapter /\ r.status = "failed" /\ r.at = "over"
    BY <1>1, <2>1 DEF JobRecord, Active, Terminal
  <2> HIDE DEF r
  <2> QED
    BY <1>1, <2>1, <2>2, <2>3, EndStep DEF Inside, Terminal
<1> QED
  BY <1>2, <1>3

\* The lock file cannot be opened.
LEMMA AcquireRaisesStep == ASSUME JobInv, NEW i \in DOMAIN jobs, AcquireRaises(i) PROVE JobInv'
<1>1. jobs[i] \in JobRecord /\ jobs[i].at = "queued"
  BY JobTyped DEF JobInv, AcquireRaises
<1> DEFINE r == [jobs[i] EXCEPT !.at = "over"]
<1>2. r \in JobRecord /\ r.chapter = jobs[i].chapter /\ r.status = jobs[i].status /\ r.at = "over"
  BY <1>1 DEF JobRecord
<1>3. jobs' = [jobs EXCEPT ![i] = r] /\ UNCHANGED <<kept, latest, active, lock>>
  BY DEF AcquireRaises
<1> HIDE DEF r
<1>4. /\ jobs' \in Seq(JobRecord) /\ DOMAIN jobs' = DOMAIN jobs
      /\ \A k \in DOMAIN jobs : jobs'[k] = IF k = i THEN r ELSE jobs[k]
  BY <1>2, <1>3, Replace DEF JobInv
<1>5. \A k \in DOMAIN jobs :
        /\ jobs'[k].chapter = jobs[k].chapter /\ jobs'[k].status = jobs[k].status
        /\ jobs'[k].at \in Inside <=> jobs[k].at \in Inside
        /\ jobs'[k].at = "ending" => jobs[k].at = "ending"
        /\ jobs[k].at \in {"ending", "over"} => jobs'[k].at \in {"ending", "over"}
  BY <1>1, <1>2, <1>4 DEF Inside
<1>6. Typed'
  BY <1>3, <1>4 DEF JobInv, Typed
<1>7. ActiveExact' /\ HolderInside' /\ EndedWhenLeaving' /\ EarlierEnded'
  BY <1>3, <1>4, <1>5 DEF JobInv, ActiveExact, HolderInside, EndedWhenLeaving, EarlierEnded
<1>8. LatestOwn' /\ LatestKnown'
  BY <1>3, <1>4, <1>5 DEF JobInv, LatestOwn, LatestKnown, Typed
<1> QED
  BY <1>6, <1>7, <1>8 DEF JobInv

\* The job is running.
LEMMA SetRunningStep == ASSUME JobInv, NEW i \in DOMAIN jobs, SetRunning(i) PROVE JobInv'
<1>1. jobs[i] \in JobRecord /\ jobs[i].at = "locked"
  BY JobTyped DEF JobInv, SetRunning
<1>2. PICK S \in SUBSET jobs[i].pages :
        jobs' = [jobs EXCEPT ![i] =
                   [jobs[i] EXCEPT !.status = "running", !.at = "running", !.work = S]]
  BY DEF SetRunning
<1> DEFINE r == [jobs[i] EXCEPT !.status = "running", !.at = "running", !.work = S]
<1>3. r \in JobRecord /\ r.chapter = jobs[i].chapter /\ r.status = "running" /\ r.at = "running"
  BY <1>1, <1>2 DEF JobRecord, Active
<1>4. jobs' = [jobs EXCEPT ![i] = r] /\ UNCHANGED <<kept, latest, active, lock>>
  BY <1>2 DEF SetRunning
<1> HIDE DEF r
<1> QED
  BY <1>1, <1>3, <1>4, WorkStep DEF Active

\* A page is reported.
LEMMA PageDoneStep == ASSUME JobInv, NEW i \in DOMAIN jobs, PageDone(i) PROVE JobInv'
<1>1. jobs[i] \in JobRecord /\ jobs[i].at = "running"
  BY JobTyped DEF JobInv, PageDone
<1>2. PICK p \in jobs[i].work :
        jobs' = [jobs EXCEPT ![i] = [jobs[i] EXCEPT !.done = Append(jobs[i].done, p),
                                                    !.completed = jobs[i].completed + 1]]
  BY DEF PageDone
<1> DEFINE r == [jobs[i] EXCEPT !.done = Append(jobs[i].done, p),
                                !.completed = jobs[i].completed + 1]
<1>3. p \in Page /\ jobs[i].done \in Seq(Page) /\ jobs[i].completed + 1 \in Nat
  BY <1>1, <1>2 DEF JobRecord
<1>4. Append(jobs[i].done, p) \in Seq(Page)
  BY <1>3
<1>5. r \in JobRecord /\ r.chapter = jobs[i].chapter /\ r.status = jobs[i].status /\ r.at = "running"
  BY <1>1, <1>3, <1>4 DEF JobRecord
<1>6. jobs' = [jobs EXCEPT ![i] = r] /\ UNCHANGED <<kept, latest, active, lock>>
  BY <1>2 DEF PageDone
<1>7. jobs[i].status \in Active
  BY <1>1 DEF JobInv, EndedWhenLeaving, JobRecord
<1> HIDE DEF r
<1> QED
  BY <1>1, <1>5, <1>6, <1>7, WorkStep

\* The plan is done.
LEMMA PlanReturnsStep == ASSUME JobInv, NEW i \in DOMAIN jobs, PlanReturns(i) PROVE JobInv'
<1>1. jobs[i] \in JobRecord /\ jobs[i].at = "running"
  BY JobTyped DEF JobInv, PlanReturns
<1>2. Cardinality(jobs[i].pages) \in Nat
  BY <1>1, JobsAssumption, FS_Subset, FS_CardinalityType DEF JobRecord
<1> DEFINE r == [jobs[i] EXCEPT !.at = "ran", !.completed = Cardinality(jobs[i].pages)]
<1>3. r \in JobRecord /\ r.chapter = jobs[i].chapter /\ r.status = jobs[i].status /\ r.at = "ran"
  BY <1>1, <1>2 DEF JobRecord
<1>4. jobs' = [jobs EXCEPT ![i] = r] /\ UNCHANGED <<kept, latest, active, lock>>
  BY DEF PlanReturns
<1>5. jobs[i].status \in Active
  BY <1>1 DEF JobInv, EndedWhenLeaving, JobRecord
<1> HIDE DEF r
<1> QED
  BY <1>1, <1>3, <1>4, <1>5, WorkStep

\* It raises.
LEMMA PlanRaisesStep == ASSUME JobInv, NEW i \in DOMAIN jobs, PlanRaises(i) PROVE JobInv'
<1>1. jobs[i] \in JobRecord /\ jobs[i].at \in {"running", "ran"}
  BY JobTyped DEF JobInv, PlanRaises
<1> DEFINE r == [jobs[i] EXCEPT !.status = "failed", !.at = "ending", !.busy = "no"]
<1>2. r \in JobRecord /\ r.chapter = jobs[i].chapter /\ r.status = "failed" /\ r.at = "ending"
  BY <1>1 DEF JobRecord, Terminal
<1>3. jobs' = [jobs EXCEPT ![i] = r] /\ Freed(i) /\ UNCHANGED <<kept, latest, lock>>
  BY DEF PlanRaises, Fail
<1> HIDE DEF r
<1> QED
  BY <1>1, <1>2, <1>3, EndStep DEF Inside, Terminal

\* The job is completed.
LEMMA CompleteStep == ASSUME JobInv, NEW i \in DOMAIN jobs, CompleteJob(i) PROVE JobInv'
<1>1. jobs[i] \in JobRecord /\ jobs[i].at = "ran"
  BY JobTyped DEF JobInv, CompleteJob
<1> DEFINE r == [jobs[i] EXCEPT !.status = "completed", !.at = "ending"]
<1>2. r \in JobRecord /\ r.chapter = jobs[i].chapter /\ r.status = "completed" /\ r.at = "ending"
  BY <1>1 DEF JobRecord, Terminal
<1>3. jobs' = [jobs EXCEPT ![i] = r] /\ Freed(i) /\ UNCHANGED <<kept, latest, lock>>
  BY DEF CompleteJob
<1> HIDE DEF r
<1> QED
  BY <1>1, <1>2, <1>3, EndStep DEF Inside, Terminal

\* The lock is released.
LEMMA ReleaseStep == ASSUME JobInv, NEW i \in DOMAIN jobs, Release(i) PROVE JobInv'
<1>1. jobs[i] \in JobRecord /\ i \in Nat \ {0} /\ jobs[i].at = "ending"
  BY JobTyped DEF JobInv, Release
<1> DEFINE r == [jobs[i] EXCEPT !.at = "over"]
<1>2. r \in JobRecord /\ r.chapter = jobs[i].chapter /\ r.status = jobs[i].status /\ r.at = "over"
  BY <1>1 DEF JobRecord
<1>3. /\ jobs' = [jobs EXCEPT ![i] = r] /\ lock' = [lock EXCEPT ![jobs[i].chapter] = 0]
      /\ UNCHANGED <<kept, latest, active>>
  BY DEF Release
<1>4. lock[jobs[i].chapter] = i
  BY <1>1 DEF JobInv, HolderInside, Inside
<1> HIDE DEF r
<1> QED
  BY <1>1, <1>2, <1>3, <1>4, LockStep DEF Inside
-----------------------------------------------------------------------------
(* Starting a job. *)

\* Only ended jobs are dropped, and no ended job is kept that is older than a dropped one.
LEMMA PrunedOldestEnded ==
  ASSUME JobInv
  PROVE  /\ \A k \in Pruned : k \in kept /\ jobs[k].status \in Terminal
         /\ \A k \in Pruned, i \in kept :
              i < k /\ jobs[i].status \in Terminal => i \in Pruned
<1> DEFINE ended == {i \in kept : jobs[i].status \in Terminal}
           older(k) == {i \in ended : i < k}
<1>1. IsFiniteSet(kept) /\ kept \subseteq Nat
  <2>1. DOMAIN jobs = 1..Len(jobs) /\ Len(jobs) \in Nat /\ kept \subseteq DOMAIN jobs
    BY LenProperties DEF JobInv, Typed
  <2>2. IsFiniteSet(1..Len(jobs)) /\ kept \in SUBSET (1..Len(jobs))
    BY <2>1, FS_Interval
  <2>3. IsFiniteSet(kept)
    BY <2>2, FS_Subset
  <2> QED
    BY <2>1, <2>3
<1>2. Cardinality(kept) \in Nat
  BY <1>1, FS_CardinalityType
<1>3. \A k \in ended : IsFiniteSet(older(k)) /\ Cardinality(older(k)) \in Nat
  BY <1>1, FS_Subset, FS_CardinalityType
<1>4. Pruned = {k \in ended : Cardinality(kept) - Cardinality(older(k)) >= MaxRetained}
  BY DEF Pruned
<1>5. ASSUME NEW k \in Pruned, NEW i \in ended, i < k
      PROVE  i \in Pruned
  <2>1. k \in ended /\ Cardinality(kept) - Cardinality(older(k)) >= MaxRetained
    BY <1>4
  <2>2. older(i) \subseteq older(k)
    <3>1. i \in Nat /\ k \in Nat /\ ended \subseteq Nat
      BY <1>1, <2>1
    <3>2. \A x \in ended : x < i => x < k
      BY <1>5, <3>1
    <3> QED
      BY <3>2
  <2>3. Cardinality(older(i)) <= Cardinality(older(k))
    BY <1>3, <2>1, <2>2, FS_Subset
  <2>4. Cardinality(older(i)) \in Nat /\ Cardinality(older(k)) \in Nat
    BY <1>3, <2>1
  <2> HIDE DEF older
  <2>5. Cardinality(kept) - Cardinality(older(i)) >= MaxRetained
    BY <1>2, <2>1, <2>3, <2>4, JobsAssumption
  <2> QED
    BY <1>4, <2>5
<1> QED
  BY <1>4, <1>5

\* A job is started for a chapter that has none active.
LEMMA StartStep ==
  ASSUME JobInv, NEW c \in Chapter, NEW S \in SUBSET Page, active[c] = 0, StartNew(c, S),
         UNCHANGED lock
  PROVE  JobInv'
<1> DEFINE new == Len(jobs) + 1
           gone == Pruned
<1>1. /\ jobs \in Seq(JobRecord) /\ DOMAIN jobs = 1..Len(jobs) /\ Len(jobs) \in Nat
      /\ kept \subseteq DOMAIN jobs
  BY LenProperties DEF JobInv, Typed
<1>2. NewJob(c, S) \in JobRecord
  BY EmptySeq DEF NewJob, JobRecord, Active
<1>3. /\ jobs' \in Seq(JobRecord) /\ Len(jobs') = new
      /\ \A k \in 1..Len(jobs) : jobs'[k] = jobs[k]
      /\ jobs'[new] = NewJob(c, S)
  BY <1>1, <1>2, AppendProperties DEF StartNew
<1>4. DOMAIN jobs' = 1..new
  BY <1>3, LenProperties
<1>5. /\ DOMAIN jobs' = DOMAIN jobs \cup {new} /\ new \notin DOMAIN jobs /\ new \in Nat \ {0}
      /\ \A k \in DOMAIN jobs : jobs'[k] = jobs[k] /\ k < new /\ k \in Nat \ {0}
      /\ jobs'[new].chapter = c /\ jobs'[new].status = "pending" /\ jobs'[new].at = "queued"
  BY <1>1, <1>3, <1>4 DEF NewJob
<1>6. /\ kept' = (kept \ gone) \cup {new}
      /\ latest' = [DropLatest(gone) EXCEPT ![c] = new]
      /\ active' = [active EXCEPT ![c] = new]
  BY DEF StartNew
<1>7. /\ \A k \in gone : k \in kept /\ jobs[k].status \in Terminal
      /\ \A k \in gone, i \in kept : i < k /\ jobs[i].status \in Terminal => i \in gone
  BY PrunedOldestEnded
<1>8. /\ latest \in [Chapter -> Nat] /\ active \in [Chapter -> Nat]
      /\ lock \in [Chapter -> {Sync, 0} \cup DOMAIN jobs]
  BY DEF JobInv, Typed
<1>9. \A d \in Chapter :
        latest'[d] = IF d = c THEN new ELSE IF latest[d] \in gone THEN 0 ELSE latest[d]
  BY <1>6, <1>8 DEF DropLatest
<1>10. latest' \in [Chapter -> Nat]
  BY <1>5, <1>6, <1>8 DEF DropLatest
<1> HIDE DEF new, gone
<1>11. \A k \in DOMAIN jobs : jobs[k].status \in Active \cup Terminal /\ jobs[k].chapter \in Chapter
  BY JobTyped DEF JobInv, JobRecord
<1>12. \A k \in DOMAIN jobs : jobs[k].chapter = c => jobs[k].status \in Terminal
  BY <1>5, <1>11 DEF JobInv, ActiveExact
<1>13. Typed'
  BY <1>1, <1>3, <1>5, <1>6, <1>8, <1>10 DEF Typed
<1>14. ActiveExact'
  <2> SUFFICES ASSUME NEW k \in DOMAIN jobs'
               PROVE  jobs'[k].status \in Active <=> active'[jobs'[k].chapter] = k /\ k \in kept'
    BY DEF ActiveExact
  <2>1. CASE k = new
    BY <1>5, <1>6, <1>8, <2>1 DEF Active
  <2>2. CASE k # new /\ jobs'[k].chapter = c
    BY <1>5, <1>6, <1>8, <1>12, <2>2, Exclusive
  <2>3. CASE k # new /\ jobs'[k].chapter # c
    BY <1>5, <1>6, <1>7, <1>8, <1>11, <2>3, Exclusive DEF JobInv, ActiveExact
  <2> QED
    BY <2>1, <2>2, <2>3
<1>15. HolderInside'
  BY <1>5, <1>8, <1>11, SyncIsNoJob DEF JobInv, HolderInside, Inside
<1>16. EndedWhenLeaving'
  BY <1>5 DEF JobInv, EndedWhenLeaving, Terminal
<1>17. EarlierEnded'
  BY <1>5, <1>12 DEF JobInv, EarlierEnded
<1>18. LatestOwn'
  BY <1>5, <1>9 DEF JobInv, LatestOwn
<1>19. LatestKnown'
  <2> SUFFICES ASSUME NEW d \in Chapter
               PROVE  /\ latest'[d] # 0 => latest'[d] \in kept'
                      /\ \A i \in kept' : jobs'[i].chapter = d => i <= latest'[d]
    BY DEF LatestKnown
  <2>1. CASE d = c
    BY <1>1, <1>5, <1>6, <1>9, <2>1
  <2>2. CASE d # c /\ latest[d] \notin gone
    BY <1>1, <1>5, <1>6, <1>9, <2>2 DEF JobInv, LatestKnown
  <2>3. CASE d # c /\ latest[d] \in gone
    <3>1. latest[d] \in DOMAIN jobs /\ jobs[latest[d]].chapter = d
      BY <1>1, <1>7, <2>3, <1>5 DEF JobInv, LatestOwn
    <3>2. ASSUME NEW i \in kept', jobs'[i].chapter = d
          PROVE  FALSE
      <4>1. i \in kept /\ i \notin gone /\ jobs[i].chapter = d
        BY <1>1, <1>5, <1>6, <2>3, <3>2
      <4>2. i <= latest[d] /\ i # latest[d] /\ i \in DOMAIN jobs
        BY <1>1, <2>3, <4>1 DEF JobInv, LatestKnown
      <4>3. jobs[i].status \in Terminal
        BY <1>1, <3>1, <4>1, <4>2 DEF JobInv, EarlierEnded
      <4> QED
        BY <1>1, <1>7, <2>3, <3>1, <4>1, <4>2, <4>3
    <3> QED
      BY <1>9, <2>3, <3>2
  <2> QED
    BY <2>1, <2>2, <2>3
<1> QED
  BY <1>13, <1>14, <1>15, <1>16, <1>17, <1>18, <1>19 DEF JobInv
-----------------------------------------------------------------------------
(* The other actors. *)

\* A step that leaves the manager and the locks alone.
LEMMA ElsewhereStep == ASSUME JobInv, UNCHANGED <<manager, lock>> PROVE JobInv'
  BY DEF JobInv, manager, Typed, ActiveExact, HolderInside, EndedWhenLeaving, EarlierEnded,
         LatestOwn, LatestKnown

\* A user starts a job.
LEMMA UserStartStep == ASSUME JobInv, UserStart PROVE JobInv'
<1>1. PICK c \in Chapter : \E S \in SUBSET PagesOf[c] \ {{}} : active[c] = 0 /\ StartNew(c, S)
  BY DEF UserStart
<1>2. PICK S \in SUBSET PagesOf[c] : active[c] = 0 /\ StartNew(c, S)
  BY <1>1
<1>3. S \in SUBSET Page
  BY <1>2, JobsAssumption
<1> QED
  BY <1>2, <1>3, StartStep DEF UserStart

\* The A.I mode starts one, or is given one.
LEMMA AIStartStep == ASSUME JobInv, AIStart PROVE JobInv'
<1>1. PICK c \in Chapter : \E S \in SUBSET PagesOf[c] \ {{}} :
        (active[c] = 0 /\ StartNew(c, S)) \/ UNCHANGED manager
  BY DEF AIStart
<1>2. PICK S \in SUBSET PagesOf[c] : (active[c] = 0 /\ StartNew(c, S)) \/ UNCHANGED manager
  BY <1>1
<1>3. S \in SUBSET Page /\ UNCHANGED lock
  BY <1>2, JobsAssumption DEF AIStart
<1> QED
  BY <1>2, <1>3, StartStep, ElsewhereStep

\* A request takes or returns the lock of a chapter no job is inside of.
LEMMA SyncStep ==
  ASSUME JobInv, NEW c \in Chapter, SyncStart(c) \/ SyncEnd(c)
  PROVE  JobInv'
<1>1. PICK h \in {0, Sync} : lock' = [lock EXCEPT ![c] = h] /\ lock[c] \in {0, Sync}
  BY DEF SyncStart, SyncEnd
<1>2. UNCHANGED <<jobs, kept, latest, active>>
  BY DEF SyncStart, SyncEnd, manager
<1>3. lock \in [Chapter -> {Sync, 0} \cup DOMAIN jobs]
  BY DEF JobInv, Typed
<1>4. \A k \in DOMAIN jobs : k \in Nat \ {0} /\ jobs[k].chapter \in Chapter
  BY JobTyped DEF JobInv, JobRecord
<1>5. Typed'
  BY <1>1, <1>2, <1>3 DEF JobInv, Typed
<1>6. HolderInside'
  BY <1>1, <1>2, <1>3, <1>4, SyncIsNoJob DEF JobInv, HolderInside
<1> QED
  BY <1>2, <1>5, <1>6 DEF JobInv, ActiveExact, EndedWhenLeaving, EarlierEnded, LatestOwn, LatestKnown

\* Every step keeps the invariant.
LEMMA JobStep == JobInv /\ [Next]_vars => JobInv'
<1> SUFFICES ASSUME JobInv, [Next]_vars PROVE JobInv'
  OBVIOUS
<1>1. CASE UserStart \/ AIStart
  BY <1>1, UserStartStep, AIStartStep
<1>2. CASE AIPoll \/ Review
  BY <1>2, ElsewhereStep DEF AIPoll, Review
<1>3. ASSUME NEW i \in DOMAIN jobs, Thread(i)
      PROVE  JobInv'
  BY <1>3, AcquireStep, AcquireRaisesStep, SetRunningStep, PageDoneStep, PlanReturnsStep, PlanRaisesStep,
     CompleteStep, ReleaseStep DEF Thread
<1>4. ASSUME NEW c \in Chapter, SyncStart(c) \/ SyncEnd(c)
      PROVE  JobInv'
  BY <1>4, SyncStep
<1>5. CASE UNCHANGED vars
  BY <1>5, ElsewhereStep DEF vars
<1> QED
  BY <1>1, <1>2, <1>3, <1>4, <1>5 DEF Next

\* The invariant holds in every behaviour, fair or not.
LEMMA JobInvariance == Spec => []JobInv
  BY JobInit, JobStep, PTL DEF Spec
-----------------------------------------------------------------------------
\* The active job of a chapter is its one job that has not ended, and is never dropped
\* (page_processing_jobs.py:67-86, 224-238).
THEOREM ActiveIsExact == Spec => []ActiveExact
<1>1. JobInv => ActiveExact
  BY DEF JobInv
<1> QED
  BY <1>1, JobInvariance, PTL

\* At most one job, or one request, processes a chapter (page_processing_jobs.py:114).
THEOREM OneRunPerChapter == Spec => []OneRun
<1>1. JobInv => OneRun
  <2> SUFFICES ASSUME JobInv, NEW c \in Chapter
               PROVE  LET inside == {i \in DOMAIN jobs :
                                       jobs[i].chapter = c
                                       /\ jobs[i].at \in {"locked", "running", "ran", "ending"}}
                      IN  Cardinality(inside) <= (IF lock[c] = Sync THEN 0 ELSE 1)
    BY DEF OneRun
  <2> DEFINE inside == {i \in DOMAIN jobs :
                          jobs[i].chapter = c
                          /\ jobs[i].at \in {"locked", "running", "ran", "ending"}}
  <2>1. \A i \in inside : lock[c] = i /\ i \in Nat
    BY JobTyped DEF JobInv, HolderInside, Inside
  <2>2. CASE lock[c] = Sync
    <3>1. inside = {}
      BY <2>1, <2>2, SyncIsNoJob
    <3> QED
      BY <2>2, <3>1, FS_EmptySet
  <2>3. CASE lock[c] # Sync
    <3>1. inside \in SUBSET {lock[c]}
      BY <2>1
    <3> HIDE DEF inside
    <3>2. IsFiniteSet({lock[c]}) /\ Cardinality({lock[c]}) = 1
      BY FS_Singleton
    <3>3. Cardinality(inside) <= Cardinality({lock[c]})
      BY <3>1, <3>2, FS_Subset
    <3> QED
      BY <2>3, <3>2, <3>3 DEF inside
  <2> QED
    BY <2>2, <2>3
<1> QED
  BY <1>1, JobInvariance, PTL

\* A chapter points to its latest job, one that the manager still knows, or has none left
\* (page_processing_jobs.py:101, 237).
THEOREM LatestIsKnown == Spec => []LatestKnown
<1>1. JobInv => LatestKnown
  BY DEF JobInv
<1> QED
  BY <1>1, JobInvariance, PTL
-----------------------------------------------------------------------------
(* The pages of a job, and what the A.I review hears of them. *)

\* What InOrder keeps of a sequence: the members of S, once each if they were there once each.
LEMMA InOrderMembers ==
  ASSUME NEW P, NEW s \in Seq(P), NEW S
  PROVE  /\ InOrder(s, S) \in Seq(P)
         /\ ToSet(InOrder(s, S)) = ToSet(s) \cap S
         /\ IsInjective(s) => IsInjective(InOrder(s, S))
<1> DEFINE found == {i \in DOMAIN s : s[i] \in S}
           upto(i) == {j \in found : j <= i}
           rank == [i \in found |-> Cardinality(upto(i))]
           n == Cardinality(found)
           nth(k) == CHOOSE i \in found : Cardinality(upto(i)) = k
<1>1. /\ IsFiniteSet(found) /\ n \in Nat /\ found \subseteq Nat
      /\ \A i \in found : s[i] \in P
  <2>1. DOMAIN s = 1..Len(s) /\ Len(s) \in Nat /\ \A i \in 1..Len(s) : s[i] \in P
    BY LenProperties, ElementOfSeq
  <2>2. IsFiniteSet(1..Len(s)) /\ found \in SUBSET (1..Len(s))
    BY <2>1, FS_Interval
  <2>3. IsFiniteSet(found)
    BY <2>2, FS_Subset
  <2>4. n \in Nat
    BY <2>3, FS_CardinalityType
  <2> QED
    BY <2>1, <2>3, <2>4
<1>2. \A i \in found : IsFiniteSet(upto(i)) /\ Cardinality(upto(i)) \in 1..n
  <2> SUFFICES ASSUME NEW i \in found
               PROVE  IsFiniteSet(upto(i)) /\ Cardinality(upto(i)) \in 1..n
    OBVIOUS
  <2>1. upto(i) \in SUBSET found /\ i \in upto(i)
    BY <1>1
  <2> HIDE DEF found, upto
  <2>2. IsFiniteSet(upto(i)) /\ Cardinality(upto(i)) <= n
    BY <1>1, <2>1, FS_Subset
  <2>3. Cardinality(upto(i)) \in Nat /\ Cardinality(upto(i)) # 0
    BY <2>1, <2>2, FS_CardinalityType, FS_EmptySet
  <2> QED
    BY <1>1, <2>2, <2>3
<1>3. \A i, k \in found : i < k => Cardinality(upto(i)) # Cardinality(upto(k))
  <2> SUFFICES ASSUME NEW i \in found, NEW k \in found, i < k
               PROVE  Cardinality(upto(i)) # Cardinality(upto(k))
    OBVIOUS
  <2>1. upto(i) \in SUBSET upto(k) /\ k \in upto(k) /\ k \notin upto(i)
    BY <1>1
  <2> HIDE DEF found, upto
  <2> QED
    BY <1>2, <2>1, FS_Subset
<1>4. \A i, k \in found : Cardinality(upto(i)) = Cardinality(upto(k)) => i = k
  <2> HIDE DEF upto, found
  <2> QED
    BY <1>1, <1>3
<1>5. rank \in Injection(found, 1..n)
  <2> HIDE DEF upto, found, n
  <2>1. rank \in [found -> 1..n] /\ IsInjective(rank)
    BY <1>2, <1>4 DEF IsInjective
  <2> QED
    BY <2>1 DEF Injection
<1>6. \A k \in 1..n : \E i \in found : Cardinality(upto(i)) = k
  <2>1. IsFiniteSet(1..n) /\ Cardinality(1..n) = n
    BY <1>1, FS_Interval
  <2> HIDE DEF upto, found, n
  <2>2. rank \in Surjection(found, 1..n)
    <3> HIDE DEF rank
    <3> QED
      BY <1>5, <2>1, FS_Injection DEF n
  <2> QED
    BY <2>2 DEF Surjection
<1>7. \A k \in 1..n : nth(k) \in found /\ Cardinality(upto(nth(k))) = k
  <2> HIDE DEF upto, found, n
  <2> QED
    BY <1>6
<1>8. InOrder(s, S) = [k \in 1..n |-> s[nth(k)]]
  BY DEF InOrder
<1> HIDE DEF upto, nth, n
<1>9. InOrder(s, S) \in [1..n -> P]
  BY <1>1, <1>7, <1>8
<1>10. InOrder(s, S) \in Seq(P)
  BY <1>1, <1>9, SeqDef
<1>11. ToSet(InOrder(s, S)) = ToSet(s) \cap S
  <2>1. \A i \in found : Cardinality(upto(i)) \in 1..n /\ nth(Cardinality(upto(i))) = i
    <3> HIDE DEF found
    <3> QED
      BY <1>2, <1>4, <1>7
  <2>2. \A i \in found : \E k \in 1..n : InOrder(s, S)[k] = s[i]
    BY <1>8, <2>1
  <2>3. ToSet(InOrder(s, S)) = {s[nth(k)] : k \in 1..n}
    BY <1>8 DEF ToSet
  <2>4. \A x : x \in ToSet(s) \cap S <=> \E i \in found : x = s[i]
    BY DEF ToSet
  <2> HIDE DEF found
  <2> QED
    BY <1>7, <1>8, <2>2, <2>3, <2>4
<1>12. IsInjective(s) => IsInjective(InOrder(s, S))
  BY <1>7, <1>8 DEF IsInjective
<1> QED
  BY <1>10, <1>11, <1>12
-----------------------------------------------------------------------------
\* What a job has done is part of its plan, and counted.
Planned(r) ==
  /\ r.work \subseteq r.pages /\ ToSet(r.done) \subseteq r.work /\ IsInjective(r.done)
  /\ r.completed \in 0..Cardinality(r.pages)
  /\ r.at \in {"queued", "locked"} => r.done = <<>> /\ r.completed = 0
  /\ r.at = "running" => r.completed = Cardinality(ToSet(r.done))

\* A thread reports pages one by one, and nothing more of a job that has ended.
Follows(o, r) ==
  /\ r.done = o.done \/ (o.status \in Active /\ \E p \in Page : r.done = Append(o.done, p))
  /\ o.status \in Terminal => r.status \in Terminal

PlanOK == \A i \in DOMAIN jobs : Planned(jobs[i])
ActiveOwn == \A c \in Chapter : active[c] # 0 => active[c] \in DOMAIN jobs

\* The plan of a job is a finite set of pages.
LEMMA PlanFinite ==
  ASSUME NEW r \in JobRecord
  PROVE  /\ IsFiniteSet(r.pages) /\ Cardinality(r.pages) \in Nat
         /\ \A T \in SUBSET r.pages : IsFiniteSet(T) /\ Cardinality(T) \in 0..Cardinality(r.pages)
<1>1. IsFiniteSet(r.pages) /\ Cardinality(r.pages) \in Nat
  BY JobsAssumption, FS_Subset, FS_CardinalityType DEF JobRecord
<1> QED
  BY <1>1, FS_Subset, FS_CardinalityType

\* A page is added to those that are done.
LEMMA PageReported ==
  ASSUME NEW o \in JobRecord, Planned(o), o.at = "running", NEW p \in o.work \ ToSet(o.done)
  PROVE  /\ Append(o.done, p) \in Seq(Page)
         /\ ToSet(Append(o.done, p)) = ToSet(o.done) \cup {p}
         /\ IsInjective(Append(o.done, p))
         /\ o.completed + 1 \in 0..Cardinality(o.pages)
         /\ o.completed + 1 = Cardinality(ToSet(o.done) \cup {p})
<1> DEFINE d == Append(o.done, p)
<1>1. p \in Page /\ o.done \in Seq(Page) /\ Len(o.done) \in Nat /\ DOMAIN o.done = 1..Len(o.done)
  BY LenProperties DEF JobRecord
<1>2. /\ d \in Seq(Page) /\ DOMAIN d = 1..Len(o.done) + 1
      /\ \A i \in 1..Len(o.done) : d[i] = o.done[i]
      /\ d[Len(o.done) + 1] = p
  BY <1>1, AppendProperties, LenProperties
<1>3. ToSet(d) = ToSet(o.done) \cup {p}
  <2> HIDE DEF d
  <2> QED
    BY <1>1, <1>2 DEF ToSet
<1>4. IsInjective(d)
  <2>1. \A i \in DOMAIN o.done : o.done[i] # p
    BY DEF ToSet
  <2>2. \A a, b \in DOMAIN o.done : o.done[a] = o.done[b] => a = b
    BY DEF Planned, IsInjective
  <2> HIDE DEF d
  <2>3. \A a \in DOMAIN d : (a \in DOMAIN o.done /\ d[a] = o.done[a]) \/ (a = Len(o.done) + 1 /\ d[a] = p)
    BY <1>1, <1>2
  <2>4. \A a, b \in DOMAIN d : d[a] = d[b] => a = b
    BY <2>1, <2>2, <2>3
  <2> QED
    BY <2>4 DEF IsInjective
<1>5. /\ ToSet(o.done) \in SUBSET o.pages /\ ToSet(o.done) \cup {p} \in SUBSET o.pages
      /\ o.completed = Cardinality(ToSet(o.done))
  BY DEF Planned
<1>6. /\ IsFiniteSet(ToSet(o.done)) /\ Cardinality(ToSet(o.done)) \in Nat
      /\ Cardinality(o.pages) \in Nat
      /\ Cardinality(ToSet(o.done) \cup {p}) \in 0..Cardinality(o.pages)
  BY <1>5, PlanFinite
<1>7. Cardinality(ToSet(o.done) \cup {p}) = Cardinality(ToSet(o.done)) + 1
  BY <1>6, FS_AddElement
<1> QED
  BY <1>2, <1>3, <1>4, <1>5, <1>6, <1>7

\* Whatever the thread of a job does, it keeps to its plan.
LEMMA ThreadKeepsPlan ==
  ASSUME Typed, PlanOK, NEW i \in DOMAIN jobs, Thread(i), EndedWhenLeaving
  PROVE  \E r : jobs' = [jobs EXCEPT ![i] = r] /\ Planned(r) /\ Follows(jobs[i], r)
<1> DEFINE o == jobs[i]
<1>1. o \in JobRecord /\ Planned(o)
  BY JobTyped DEF PlanOK
<1>2. CASE Acquire(i) \/ AcquireRaises(i) \/ Release(i)
  <2>1. PICK r : /\ jobs' = [jobs EXCEPT ![i] = r]
                 /\ \/ r = [o EXCEPT !.at = "locked"] /\ o.at = "queued"
                    \/ \E b : r = [o EXCEPT !.status = "failed", !.at = "over", !.busy = b]
                    \/ r = [o EXCEPT !.at = "over"]
    <3>1. CASE Acquire(i) /\ lock[o.chapter] = 0
      <4>1. jobs' = [jobs EXCEPT ![i] = [o EXCEPT !.at = "locked"]] /\ o.at = "queued"
        BY <3>1 DEF Acquire
      <4> QED
        BY <4>1
    <3>2. CASE Acquire(i) /\ lock[o.chapter] # 0
      <4>1. PICK b : jobs' = [jobs EXCEPT ![i] = [o EXCEPT !.status = "failed", !.at = "over", !.busy = b]]
        BY <3>2 DEF Acquire, Fail
      <4> QED
        BY <4>1
    <3>3. CASE AcquireRaises(i) \/ Release(i)
      <4>1. jobs' = [jobs EXCEPT ![i] = [o EXCEPT !.at = "over"]]
        BY <3>3 DEF AcquireRaises, Release
      <4> QED
        BY <4>1
    <3> QED
      BY <1>2, <3>1, <3>2, <3>3
  <2>2. /\ r.work = o.work /\ r.pages = o.pages /\ r.done = o.done /\ r.completed = o.completed
        /\ r.at \in {"queued", "locked"} => o.at \in {"queued", "locked"}
        /\ r.at # "running" /\ (o.status \in Terminal => r.status \in Terminal)
    BY <1>1, <2>1 DEF JobRecord, Terminal
  <2>3. Planned(r) /\ Follows(o, r)
    BY <1>1, <2>2 DEF Planned, Follows
  <2> QED
    BY <2>1, <2>3
<1>3. CASE SetRunning(i)
  <2>1. PICK S \in SUBSET o.pages :
          jobs' = [jobs EXCEPT ![i] = [o EXCEPT !.status = "running", !.at = "running", !.work = S]]
    BY <1>3 DEF SetRunning
  <2> DEFINE r == [o EXCEPT !.status = "running", !.at = "running", !.work = S]
  <2>2. /\ r.work = S /\ r.pages = o.pages /\ r.done = <<>> /\ o.done = <<>>
        /\ r.completed = 0 /\ r.at = "running" /\ o.at = "locked" /\ IsInjective(r.done)
        /\ r.completed \in 0..Cardinality(r.pages)
    BY <1>1, <1>3 DEF SetRunning, Planned, JobRecord
  <2>3. o.status \notin Terminal
    BY <2>2 DEF EndedWhenLeaving
  <2> HIDE DEF r
  <2>4. ToSet(r.done) = {}
    BY <2>2 DEF ToSet
  <2>5. Planned(r) /\ Follows(o, r)
    BY <2>2, <2>3, <2>4, FS_EmptySet DEF Planned, Follows
  <2> QED
    BY <2>1, <2>5 DEF r
<1>4. CASE PageDone(i)
  <2>1. PICK p \in o.work \ ToSet(o.done) :
          jobs' = [jobs EXCEPT ![i] = [o EXCEPT !.done = Append(o.done, p),
                                                !.completed = o.completed + 1]]
    BY <1>4 DEF PageDone
  <2> DEFINE r == [o EXCEPT !.done = Append(o.done, p), !.completed = o.completed + 1]
  <2>2. o.at = "running" /\ p \in Page /\ o.status \in Active
    BY <1>1, <1>4, <2>1 DEF PageDone, JobRecord, EndedWhenLeaving
  <2>3. /\ r.work = o.work /\ r.pages = o.pages /\ r.at = "running"
        /\ r.done = Append(o.done, p) /\ r.completed = o.completed + 1 /\ r.status = o.status
    BY <1>1, <2>2 DEF JobRecord
  <2> HIDE DEF r
  <2>4. /\ ToSet(r.done) = ToSet(o.done) \cup {p} /\ IsInjective(r.done)
        /\ r.completed \in 0..Cardinality(r.pages) /\ r.completed = Cardinality(ToSet(r.done))
    <3> HIDE DEF o
    <3> QED
      BY <1>1, <2>2, <2>3, PageReported
  <2>5. Planned(r) /\ Follows(o, r)
    BY <1>1, <2>1, <2>2, <2>3, <2>4 DEF Planned, Follows
  <2> QED
    BY <2>1, <2>5 DEF r
<1>5. CASE PlanReturns(i)
  <2> DEFINE r == [o EXCEPT !.at = "ran", !.completed = Cardinality(o.pages)]
  <2>1. jobs' = [jobs EXCEPT ![i] = r]
    BY <1>5 DEF PlanReturns
  <2>2. /\ r.work = o.work /\ r.pages = o.pages /\ r.at = "ran" /\ r.done = o.done
        /\ r.completed = Cardinality(o.pages) /\ r.status = o.status
    BY <1>1 DEF JobRecord
  <2>3. Cardinality(o.pages) \in 0..Cardinality(o.pages)
    BY <1>1, PlanFinite
  <2> HIDE DEF r
  <2>4. Planned(r) /\ Follows(o, r)
    BY <1>1, <2>2, <2>3 DEF Planned, Follows
  <2> QED
    BY <2>1, <2>4
<1>6. CASE PlanRaises(i) \/ CompleteJob(i)
  <2>1. PICK r : /\ jobs' = [jobs EXCEPT ![i] = r]
                 /\ \/ r = [o EXCEPT !.status = "failed", !.at = "ending", !.busy = "no"]
                    \/ r = [o EXCEPT !.status = "completed", !.at = "ending"]
    BY <1>6 DEF PlanRaises, CompleteJob, Fail
  <2>2. /\ r.work = o.work /\ r.pages = o.pages /\ r.done = o.done /\ r.completed = o.completed
        /\ r.at = "ending" /\ r.status \in Terminal
    BY <1>1, <2>1 DEF JobRecord, Terminal
  <2>3. Planned(r) /\ Follows(o, r)
    BY <1>1, <2>2 DEF Planned, Follows
  <2> QED
    BY <2>1, <2>3
<1> QED
  BY <1>2, <1>3, <1>4, <1>5, <1>6 DEF Thread
-----------------------------------------------------------------------------
\* What any step may do to the jobs: the thread of one moves, or one more is created.
LEMMA JobsMove ==
  ASSUME Typed, PlanOK, EndedWhenLeaving, Next
  PROVE  \/ UNCHANGED jobs
         \/ \E i \in DOMAIN jobs : \E r :
              jobs' = [jobs EXCEPT ![i] = r] /\ Planned(r) /\ Follows(jobs[i], r)
         \/ \E c \in Chapter, S \in SUBSET Page : StartNew(c, S)
<1>1. CASE UserStart \/ AIStart
  <2>1. PICK c \in Chapter : \E S \in SUBSET PagesOf[c] : StartNew(c, S) \/ UNCHANGED manager
    BY <1>1 DEF UserStart, AIStart
  <2>2. PICK S \in SUBSET PagesOf[c] : StartNew(c, S) \/ UNCHANGED manager
    BY <2>1
  <2>3. S \in SUBSET Page
    BY <2>2, JobsAssumption
  <2> QED
    BY <2>2, <2>3 DEF manager
<1>2. CASE AIPoll \/ Review \/ \E c \in Chapter : SyncStart(c) \/ SyncEnd(c)
  BY <1>2 DEF AIPoll, Review, SyncStart, SyncEnd, manager
<1>3. ASSUME NEW i \in DOMAIN jobs, Thread(i)
      PROVE  \E r : jobs' = [jobs EXCEPT ![i] = r] /\ Planned(r) /\ Follows(jobs[i], r)
  BY <1>3, ThreadKeepsPlan
<1> QED
  BY <1>1, <1>2, <1>3 DEF Next

\* The job that is created, and the others beside it.
LEMMA Created ==
  ASSUME Typed, NEW c \in Chapter, NEW S \in SUBSET Page, StartNew(c, S)
  PROVE  /\ DOMAIN jobs' = DOMAIN jobs \cup {Len(jobs) + 1} /\ Len(jobs) + 1 \notin DOMAIN jobs
         /\ \A k \in DOMAIN jobs : jobs'[k] = jobs[k]
         /\ jobs'[Len(jobs) + 1] = NewJob(c, S)
<1>1. jobs \in Seq(JobRecord) /\ DOMAIN jobs = 1..Len(jobs) /\ Len(jobs) \in Nat
  BY LenProperties DEF Typed
<1>2. NewJob(c, S) \in JobRecord
  BY EmptySeq DEF NewJob, JobRecord, Active
<1>3. /\ jobs' \in Seq(JobRecord) /\ Len(jobs') = Len(jobs) + 1
      /\ \A k \in 1..Len(jobs) : jobs'[k] = jobs[k]
      /\ jobs'[Len(jobs) + 1] = NewJob(c, S)
  BY <1>1, <1>2, AppendProperties DEF StartNew
<1>4. DOMAIN jobs' = 1..Len(jobs) + 1
  BY <1>3, LenProperties
<1> QED
  BY <1>1, <1>3, <1>4

\* A new job has done nothing yet.
LEMMA NewIsPlanned ==
  ASSUME NEW c \in Chapter, NEW S \in SUBSET Page
  PROVE  Planned(NewJob(c, S))
<1>1. NewJob(c, S) \in JobRecord
  BY EmptySeq DEF NewJob, JobRecord, Active
<1>2. Cardinality(S) \in Nat
  BY <1>1, PlanFinite DEF NewJob
<1>3. ToSet(<<>>) = {} /\ IsInjective(<<>>)
  BY DEF ToSet, IsInjective
<1> QED
  BY <1>2, <1>3 DEF Planned, NewJob

LEMMA PlanStep ==
  ASSUME Typed, PlanOK, EndedWhenLeaving, [Next]_vars
  PROVE  PlanOK'
<1>1. CASE UNCHANGED jobs
  BY <1>1 DEF PlanOK
<1>2. ASSUME NEW i \in DOMAIN jobs, NEW r, jobs' = [jobs EXCEPT ![i] = r], Planned(r)
      PROVE  PlanOK'
  BY <1>2 DEF PlanOK
<1>3. ASSUME NEW c \in Chapter, NEW S \in SUBSET Page, StartNew(c, S)
      PROVE  PlanOK'
  BY <1>3, Created, NewIsPlanned DEF PlanOK
<1> QED
  BY <1>1, <1>2, <1>3, JobsMove DEF vars, manager

\* A chapter's active job is one that was created.
LEMMA ActiveOwnStep ==
  ASSUME Typed, ActiveOwn, [Next]_vars
  PROVE  ActiveOwn'
<1>1. active \in [Chapter -> Nat]
  BY DEF Typed
<1>2. ASSUME NEW c \in Chapter, NEW S \in SUBSET Page, StartNew(c, S)
      PROVE  ActiveOwn'
  <2>1. /\ DOMAIN jobs' = DOMAIN jobs \cup {Len(jobs) + 1}
        /\ active' = [active EXCEPT ![c] = Len(jobs) + 1]
    BY <1>2, Created DEF StartNew
  <2> QED
    BY <1>1, <2>1 DEF ActiveOwn
<1>3. ASSUME NEW i \in DOMAIN jobs, Freed(i), NEW r, jobs' = [jobs EXCEPT ![i] = r]
      PROVE  ActiveOwn'
  BY <1>1, <1>3 DEF ActiveOwn, Freed
<1>4. CASE UserStart \/ AIStart
  <2>1. PICK c \in Chapter : \E S \in SUBSET PagesOf[c] : StartNew(c, S) \/ UNCHANGED manager
    BY <1>4 DEF UserStart, AIStart
  <2>2. PICK S \in SUBSET PagesOf[c] : StartNew(c, S) \/ UNCHANGED manager
    BY <2>1
  <2>3. S \in SUBSET Page
    BY <2>2, JobsAssumption
  <2> QED
    BY <1>2, <2>2, <2>3 DEF manager, ActiveOwn
<1>5. CASE \/ UNCHANGED vars \/ AIPoll \/ Review
           \/ \E c \in Chapter : SyncStart(c) \/ SyncEnd(c)
  BY <1>5 DEF vars, AIPoll, Review, SyncStart, SyncEnd, manager, ActiveOwn
<1>6. ASSUME NEW i \in DOMAIN jobs, Thread(i)
      PROVE  ActiveOwn'
  <2>1. CASE (Acquire(i) /\ lock[jobs[i].chapter] # 0) \/ PlanRaises(i) \/ CompleteJob(i)
    BY <1>3, <2>1 DEF Acquire, PlanRaises, CompleteJob, Fail
  <2>2. CASE \/ (Acquire(i) /\ lock[jobs[i].chapter] = 0) \/ AcquireRaises(i)
             \/ SetRunning(i) \/ PageDone(i) \/ PlanReturns(i) \/ Release(i)
    BY <2>2 DEF Acquire, AcquireRaises, SetRunning, PageDone, PlanReturns, Release, ActiveOwn
  <2> QED
    BY <1>6, <2>1, <2>2 DEF Thread
<1> QED
  BY <1>4, <1>5, <1>6 DEF Next
-----------------------------------------------------------------------------
\* The review was handed, once each, the wanted ones of the first n pages the job has done.
Handed(q, n) ==
  /\ IsInjective(ai.reviewed \o q)
  /\ ToSet(ai.reviewed \o q) = ai.wanted \cap {jobs[ai.job].done[i] : i \in 1..n}

\* While it cleans, the run hands over what it has heard of; it ends with a job that has ended,
\* and the end follows the last page.
Cleaning ==
  /\ ai.job \in DOMAIN jobs /\ ai.review = "open" /\ ai.queue \in Seq(Page)
  /\ ai.fed \in 0..Len(jobs[ai.job].done) /\ Handed(ai.queue, ai.fed)

Cleaned ==
  /\ ai.job \in DOMAIN jobs /\ jobs[ai.job].status \in Terminal
  /\ \/ /\ ai.review = "open"
        /\ \E q \in Seq(Page) : ai.queue = Append(q, End) /\ Handed(q, Len(jobs[ai.job].done))
     \/ ai.review = "done" /\ Handed(<<>>, Len(jobs[ai.job].done))

AIInv ==
  /\ ai \in [at : {"idle", "clean", "over", "failed", "cancelled"}, wanted : SUBSET Page,
             job : Nat, fed : Nat, queue : Seq(Page \cup {End}),
             review : {"none", "open", "done", "cancelled"}, reviewed : Seq(Page)]
  /\ ai.at = "idle" => ai = NoAI
  /\ ai.at = "clean" => Cleaning
  /\ ai.at = "over" => Cleaned
  /\ ai.at \in {"failed", "cancelled"} => ai.review = "cancelled"

\* Nothing is handed over at first.
LEMMA NothingHanded ==
  /\ <<>> \in Seq(Page) /\ <<>> \o <<>> = <<>> /\ IsInjective(<<>>) /\ ToSet(<<>>) = {}
<1>1. <<>> \in Seq(Page)
  BY EmptySeq
<1>2. <<>> \o <<>> = <<>>
  BY <1>1, ConcatEmptySeq
<1> QED
  BY <1>1, <1>2 DEF ToSet, IsInjective

LEMMA AIInit == Init => AIInv
<1>1. NoAI \in [at : {"idle", "clean", "over", "failed", "cancelled"}, wanted : SUBSET Page,
                job : Nat, fed : Nat, queue : Seq(Page \cup {End}),
                review : {"none", "open", "done", "cancelled"}, reviewed : Seq(Page)]
  BY EmptySeq DEF NoAI
<1> QED
  BY <1>1 DEF Init, AIInv, NoAI

\* The pages a job has done stay done, in this order, and are all there are once it has ended.
LEMMA Grown ==
  ASSUME Typed, PlanOK, EndedWhenLeaving, [Next]_vars, NEW j \in DOMAIN jobs
  PROVE  /\ j \in DOMAIN jobs'
         /\ Len(jobs[j].done) \in Nat /\ Len(jobs'[j].done) \in Nat
         /\ Len(jobs[j].done) <= Len(jobs'[j].done)
         /\ \A i \in 1..Len(jobs[j].done) : jobs'[j].done[i] = jobs[j].done[i]
         /\ jobs[j].status \in Terminal =>
              jobs'[j].status \in Terminal /\ jobs'[j].done = jobs[j].done
<1> DEFINE o == jobs[j]
           r == jobs'[j]
<1>1. o.done \in Seq(Page) /\ Len(o.done) \in Nat
  BY JobTyped, LenProperties DEF JobRecord
<1>2. j \in DOMAIN jobs' /\ (r = o \/ Follows(o, r))
  <2>1. CASE UNCHANGED jobs
    BY <2>1
  <2>2. ASSUME NEW i \in DOMAIN jobs, NEW s, jobs' = [jobs EXCEPT ![i] = s], Follows(jobs[i], s)
        PROVE  j \in DOMAIN jobs' /\ (r = o \/ Follows(o, r))
    BY <2>2
  <2>3. ASSUME NEW c \in Chapter, NEW S \in SUBSET Page, StartNew(c, S)
        PROVE  j \in DOMAIN jobs' /\ (r = o \/ Follows(o, r))
    BY <2>3, Created
  <2> QED
    BY <2>1, <2>2, <2>3, JobsMove DEF vars, manager
<1>3. CASE r.done = o.done /\ (o.status \in Terminal => r.status \in Terminal)
  BY <1>1, <1>2, <1>3
<1>4. ASSUME NEW p \in Page, r.done = Append(o.done, p), o.status \in Active
      PROVE  /\ Len(r.done) = Len(o.done) + 1 /\ o.status \notin Terminal
             /\ \A i \in 1..Len(o.done) : r.done[i] = o.done[i]
  BY <1>1, <1>4, AppendProperties, Exclusive
<1> QED
  BY <1>1, <1>2, <1>3, <1>4 DEF Follows

\* A step of another actor.
LEMMA AIElsewhere ==
  ASSUME Typed, PlanOK, EndedWhenLeaving, AIInv, [Next]_vars, UNCHANGED ai
  PROVE  AIInv'
<1> DEFINE j == ai.job
<1>1. CASE ai.at = "clean"
  <2>1. j \in DOMAIN jobs /\ ai.fed \in 0..Len(jobs[j].done) /\ Handed(ai.queue, ai.fed)
    BY <1>1 DEF AIInv, Cleaning
  <2>2. /\ j \in DOMAIN jobs' /\ ai.fed \in 0..Len(jobs'[j].done)
        /\ \A i \in 1..ai.fed : jobs'[j].done[i] = jobs[j].done[i]
    BY <2>1, Grown
  <2>3. {jobs'[j].done[i] : i \in 1..ai.fed} = {jobs[j].done[i] : i \in 1..ai.fed}
    BY <2>2
  <2>4. Handed(ai.queue, ai.fed)'
    BY <2>1, <2>3 DEF Handed
  <2> QED
    BY <1>1, <2>2, <2>4 DEF AIInv, Cleaning
<1>2. CASE ai.at = "over"
  <2>1. j \in DOMAIN jobs /\ jobs[j].status \in Terminal
    BY <1>2 DEF AIInv, Cleaned
  <2>2. j \in DOMAIN jobs' /\ jobs'[j].status \in Terminal /\ jobs'[j].done = jobs[j].done
    BY <2>1, Grown
  <2>3. \A q, n : Handed(q, n) => Handed(q, n)'
    BY <2>2 DEF Handed
  <2> QED
    BY <1>2, <2>2, <2>3 DEF AIInv, Cleaned
<1>3. CASE ai.at \notin {"clean", "over"}
  BY <1>3 DEF AIInv
<1> QED
  BY <1>1, <1>2, <1>3

\* The clean stage starts a job, or is given the active one.
LEMMA AIStartHands ==
  ASSUME Typed, ActiveOwn, AIInv, AIStart
  PROVE  AIInv'
<1>1. PICK c \in Chapter : \E S \in SUBSET PagesOf[c] \ {{}} :
        /\ (active[c] = 0 /\ StartNew(c, S)) \/ (active[c] # 0 /\ UNCHANGED manager)
        /\ ai' = [ai EXCEPT !.at = "clean", !.wanted = S, !.job = active'[c], !.review = "open"]
  BY DEF AIStart
<1>2. PICK S \in SUBSET PagesOf[c] :
        /\ (active[c] = 0 /\ StartNew(c, S)) \/ (active[c] # 0 /\ UNCHANGED manager)
        /\ ai' = [ai EXCEPT !.at = "clean", !.wanted = S, !.job = active'[c], !.review = "open"]
  BY <1>1
<1>3. ai = NoAI /\ S \in SUBSET Page
  BY <1>2, JobsAssumption DEF AIInv, AIStart
<1>4. active'[c] \in DOMAIN jobs' /\ active'[c] \in Nat
  <2>1. CASE StartNew(c, S)
    <3>1. DOMAIN jobs' = DOMAIN jobs \cup {Len(jobs) + 1} /\ Len(jobs) + 1 \in Nat
      <4>1. Len(jobs) + 1 \in Nat
        BY LenProperties DEF Typed
      <4> QED
        BY <1>3, <2>1, <4>1, Created
    <3>2. active'[c] = Len(jobs) + 1
      BY <2>1 DEF StartNew, Typed
    <3> QED
      BY <3>1, <3>2
  <2>2. CASE active[c] # 0 /\ UNCHANGED manager
    BY <2>2 DEF manager, ActiveOwn, Typed
  <2> QED
    BY <1>2, <2>1, <2>2
<1>5. /\ ai'.at = "clean" /\ ai'.wanted = S /\ ai'.job = active'[c] /\ ai'.review = "open"
      /\ ai'.queue = <<>> /\ ai'.reviewed = <<>> /\ ai'.fed = 0
      /\ ai' \in [at : {"idle", "clean", "over", "failed", "cancelled"}, wanted : SUBSET Page,
                  job : Nat, fed : Nat, queue : Seq(Page \cup {End}),
                  review : {"none", "open", "done", "cancelled"}, reviewed : Seq(Page)]
  BY <1>2, <1>3, <1>4, EmptySeq DEF NoAI
<1>6. Len(jobs'[ai'.job].done) \in Nat
  <2>1. CASE StartNew(c, S)
    <3>1. jobs'[ai'.job] = NewJob(c, S)
      <4>1. active'[c] = Len(jobs) + 1
        BY <2>1 DEF StartNew, Typed
      <4> QED
        BY <1>3, <1>5, <2>1, <4>1, Created
    <3> QED
      BY <3>1, EmptySeq DEF NewJob
  <2>2. CASE active[c] # 0 /\ UNCHANGED manager
    <3>1. active[c] \in DOMAIN jobs /\ ai'.job = active[c] /\ jobs' = jobs
      BY <1>5, <2>2 DEF manager, ActiveOwn
    <3>2. jobs[active[c]].done \in Seq(Page)
      BY <3>1, JobTyped DEF JobRecord
    <3> QED
      BY <3>1, <3>2, LenProperties
  <2> QED
    BY <1>2, <2>1, <2>2
<1>7. Handed(<<>>, 0)'
  <2>1. {jobs'[ai'.job].done[i] : i \in 1..0} = {}
    OBVIOUS
  <2> QED
    BY <1>5, <2>1, NothingHanded DEF Handed
<1>8. Cleaning'
  BY <1>4, <1>5, <1>6, <1>7, NothingHanded DEF Cleaning
<1> QED
  BY <1>5, <1>8 DEF AIInv

\* Two sequences without repetitions that share no member, one after the other.
LEMMA JoinApart ==
  ASSUME NEW P, NEW s \in Seq(P), NEW t \in Seq(P), IsInjective(s), IsInjective(t),
         ToSet(s) \cap ToSet(t) = {}
  PROVE  /\ IsInjective(s \o t)
         /\ ToSet(s \o t) = ToSet(s) \cup ToSet(t)
<1> DEFINE m == Len(s)
           n == Len(t)
           u == s \o t
<1>1. m \in Nat /\ DOMAIN s = 1..m /\ n \in Nat /\ DOMAIN t = 1..n
  BY LenProperties
<1>2. DOMAIN u = 1..m + n /\ \A i \in 1..m + n : u[i] = IF i <= m THEN s[i] ELSE t[i - m]
  <2>1. u \in Seq(P) /\ Len(u) = m + n
    BY ConcatProperties
  <2> QED
    BY <2>1, ConcatProperties, LenProperties
<1> HIDE DEF m, n, u
<1>3. /\ m \in Nat /\ n \in Nat /\ DOMAIN u = 1..m + n
      /\ \A i \in 1..m : i \in DOMAIN u /\ u[i] = s[i]
      /\ \A i \in 1..n : m + i \in DOMAIN u /\ u[m + i] = t[i]
      /\ \A k \in DOMAIN u : \/ k \in 1..m /\ u[k] = s[k]
                             \/ \E i \in 1..n : k = m + i /\ u[k] = t[i]
  <2>1. \A i \in 1..n : m + i \in 1..m + n /\ ~(m + i <= m) /\ (m + i) - m = i
    BY <1>1
  <2>2. \A k \in 1..m + n : k \in 1..m \/ (k - m \in 1..n /\ k = m + (k - m) /\ ~(k <= m))
    BY <1>1
  <2> QED
    BY <1>1, <1>2, <2>1, <2>2
<1>4. /\ \A a, b \in 1..m : s[a] = s[b] => a = b
      /\ \A a, b \in 1..n : t[a] = t[b] => a = b
      /\ \A a \in 1..m, b \in 1..n : s[a] # t[b]
  BY <1>1 DEF IsInjective, ToSet
<1>5. ToSet(s) = {s[i] : i \in 1..m} /\ ToSet(t) = {t[i] : i \in 1..n}
  BY <1>1 DEF ToSet
<1>6. IsInjective(u)
  BY <1>3, <1>4 DEF IsInjective
<1>7. ToSet(u) = ToSet(s) \cup ToSet(t)
  <2>1. \A x : (\E k \in DOMAIN u : x = u[k]) <=> (\E i \in 1..m : x = s[i]) \/ (\E i \in 1..n : x = t[i])
    BY <1>3
  <2>2. \A x : x \in ToSet(u) <=> \E k \in DOMAIN u : x = u[k]
    BY DEF ToSet
  <2>3. /\ \A x : x \in ToSet(s) <=> \E i \in 1..m : x = s[i]
        /\ \A x : x \in ToSet(t) <=> \E i \in 1..n : x = t[i]
    BY <1>5
  <2> QED
    BY <2>1, <2>2, <2>3, Zenon
<1> QED
  BY <1>6, <1>7 DEF u

\* Concatenation may be grouped either way.
LEMMA Grouping == \A r, s, t \in Seq(Page) : r \o (s \o t) = (r \o s) \o t
<1> SUFFICES ASSUME NEW r \in Seq(Page), NEW s \in Seq(Page), NEW t \in Seq(Page)
             PROVE  r \o (s \o t) = (r \o s) \o t
  OBVIOUS
<1> QED
  BY ConcatAssociative

\* The pages a poll hears of are handed over, and are others than those before.
LEMMA HeardOf ==
  ASSUME Typed, PlanOK, AIInv, Cleaning
  PROVE  LET d == jobs[ai.job].done
             news == InOrder(SubSeq(d, ai.fed + 1, Len(d)), ai.wanted)
         IN  news \in Seq(Page) /\ ai.queue \o news \in Seq(Page) /\ Handed(ai.queue \o news, Len(d))
<1> DEFINE d == jobs[ai.job].done
           late == SubSeq(d, ai.fed + 1, Len(d))
           news == InOrder(late, ai.wanted)
           f == ai.fed
           n == Len(d)
<1>1. /\ d \in Seq(Page) /\ n \in Nat /\ DOMAIN d = 1..n /\ f \in 0..n
      /\ IsInjective(d)
  BY JobTyped, LenProperties DEF JobRecord, Cleaning, PlanOK, Planned
<1>2. \A i \in 1..n : d[i] \in Page
  BY <1>1, ElementOfSeq
<1>3. /\ late \in Seq(Page) /\ Len(late) = n - f
      /\ \A i \in 1..n - f : late[i] = d[f + i]
  <2>1. \A i \in f + 1..n : d[i] \in Page
    BY <1>1, <1>2
  <2>2. f + 1 \in Int /\ n \in Int
    BY <1>1
  <2> HIDE DEF d, f, n
  <2>3. /\ SubSeq(d, f + 1, n) \in Seq(Page)
        /\ Len(SubSeq(d, f + 1, n)) = IF f + 1 <= n THEN n - (f + 1) + 1 ELSE 0
        /\ \A i \in 1..n - (f + 1) + 1 : SubSeq(d, f + 1, n)[i] = d[(f + 1) + i - 1]
    BY <2>1, <2>2, SubSeqProperties
  <2>4. n - (f + 1) + 1 = n - f /\ (f + 1 <= n \/ n - f = 0)
    BY <1>1
  <2>5. \A i \in 1..n - f : (f + 1) + i - 1 = f + i
    BY <1>1
  <2>6. late = SubSeq(d, f + 1, n)
    BY DEF f, n
  <2> QED
    BY <2>3, <2>4, <2>5, <2>6
<1>4. DOMAIN late = 1..n - f
  BY <1>3, LenProperties
<1>5. \A a, b \in 1..n : d[a] = d[b] => a = b
  BY <1>1 DEF IsInjective
<1>6. \A i \in 1..n - f : f + i \in 1..n /\ f + i \notin 1..f
  BY <1>1
<1>7. IsInjective(late)
  <2>1. \A a, b \in 1..n - f : f + a = f + b => a = b
    BY <1>1
  <2> HIDE DEF d, late, f, n
  <2> QED
    BY <1>3, <1>4, <1>5, <1>6, <2>1 DEF IsInjective
<1>8. ToSet(late) = {d[i] : i \in f + 1..n}
  <2>1. \A i \in f + 1..n : i - f \in 1..n - f /\ f + (i - f) = i
    BY <1>1
  <2>2. \A i \in 1..n - f : f + i \in f + 1..n
    BY <1>1
  <2> HIDE DEF d, late, f, n
  <2> QED
    BY <1>3, <1>4, <2>1, <2>2 DEF ToSet
<1>9. /\ news \in Seq(Page) /\ IsInjective(news)
      /\ ToSet(news) = {d[i] : i \in f + 1..n} \cap ai.wanted
  <2> HIDE DEF late
  <2> QED
    BY <1>3, <1>7, <1>8, InOrderMembers
<1> HIDE DEF d, late, news, f, n
<1>10. /\ ai.reviewed \in Seq(Page) /\ ai.queue \in Seq(Page)
       /\ IsInjective(ai.reviewed \o ai.queue)
       /\ ToSet(ai.reviewed \o ai.queue) = ai.wanted \cap {d[i] : i \in 1..f}
  BY DEF AIInv, Cleaning, Handed, d, f
<1>11. /\ ai.queue \o news \in Seq(Page) /\ ai.reviewed \o ai.queue \in Seq(Page)
       /\ ai.reviewed \o (ai.queue \o news) = (ai.reviewed \o ai.queue) \o news
  <2>1. ai.queue \o news \in Seq(Page)
    BY <1>9, <1>10, ConcatProperties
  <2>2. ai.reviewed \o ai.queue \in Seq(Page)
    BY <1>10, ConcatProperties
  <2>3. ai.reviewed \o (ai.queue \o news) = (ai.reviewed \o ai.queue) \o news
    <3>1. ai.reviewed \in Seq(Page) /\ ai.queue \in Seq(Page) /\ news \in Seq(Page)
      BY <1>9, <1>10
    <3> QED
      BY <3>1, Grouping
  <2> QED
    BY <2>1, <2>2, <2>3
<1>12. 1..f \subseteq 1..n /\ 1..n = (1..f) \cup (f + 1..n) /\ (1..f) \cap (f + 1..n) = {}
  BY <1>1
<1>13. {d[i] : i \in 1..f} \cap {d[i] : i \in f + 1..n} = {}
  BY <1>5, <1>12
<1>14. /\ IsInjective((ai.reviewed \o ai.queue) \o news)
       /\ ToSet((ai.reviewed \o ai.queue) \o news)
            = ToSet(ai.reviewed \o ai.queue) \cup ToSet(news)
  <2>1. ToSet(ai.reviewed \o ai.queue) \cap ToSet(news) = {}
    BY <1>9, <1>10, <1>13
  <2> DEFINE before == ai.reviewed \o ai.queue
  <2>2. /\ before \in Seq(Page) /\ news \in Seq(Page) /\ IsInjective(before) /\ IsInjective(news)
        /\ ToSet(before) \cap ToSet(news) = {}
    BY <1>9, <1>10, <1>11, <2>1
  <2> HIDE DEF before
  <2>3. IsInjective(before \o news) /\ ToSet(before \o news) = ToSet(before) \cup ToSet(news)
    BY <2>2, JoinApart
  <2> QED
    BY <2>3 DEF before
<1>15. ToSet(ai.reviewed \o ai.queue) \cup ToSet(news) = ai.wanted \cap {d[i] : i \in 1..n}
  BY <1>9, <1>10, <1>12
<1>16. Handed(ai.queue \o news, n)
  BY <1>11, <1>14, <1>15 DEF Handed, d
<1> QED
  BY <1>9, <1>11, <1>16 DEF d, late, news, f, n

\* A poll.
LEMMA PollHands ==
  ASSUME Typed, PlanOK, AIInv, AIPoll
  PROVE  AIInv'
<1> DEFINE d == jobs[ai.job].done
           news == InOrder(SubSeq(d, ai.fed + 1, Len(d)), ai.wanted)
           q == ai.queue \o news
<1>1. ai.at = "clean" /\ Cleaning /\ UNCHANGED manager
  BY DEF AIPoll, AIInv
<1>2. q \in Seq(Page) /\ Handed(q, Len(d)) /\ Len(d) \in Nat
  <2>1. Len(d) \in Nat
    BY <1>1, JobTyped, LenProperties DEF Cleaning, JobRecord
  <2> QED
    BY <1>1, <2>1, HeardOf
<1>3. q \in Seq(Page \cup {End}) /\ Append(q, End) \in Seq(Page \cup {End})
  <2>1. q \in Seq(Page \cup {End})
    <3> HIDE DEF q
    <3> QED
      BY <1>2, SeqMonotonic
  <2> HIDE DEF q
  <2> QED
    BY <2>1, AppendProperties
<1>4. /\ jobs' = jobs /\ ai.job \in DOMAIN jobs /\ ai.review = "open"
      /\ ai \in [at : {"idle", "clean", "over", "failed", "cancelled"}, wanted : SUBSET Page,
                 job : Nat, fed : Nat, queue : Seq(Page \cup {End}),
                 review : {"none", "open", "done", "cancelled"}, reviewed : Seq(Page)]
  BY <1>1 DEF manager, Cleaning, AIInv
<1>5. \/ ai' = Leaves("failed") \/ ai' = Leaves("cancelled")
      \/ ai' = [ai EXCEPT !.queue = q, !.fed = Len(d)]
      \/ /\ ai' = [ai EXCEPT !.queue = Append(q, End), !.fed = Len(d), !.at = "over"]
         /\ jobs[ai.job].status = "completed"
  <2> DEFINE heard == [ai EXCEPT !.queue = q, !.fed = Len(d)]
  <2>1. \/ ai' = Leaves("failed") \/ ai' = Leaves("cancelled") \/ ai' = heard
        \/ /\ ai' = [heard EXCEPT !.at = "over", !.queue = Append(heard.queue, End)]
           /\ jobs[ai.job].status = "completed"
    BY DEF AIPoll
  <2>2. [heard EXCEPT !.at = "over", !.queue = Append(heard.queue, End)]
          = [ai EXCEPT !.queue = Append(q, End), !.fed = Len(d), !.at = "over"]
    <3> HIDE DEF q, d
    <3> QED
      BY <1>4
  <2> QED
    BY <2>1, <2>2
<1>6. PICK p, n : p = q /\ n = Len(d)
  OBVIOUS
<1>7. /\ p \in Seq(Page) /\ n \in Nat /\ Handed(p, n) /\ n = Len(jobs[ai.job].done)
      /\ p \in Seq(Page \cup {End}) /\ Append(p, End) \in Seq(Page \cup {End})
  BY <1>2, <1>3, <1>6
<1>8. \/ ai' = Leaves("failed") \/ ai' = Leaves("cancelled")
      \/ ai' = [ai EXCEPT !.queue = p, !.fed = n]
      \/ /\ ai' = [ai EXCEPT !.queue = Append(p, End), !.fed = n, !.at = "over"]
         /\ jobs[ai.job].status = "completed"
  BY <1>5, <1>6
<1> HIDE DEF q, news, d
<1>9. CASE ai' = Leaves("failed") \/ ai' = Leaves("cancelled")
  BY <1>4, <1>9 DEF Leaves, AIInv
<1>10. CASE ai' = [ai EXCEPT !.queue = p, !.fed = n]
  <2>1. /\ ai'.queue = p /\ ai'.fed = n /\ ai'.at = "clean" /\ ai'.job = ai.job
        /\ ai'.review = "open" /\ ai'.reviewed = ai.reviewed /\ ai'.wanted = ai.wanted
    BY <1>1, <1>4, <1>10
  <2>2. Handed(p, n)'
    BY <1>4, <1>7, <2>1 DEF Handed
  <2>3. Handed(ai.queue, ai.fed)'
    BY <2>1, <2>2 DEF Handed
  <2>4. Cleaning'
    BY <1>4, <1>7, <2>1, <2>3 DEF Cleaning
  <2>5. ai' \in [at : {"idle", "clean", "over", "failed", "cancelled"}, wanted : SUBSET Page,
                 job : Nat, fed : Nat, queue : Seq(Page \cup {End}),
                 review : {"none", "open", "done", "cancelled"}, reviewed : Seq(Page)]
    BY <1>4, <1>7, <1>10
  <2> QED
    BY <2>1, <2>4, <2>5 DEF AIInv
<1>11. CASE /\ ai' = [ai EXCEPT !.queue = Append(p, End), !.fed = n, !.at = "over"]
            /\ jobs[ai.job].status = "completed"
  <2>1. /\ ai'.queue = Append(p, End) /\ ai'.at = "over" /\ ai'.job = ai.job
        /\ ai'.review = "open" /\ ai'.reviewed = ai.reviewed /\ ai'.wanted = ai.wanted
    BY <1>1, <1>4, <1>11
  <2>2. Handed(p, n)'
    BY <1>4, <1>7, <2>1 DEF Handed
  <2>3. Handed(p, Len(jobs[ai.job].done))'
    BY <1>4, <1>7, <2>1, <2>2
  <2>4. Cleaned'
    BY <1>4, <1>7, <1>11, <2>1, <2>3 DEF Cleaned, Terminal
  <2>5. ai' \in [at : {"idle", "clean", "over", "failed", "cancelled"}, wanted : SUBSET Page,
                 job : Nat, fed : Nat, queue : Seq(Page \cup {End}),
                 review : {"none", "open", "done", "cancelled"}, reviewed : Seq(Page)]
    BY <1>4, <1>7, <1>11
  <2> QED
    BY <2>1, <2>4, <2>5 DEF AIInv
<1> QED
  BY <1>8, <1>9, <1>10, <1>11

\* The first of what waits follows the last of what was seen.
LEMMA SeeNext ==
  ASSUME NEW r \in Seq(Page), NEW q \in Seq(Page), q # <<>>
  PROVE  /\ Head(q) \in Page /\ Tail(q) \in Seq(Page) /\ Append(r, Head(q)) \in Seq(Page)
         /\ Append(r, Head(q)) \o Tail(q) = r \o q
<1>1. Head(q) \in Page /\ Tail(q) \in Seq(Page) /\ Len(q) \in Nat \ {0} /\ Head(q) = q[1]
  BY HeadTailProperties, EmptySeq
<1>2. Append(r, Head(q)) \in Seq(Page)
  BY <1>1, AppendProperties
<1>3. Append(r, Head(q)) = r \o <<Head(q)>>
  BY <1>1, AppendIsConcat
<1>4. <<Head(q)>> \in Seq(Page)
  BY <1>1
<1>5. q = <<Head(q)>> \o Tail(q)
  <2>1. SubSeq(q, 1, Len(q)) = q /\ Tail(q) = SubSeq(q, 2, Len(q))
    BY SubSeqFull, TailIsSubSeq
  <2>2. SubSeq(q, 1, Len(q)) = <<q[1]>> \o SubSeq(q, 1 + 1, Len(q))
    BY <1>1, SubSeqRecursiveFirst
  <2> QED
    BY <1>1, <2>1, <2>2
<1>6. r \o (<<Head(q)>> \o Tail(q)) = (r \o <<Head(q)>>) \o Tail(q)
  BY <1>1, <1>4, Grouping
<1> QED
  BY <1>1, <1>2, <1>3, <1>5, <1>6

\* Seeing the next page of what waits hands nothing over and takes nothing back.
LEMMA Seen ==
  ASSUME AIInv, NEW q \in Seq(Page), q # <<>>, NEW rest, rest = Tail(q), NEW n, Handed(q, n),
         UNCHANGED manager, ai'.job = ai.job, ai'.wanted = ai.wanted,
         ai'.reviewed = Append(ai.reviewed, Head(q))
  PROVE  Handed(rest, n)'
<1>1. ai.reviewed \in Seq(Page)
  BY DEF AIInv
<1>2. ai'.reviewed \o rest = ai.reviewed \o q
  BY <1>1, SeeNext
<1>3. jobs' = jobs
  BY DEF manager
<1> QED
  BY <1>2, <1>3 DEF Handed

\* The review takes the next page, or the end.
LEMMA ReviewHands ==
  ASSUME Typed, AIInv, Review
  PROVE  AIInv'
<1>1. /\ ai.review = "open" /\ ai.queue # <<>> /\ jobs' = jobs /\ UNCHANGED manager
      /\ ai' = IF Head(ai.queue) = End
               THEN [ai EXCEPT !.queue = Tail(@), !.review = "done"]
               ELSE [ai EXCEPT !.queue = Tail(@), !.reviewed = Append(@, Head(ai.queue))]
  BY DEF Review, manager
<1>2. /\ ai \in [at : {"idle", "clean", "over", "failed", "cancelled"}, wanted : SUBSET Page,
                 job : Nat, fed : Nat, queue : Seq(Page \cup {End}),
                 review : {"none", "open", "done", "cancelled"}, reviewed : Seq(Page)]
      /\ ai.at = "clean" \/ ai.at = "over"
  BY <1>1 DEF AIInv, NoAI
<1>3. Tail(ai.queue) \in Seq(Page \cup {End})
  BY <1>1, <1>2, HeadTailProperties
<1>4. End \notin Page
  BY JobsAssumption DEF End
<1>5. ASSUME NEW q \in Seq(Page), q # <<>>, NEW rest, rest = Tail(q), Head(ai.queue) = Head(q)
      PROVE  /\ Head(ai.queue) \in Page /\ rest \in Seq(Page)
             /\ ai' = [ai EXCEPT !.queue = Tail(@), !.reviewed = Append(@, Head(q))]
             /\ ai' \in [at : {"idle", "clean", "over", "failed", "cancelled"}, wanted : SUBSET Page,
                         job : Nat, fed : Nat, queue : Seq(Page \cup {End}),
                         review : {"none", "open", "done", "cancelled"}, reviewed : Seq(Page)]
             /\ ai'.at = ai.at /\ ai'.job = ai.job /\ ai'.wanted = ai.wanted /\ ai'.fed = ai.fed
             /\ ai'.review = "open" /\ ai'.queue = Tail(ai.queue)
             /\ ai'.reviewed = Append(ai.reviewed, Head(q))
  <2>1. Head(q) \in Page /\ Tail(q) \in Seq(Page) /\ Append(ai.reviewed, Head(q)) \in Seq(Page)
    BY <1>2, <1>5, SeeNext
  <2>2. ai' = [ai EXCEPT !.queue = Tail(@), !.reviewed = Append(@, Head(q))]
    BY <1>1, <1>4, <1>5, <2>1
  <2> QED
    BY <1>1, <1>2, <1>3, <1>5, <2>1, <2>2
<1>6. CASE ai.at = "clean"
  <2>1. ai.job \in DOMAIN jobs /\ ai.queue \in Seq(Page) /\ ai.fed \in 0..Len(jobs[ai.job].done)
        /\ Handed(ai.queue, ai.fed)
    BY <1>6 DEF AIInv, Cleaning
  <2>2. PICK q, rest, n : q = ai.queue /\ rest = Tail(ai.queue) /\ n = ai.fed
    OBVIOUS
  <2>3. q \in Seq(Page) /\ q # <<>> /\ rest = Tail(q) /\ Head(ai.queue) = Head(q) /\ Handed(q, n)
    BY <1>1, <2>1, <2>2
  <2>4. Handed(rest, n)'
    BY <1>1, <1>5, <2>3, Seen
  <2>5. ai'.queue = rest /\ ai'.fed = n /\ rest \in Seq(Page)
    BY <1>5, <2>2, <2>3
  <2>6. Handed(ai.queue, ai.fed)'
    BY <2>4, <2>5 DEF Handed
  <2>7. Cleaning'
    BY <1>1, <1>5, <2>1, <2>3, <2>5, <2>6 DEF Cleaning
  <2> QED
    BY <1>5, <1>6, <2>3, <2>7 DEF AIInv
<1>7. CASE ai.at = "over"
  <2>1. PICK n : n = Len(jobs[ai.job].done)
    OBVIOUS
  <2>2. PICK q \in Seq(Page) : ai.queue = Append(q, End) /\ Handed(q, n)
    BY <1>1, <1>7, <2>1 DEF AIInv, Cleaned
  <2>3. ai.job \in DOMAIN jobs /\ jobs[ai.job].status \in Terminal
    BY <1>7 DEF AIInv, Cleaned
  <2>4. /\ Head(ai.queue) = IF q = <<>> THEN End ELSE Head(q)
        /\ Tail(ai.queue) = IF q = <<>> THEN <<>> ELSE Append(Tail(q), End)
    BY <2>2, HeadTailAppend
  <2>5. CASE q = <<>>
    <3>1. ai' = [ai EXCEPT !.queue = Tail(@), !.review = "done"]
      BY <1>1, <2>4, <2>5
    <3>2. Handed(<<>>, n)
      BY <2>2, <2>5
    <3>3. /\ ai'.review = "done" /\ ai'.at = "over" /\ ai'.job = ai.job
          /\ ai'.reviewed = ai.reviewed /\ ai'.wanted = ai.wanted
      BY <1>2, <1>7, <3>1
    <3>4. Handed(<<>>, n)'
      BY <1>1, <3>2, <3>3 DEF Handed
    <3>5. Handed(<<>>, Len(jobs[ai.job].done))'
      BY <1>1, <2>1, <3>3, <3>4 DEF Handed
    <3>6. Cleaned'
      BY <1>1, <2>3, <3>3, <3>5 DEF Cleaned
    <3>7. ai' \in [at : {"idle", "clean", "over", "failed", "cancelled"}, wanted : SUBSET Page,
                   job : Nat, fed : Nat, queue : Seq(Page \cup {End}),
                   review : {"none", "open", "done", "cancelled"}, reviewed : Seq(Page)]
      BY <1>2, <1>3, <3>1
    <3> QED
      BY <3>3, <3>6, <3>7 DEF AIInv
  <2>6. CASE q # <<>>
    <3>1. PICK rest : rest = Tail(q)
      OBVIOUS
    <3>2. Head(ai.queue) = Head(q) /\ Tail(ai.queue) = Append(rest, End)
      BY <2>4, <2>6, <3>1
    <3>3. /\ rest \in Seq(Page) /\ ai'.queue = Append(rest, End) /\ ai'.review = "open"
          /\ ai'.at = "over" /\ ai'.job = ai.job /\ ai'.wanted = ai.wanted
          /\ ai'.reviewed = Append(ai.reviewed, Head(q))
      BY <1>5, <1>7, <2>6, <3>1, <3>2
    <3>4. Handed(rest, n)'
      BY <1>1, <2>2, <2>6, <3>1, <3>3, Seen
    <3>5. Handed(rest, Len(jobs[ai.job].done))'
      BY <1>1, <2>1, <3>3, <3>4 DEF Handed
    <3>6. Cleaned'
      BY <1>1, <2>3, <3>3, <3>5 DEF Cleaned
    <3> QED
      BY <1>5, <2>6, <3>1, <3>2, <3>3, <3>6 DEF AIInv
  <2> QED
    BY <2>5, <2>6
<1> QED
  BY <1>2, <1>6, <1>7

\* The inductive invariant of the jobs, their plans and the run that hears of them.
RunInv == JobInv /\ PlanOK /\ ActiveOwn /\ AIInv

LEMMA RunInvariance == Spec => []RunInv
<1>1. Init => RunInv
  BY JobInit, AIInit DEF RunInv, Init, PlanOK, ActiveOwn
<1>2. RunInv /\ [Next]_vars => RunInv'
  <2> SUFFICES ASSUME RunInv, [Next]_vars
               PROVE  RunInv'
    OBVIOUS
  <2>1. /\ JobInv /\ Typed /\ PlanOK /\ ActiveOwn /\ AIInv /\ EndedWhenLeaving
    BY DEF RunInv, JobInv
  <2>2. JobInv' /\ PlanOK' /\ ActiveOwn'
    BY <2>1, JobStep, PlanStep, ActiveOwnStep
  <2>3. CASE UNCHANGED ai
    BY <2>1, <2>2, <2>3, AIElsewhere DEF RunInv
  <2>4. CASE AIStart \/ AIPoll \/ Review
    BY <2>1, <2>2, <2>4, AIStartHands, PollHands, ReviewHands DEF RunInv
  <2>5. UNCHANGED ai \/ AIStart \/ AIPoll \/ Review
    BY DEF Next, vars, UserStart, Thread, Acquire, AcquireRaises, SetRunning, PageDone, PlanReturns,
           PlanRaises, CompleteJob, Release, SyncStart, SyncEnd, Fail
  <2> QED
    BY <2>2, <2>3, <2>4, <2>5 DEF RunInv
<1> QED
  BY <1>1, <1>2, PTL DEF Spec

\* What the manager knows of its jobs fits what they do: every record is in its range, a chapter
\* has one active job, and points to the latest the manager keeps
\* (page_processing_jobs.py:67-101, 188-238).
THEOREM ManagerIsOK == Spec => []ManagerOK
<1>1. RunInv => ManagerOK
  <2> SUFFICES ASSUME RunInv
               PROVE  TypeOK
    BY DEF RunInv, JobInv, ManagerOK
  <2>1. Typed /\ PlanOK /\ ActiveOwn /\ AIInv /\ LatestOwn
    BY DEF RunInv, JobInv
  <2>2. /\ \A i \in DOMAIN jobs :
             /\ jobs[i].chapter \in Chapter /\ jobs[i].pages \subseteq Page
             /\ jobs[i].status \in Active \cup Terminal
             /\ jobs[i].at \in {"queued", "locked", "running", "ran", "ending", "over"}
    BY <2>1, JobTyped DEF JobRecord
  <2>3. /\ \A i \in DOMAIN jobs :
             /\ jobs[i].work \subseteq jobs[i].pages /\ ToSet(jobs[i].done) \subseteq jobs[i].work
             /\ IsInjective(jobs[i].done) /\ jobs[i].completed \in 0..Cardinality(jobs[i].pages)
    BY <2>1 DEF PlanOK, Planned
  <2>4. DOMAIN jobs = 1..Len(jobs) /\ Len(jobs) \in Nat
    BY <2>1, LenProperties DEF Typed
  <2>5. latest \in [Chapter -> 0..Len(jobs)] /\ active \in [Chapter -> 0..Len(jobs)]
    BY <2>1, <2>4 DEF Typed, LatestOwn, ActiveOwn
  <2>6. lock \in [Chapter -> Sync..Len(jobs)]
    BY <2>1, <2>4 DEF Typed, Sync
  <2>7. ai.at \in {"idle", "clean", "over", "failed", "cancelled"}
        /\ ai.review \in {"none", "open", "done", "cancelled"}
    BY <2>1 DEF AIInv
  <2> QED
    BY <2>1, <2>2, <2>3, <2>5, <2>6, <2>7 DEF TypeOK, Typed
<1> QED
  BY <1>1, RunInvariance, PTL

\* When the review ends by itself it has seen, once each, exactly the slices of its plan that
\* the job reported, the last ones too (ai_mode/job.py:341-357).
THEOREM ReviewHasSeenAll == Spec => []ReviewSeesAll
<1>1. RunInv => ReviewSeesAll
  <2> SUFFICES ASSUME RunInv, ai.review = "done"
               PROVE  /\ IsInjective(ai.reviewed)
                      /\ ToSet(ai.reviewed) = ai.wanted \cap ToSet(jobs[ai.job].done)
    BY DEF ReviewSeesAll
  <2>1. Typed /\ AIInv /\ Cleaned /\ ai.reviewed \in Seq(Page)
    BY DEF RunInv, JobInv, AIInv, NoAI, Cleaning
  <2>2. ai.job \in DOMAIN jobs /\ Handed(<<>>, Len(jobs[ai.job].done))
    BY <2>1 DEF Cleaned
  <2>3. ai.reviewed \o <<>> = ai.reviewed
    BY <2>1, ConcatEmptySeq
  <2>4. jobs[ai.job].done \in Seq(Page)
    BY <2>1, <2>2, JobTyped DEF JobRecord
  <2>5. DOMAIN jobs[ai.job].done = 1..Len(jobs[ai.job].done)
    BY <2>4, LenProperties
  <2>6. ToSet(jobs[ai.job].done) = {jobs[ai.job].done[i] : i \in 1..Len(jobs[ai.job].done)}
    BY <2>5 DEF ToSet
  <2> QED
    BY <2>2, <2>3, <2>6 DEF Handed
<1> QED
  BY <1>1, RunInvariance, PTL
=============================================================================
