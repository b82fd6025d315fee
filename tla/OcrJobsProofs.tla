--------------------------- MODULE OcrJobsProofs ---------------------------
(***************************************************************************)
(* What the OCR jobs and the grouped reading promise, for any boxes, crops,*)
(* limits and numbers of jobs, workers and edits.                          *)
(***************************************************************************)
EXTENDS OcrJobs, FiniteSetTheorems, SequenceTheorems, WellFoundedInduction, TLAPS

JobRecord ==
  [chapter : Chapter, items : SUBSET Box, todo : SUBSET Box, force : BOOLEAN, cancel : BOOLEAN,
   status : Active \cup Terminal, completed : Nat, stale : Nat, failed : Nat, retry : SUBSET Box]

\* A reader is idle, gone, or somewhere in the reading of one box.
Stage(s) ==
  \/ s = Idle \/ s = Gone
  \/ \E b \in Box : s = Looking(b)
  \/ \E b \in Box, c \in Crop : s = Reading(b, c)
  \/ \E b \in Box, c \in Crop : s = Done(b, "read", c)
  \/ \E b \in Box, o \in {"stale", "failed", "cancelled"} : s = Done(b, o, Unread)

GroupRecord ==
  [on : {TRUE}, signatures : SUBSET (Box \X Crop), text : Texts, todo : SUBSET Spanned,
   got : SUBSET (Box \X Crop), moved : [Box -> Nat]]

JobsTyped ==
  /\ jobs \in Seq(JobRecord) /\ Len(jobs) <= MaxJobs
  /\ \A j \in DOMAIN jobs : \A b \in jobs[j].items : ChapterOf[b] = jobs[j].chapter
  /\ kept \subseteq DOMAIN jobs /\ active \subseteq Chapter

BoxTyped == box \in [Box -> [crop : Crop, readable : BOOLEAN, text : Crop \cup {Unread}]]

ReadersTyped == DOMAIN reader = Reader /\ \A r \in Reader : Stage(reader[r])

TextsTyped ==
  /\ object \in [text : Texts, auto : Texts]
  /\ group = NoGroup \/ group \in GroupRecord

Busy(s) == s.at \in {"looking", "reading", "done"}

\* A worker works for a job that runs, and two workers of a job read different boxes.
WorkersFit ==
  \A j \in 1..MaxJobs :
    /\ \A w \in Worker :
         LET s == reader[<<j, w>>] IN
         /\ s # Idle => j \in DOMAIN jobs /\ jobs[j].status # "pending"
         /\ Busy(s) => jobs[j].status = "running"
         /\ s.at = "done" => (s.outcome = "cancelled" => jobs[j].cancel)
    /\ \A v, w \in Worker :
         Busy(reader[<<j, v>>]) /\ Busy(reader[<<j, w>>])
           /\ reader[<<j, v>>].box = reader[<<j, w>>].box => v = w

\* The accounts of a job, given the boxes its workers hold.
Balanced(job, hand) ==
  /\ job.todo \subseteq job.items /\ hand \subseteq job.items /\ job.retry \subseteq job.items
  /\ job.todo \cap hand = {} /\ job.retry \cap (job.todo \cup hand) = {}
  /\ LET known == Cardinality(job.todo) + Cardinality(hand)
                    + job.completed + job.stale + job.failed
     IN  known <= Cardinality(job.items) /\ (~job.cancel => known = Cardinality(job.items))
  /\ Cardinality(job.retry) = job.stale + job.failed

AllBalanced == \A j \in DOMAIN jobs : Balanced(jobs[j], InHand(j))

JobsInv == JobsTyped /\ ReadersTyped /\ WorkersFit /\ AllBalanced /\ ActiveIsExact /\ LimitsKept

\* While a grouped reading is under way every text it has, or is about to have, is of the crop
\* its box had all the time or of a box that has moved; a box that moved once has left the crop
\* of the signature.
OfThisCrop(b, crop) == group.moved[b] = 0 => crop = box[b].crop

Signed(b) == \E c \in Crop : <<b, c>> \in group.signatures

GroupFit ==
  /\ ~group.on => reader[Group] = Idle
  /\ group.on =>
       /\ \A b \in Box, c \in Crop : <<b, c>> \in group.signatures =>
            OfThisCrop(b, c) /\ (group.moved[b] = 1 => box[b].crop # c)
       /\ \A b \in group.todo : Signed(b)
       /\ \A b \in Box, c \in Crop : <<b, c>> \in group.got => Signed(b) /\ OfThisCrop(b, c)
       /\ \A b \in Box : LET s == reader[Group] IN
            /\ s = Looking(b) => Signed(b)
            /\ \A c \in Crop : s = Reading(b, c) => Signed(b) /\ OfThisCrop(b, c)
            /\ \A c \in Crop : s = Done(b, "read", c) => Signed(b) /\ OfThisCrop(b, c)
-----------------------------------------------------------------------------
\* What the stages have in common: no two of them are confused.
LEMMA StageCases ==
  ASSUME NEW s, Stage(s)
  PROVE  /\ s.at \in {"idle", "gone", "looking", "reading", "done"}
         /\ s.at = "idle" => s = Idle
         /\ s.at = "gone" => s = Gone
         /\ Busy(s) <=> s # Idle /\ s # Gone
         /\ Busy(s) => s.box \in Box
         /\ s.at = "looking" => s = Looking(s.box)
         /\ s.at = "reading" => s = Reading(s.box, s.crop) /\ s.crop \in Crop
         /\ s.at = "done" =>
              /\ s = Done(s.box, s.outcome, s.text)
              /\ s.outcome \in {"read", "stale", "failed", "cancelled"}
              /\ s.outcome = "read" => s.text \in Crop
  BY DEF Stage, Busy, Idle, Gone, Looking, Reading, Done

\* The grouped reading is no worker.
LEMMA GroupIsApart ==
  /\ Group \in Reader
  /\ \A j \in 1..MaxJobs, w \in Worker : <<j, w>> \in Reader /\ <<j, w>> # Group
<1>1. \A j \in 1..MaxJobs, w \in Worker : <<j, w>> \in Reader
  BY DEF Reader
<1>2. \A j \in 1..MaxJobs : j # 0
  BY OcrAssumption
<1>3. \A j \in 1..MaxJobs, w \in Worker : <<j, w>> # <<0, 0>>
  BY <1>2
<1> QED
  BY <1>1, <1>3 DEF Reader, Group

LEMMA WorkersAre ==
  ASSUME NEW j
  PROVE  /\ \A w \in Worker : <<j, w>> \in WorkersOf(j)
         /\ \A r \in WorkersOf(j) : \E w \in Worker : r = <<j, w>>
  BY DEF WorkersOf

\* The boxes in the hands of the workers of a job.
LEMMA HandIs ==
  ASSUME ReadersTyped, NEW j \in 1..MaxJobs
  PROVE  InHand(j) = {b \in Box : \E w \in Worker : Busy(reader[<<j, w>>]) /\ reader[<<j, w>>].box = b}
<1>1. \A w \in Worker : reader[<<j, w>>].at \notin {"idle", "gone"} <=> Busy(reader[<<j, w>>])
  BY GroupIsApart, StageCases DEF ReadersTyped, Busy
<1>2. \A b : (\E r \in WorkersOf(j) : reader[r].at \notin {"idle", "gone"} /\ reader[r].box = b)
             <=> \E w \in Worker : reader[<<j, w>>].at \notin {"idle", "gone"} /\ reader[<<j, w>>].box = b
  BY WorkersAre, Zenon
<1> QED
  BY <1>1, <1>2 DEF InHand

LEMMA HandNext ==
  ASSUME ReadersTyped', NEW j \in 1..MaxJobs
  PROVE  InHand(j)' = {b \in Box : \E w \in Worker : Busy(reader'[<<j, w>>]) /\ reader'[<<j, w>>].box = b}
<1>1. \A r \in Reader : Stage(reader'[r])
  BY DEF ReadersTyped, Stage
<1>2. \A w \in Worker : reader'[<<j, w>>].at \notin {"idle", "gone"} <=> Busy(reader'[<<j, w>>])
  BY <1>1, GroupIsApart, StageCases DEF Busy
<1>3. \A b : (\E r \in WorkersOf(j) : reader'[r].at \notin {"idle", "gone"} /\ reader'[r].box = b)
             <=> \E w \in Worker : reader'[<<j, w>>].at \notin {"idle", "gone"} /\ reader'[<<j, w>>].box = b
  BY WorkersAre, Zenon
<1> QED
  BY <1>2, <1>3 DEF InHand

\* The record of a job is one, and there are at most MaxJobs of them.
LEMMA JobTyped ==
  ASSUME JobsTyped, NEW j \in DOMAIN jobs
  PROVE  /\ jobs[j] \in JobRecord /\ j \in Nat \ {0} /\ j \in 1..MaxJobs
         /\ DOMAIN jobs = 1..Len(jobs) /\ Len(jobs) \in Nat
<1>1. DOMAIN jobs = 1..Len(jobs) /\ Len(jobs) \in Nat /\ Len(jobs) <= MaxJobs
  BY LenProperties DEF JobsTyped
<1>2. jobs[j] \in JobRecord
  BY <1>1, ElementOfSeq DEF JobsTyped
<1> QED
  BY <1>1, <1>2, OcrAssumption

\* Replacing the record of one job by one of the same chapter and boxes.
LEMMA Replace ==
  ASSUME JobsTyped, NEW j \in DOMAIN jobs, NEW r \in JobRecord,
         r.chapter = jobs[j].chapter, r.items = jobs[j].items,
         jobs' = [jobs EXCEPT ![j] = r], kept' = kept, active' \subseteq active
  PROVE  /\ JobsTyped' /\ DOMAIN jobs' = DOMAIN jobs /\ jobs'[j] = r
         /\ \A k \in DOMAIN jobs : k # j => jobs'[k] = jobs[k]
<1>1. j \in 1..Len(jobs) /\ jobs \in Seq(JobRecord) /\ DOMAIN jobs = 1..Len(jobs)
  BY JobTyped DEF JobsTyped
<1>2. jobs' \in Seq(JobRecord) /\ Len(jobs') = Len(jobs)
  BY <1>1, ExceptSeq
<1>3. DOMAIN jobs' = DOMAIN jobs /\ jobs'[j] = r /\ \A k \in DOMAIN jobs : k # j => jobs'[k] = jobs[k]
  OBVIOUS
<1>4. \A k \in DOMAIN jobs' : \A b \in jobs'[k].items : ChapterOf[b] = jobs'[k].chapter
  BY <1>3 DEF JobsTyped
<1> QED
  BY <1>2, <1>3, <1>4 DEF JobsTyped

\* What is active, and where, does not change when a job goes on.
LEMMA StillActive ==
  ASSUME JobsTyped, ActiveIsExact, LimitsKept, NEW j \in DOMAIN jobs, NEW r \in JobRecord,
         r.chapter = jobs[j].chapter, r.status \in Active <=> jobs[j].status \in Active,
         jobs' = [jobs EXCEPT ![j] = r], UNCHANGED <<kept, active>>
  PROVE  ActiveIsExact' /\ LimitsKept'
<1>1. /\ DOMAIN jobs' = DOMAIN jobs
      /\ \A k \in DOMAIN jobs : jobs'[k].chapter = jobs[k].chapter
      /\ \A k \in DOMAIN jobs : jobs'[k].status \in Active <=> jobs[k].status \in Active
  OBVIOUS
<1>2. kept \subseteq DOMAIN jobs
  BY DEF JobsTyped
<1>3. ActiveJobs' = ActiveJobs
  BY <1>1, <1>2 DEF ActiveJobs
<1>4. {jobs'[k].chapter : k \in ActiveJobs'} = {jobs[k].chapter : k \in ActiveJobs}
  BY <1>1, <1>2, <1>3 DEF ActiveJobs
<1>5. ActiveIsExact'
  BY <1>1, <1>2, <1>3, <1>4 DEF ActiveIsExact, ActiveJobs
<1>6. {k \in DOMAIN jobs' : jobs'[k].status \in Active} = {k \in DOMAIN jobs : jobs[k].status \in Active}
  BY <1>1
<1> QED
  BY <1>5, <1>6 DEF LimitsKept

\* Everything is as before when neither the jobs nor their workers move.
LEMMA Elsewhere ==
  ASSUME JobsInv, UNCHANGED manager, ReadersTyped',
         \A j \in 1..MaxJobs, w \in Worker : reader'[<<j, w>>] = reader[<<j, w>>]
  PROVE  JobsInv'
<1>1. jobs' = jobs /\ kept' = kept /\ active' = active
  BY DEF manager
<1>2. JobsTyped' /\ ActiveIsExact' /\ LimitsKept'
  BY <1>1 DEF JobsInv, JobsTyped, ActiveIsExact, LimitsKept, ActiveJobs
<1>3. WorkersFit'
  BY <1>1 DEF JobsInv, WorkersFit
<1>4. \A j \in 1..MaxJobs : InHand(j)' = InHand(j)
  <2>1. ReadersTyped
    BY DEF JobsInv
  <2> SUFFICES ASSUME NEW j \in 1..MaxJobs
               PROVE  InHand(j)' = InHand(j)
    OBVIOUS
  <2>2. InHand(j) = {b \in Box : \E w \in Worker : Busy(reader[<<j, w>>]) /\ reader[<<j, w>>].box = b}
    BY <2>1, HandIs
  <2>3. InHand(j)' = {b \in Box : \E w \in Worker : Busy(reader'[<<j, w>>]) /\ reader'[<<j, w>>].box = b}
    BY HandNext
  <2> QED
    BY <2>2, <2>3
<1>5. AllBalanced'
  BY <1>1, <1>4, JobTyped DEF JobsInv, AllBalanced
<1> QED
  BY <1>2, <1>3, <1>5 DEF JobsInv

\* A worker goes from one stage to another.
LEMMA WorkerMoves ==
  ASSUME ReadersTyped, WorkersFit, NEW j \in 1..MaxJobs, NEW w \in Worker, NEW s, Stage(s),
         reader' = [reader EXCEPT ![<<j, w>>] = s]
  PROVE  /\ ReadersTyped' /\ reader'[<<j, w>>] = s
         /\ \A k \in 1..MaxJobs, v \in Worker : k # j \/ v # w => reader'[<<k, v>>] = reader[<<k, v>>]
         /\ \A k \in 1..MaxJobs : k # j => InHand(k)' = InHand(k)
         /\ InHand(j)' = (IF Busy(reader[<<j, w>>]) THEN InHand(j) \ {reader[<<j, w>>].box} ELSE InHand(j))
                         \cup (IF Busy(s) THEN {s.box} ELSE {})
<1> DEFINE o == reader[<<j, w>>]
<1>1. <<j, w>> \in Reader /\ DOMAIN reader = Reader
  BY GroupIsApart DEF ReadersTyped
<1>2. reader'[<<j, w>>] = s /\ DOMAIN reader' = Reader
      /\ \A r \in Reader : r # <<j, w>> => reader'[r] = reader[r]
  BY <1>1
<1>3. \A k \in 1..MaxJobs, v \in Worker : k # j \/ v # w => reader'[<<k, v>>] = reader[<<k, v>>]
  BY <1>2, GroupIsApart
<1>4. \A r \in Reader : Stage(reader'[r])
  BY <1>2 DEF ReadersTyped
<1>5. ReadersTyped'
  BY <1>2, <1>4 DEF ReadersTyped, Stage
<1>6. \A k \in 1..MaxJobs : k # j => InHand(k)' = InHand(k)
  <2> SUFFICES ASSUME NEW k \in 1..MaxJobs, k # j
               PROVE  InHand(k)' = InHand(k)
    OBVIOUS
  <2>1. InHand(k) = {b \in Box : \E v \in Worker : Busy(reader[<<k, v>>]) /\ reader[<<k, v>>].box = b}
    BY HandIs
  <2>2. InHand(k)' = {b \in Box : \E v \in Worker : Busy(reader'[<<k, v>>]) /\ reader'[<<k, v>>].box = b}
    BY <1>5, HandNext
  <2>3. \A v \in Worker : reader'[<<k, v>>] = reader[<<k, v>>]
    BY <1>3
  <2> QED
    BY <2>1, <2>2, <2>3
<1>7. InHand(j)' = (IF Busy(o) THEN InHand(j) \ {o.box} ELSE InHand(j))
                   \cup (IF Busy(s) THEN {s.box} ELSE {})
  <2>1. InHand(j) = {b \in Box : \E v \in Worker : Busy(reader[<<j, v>>]) /\ reader[<<j, v>>].box = b}
    BY HandIs
  <2>2. InHand(j)' = {b \in Box : \E v \in Worker : Busy(reader'[<<j, v>>]) /\ reader'[<<j, v>>].box = b}
    BY <1>5, HandNext
  <2>3. Stage(o)
    BY <1>1 DEF ReadersTyped
  <2>4. (Busy(s) => s.box \in Box) /\ (Busy(o) => o.box \in Box)
    BY <2>3, StageCases
  <2>5. \A v \in Worker : Busy(o) /\ Busy(reader[<<j, v>>]) /\ reader[<<j, v>>].box = o.box => v = w
    BY DEF WorkersFit
  <2> DEFINE others == {b \in Box : \E v \in Worker \ {w} : Busy(reader[<<j, v>>]) /\ reader[<<j, v>>].box = b}
  <2>6. InHand(j) = others \cup (IF Busy(o) THEN {o.box} ELSE {})
    BY <2>1, <2>4
  <2>7. Busy(o) => o.box \notin others
    BY <2>5
  <2>8. \A v \in Worker \ {w} : reader'[<<j, v>>] = reader[<<j, v>>]
    BY <1>3
  <2>9. InHand(j)' = others \cup (IF Busy(s) THEN {s.box} ELSE {})
    <3>1. \A b : (\E v \in Worker : Busy(reader'[<<j, v>>]) /\ reader'[<<j, v>>].box = b)
                 <=> \/ \E v \in Worker \ {w} : Busy(reader[<<j, v>>]) /\ reader[<<j, v>>].box = b
                     \/ Busy(s) /\ s.box = b
      BY <1>2, <2>8
    <3> QED
      BY <2>2, <2>4, <3>1
  <2> HIDE DEF others, o
  <2> QED
    BY <2>6, <2>7, <2>9
<1> QED
  BY <1>2, <1>3, <1>5, <1>6, <1>7

\* The workers of all jobs still fit when one of them has moved, to a box nobody else holds.
LEMMA WorkersStillFit ==
  ASSUME ReadersTyped, WorkersFit, NEW j \in 1..MaxJobs, NEW w \in Worker, NEW s, Stage(s),
         reader' = [reader EXCEPT ![<<j, w>>] = s],
         DOMAIN jobs' = DOMAIN jobs,
         \A k \in DOMAIN jobs : jobs'[k].status = jobs[k].status /\ jobs'[k].cancel = jobs[k].cancel,
         s # Idle => j \in DOMAIN jobs /\ jobs[j].status = "running",
         s.at = "done" => (s.outcome = "cancelled" => jobs[j].cancel),
         Busy(s) => s.box \notin InHand(j) \/ (Busy(reader[<<j, w>>]) /\ s.box = reader[<<j, w>>].box)
  PROVE  WorkersFit'
<1>1. /\ reader'[<<j, w>>] = s
      /\ \A k \in 1..MaxJobs, v \in Worker : k # j \/ v # w => reader'[<<k, v>>] = reader[<<k, v>>]
  BY WorkerMoves
<1>2. \A v \in Worker : Busy(reader[<<j, v>>]) => reader[<<j, v>>].box \in InHand(j)
  <2>1. InHand(j) = {b \in Box : \E v \in Worker : Busy(reader[<<j, v>>]) /\ reader[<<j, v>>].box = b}
    BY HandIs
  <2>2. \A v \in Worker : Busy(reader[<<j, v>>]) => reader[<<j, v>>].box \in Box
    BY GroupIsApart, StageCases DEF ReadersTyped
  <2> QED
    BY <2>1, <2>2
<1>3. ASSUME NEW k \in 1..MaxJobs, NEW v \in Worker
      PROVE  LET t == reader'[<<k, v>>] IN
             /\ t # Idle => k \in DOMAIN jobs' /\ jobs'[k].status # "pending"
             /\ Busy(t) => jobs'[k].status = "running"
             /\ t.at = "done" => (t.outcome = "cancelled" => jobs'[k].cancel)
  <2>1. CASE k = j /\ v = w
    <3>1. reader'[<<k, v>>] = s
      BY <1>1, <2>1
    <3>2. s.at = "done" => s # Idle
      BY DEF Idle
    <3>3. Busy(s) => s # Idle
      BY StageCases
    <3>4. s # Idle => k \in DOMAIN jobs' /\ jobs'[k].status = "running" /\ jobs'[k].cancel = jobs[j].cancel
      BY <2>1
    <3> QED
      BY <3>1, <3>2, <3>3, <3>4
  <2>2. CASE k # j \/ v # w
    <3>1. reader'[<<k, v>>] = reader[<<k, v>>]
      BY <1>1, <2>2
    <3>2. LET t == reader[<<k, v>>] IN
             /\ t # Idle => k \in DOMAIN jobs /\ jobs[k].status # "pending"
             /\ Busy(t) => jobs[k].status = "running"
             /\ t.at = "done" => (t.outcome = "cancelled" => jobs[k].cancel)
      BY DEF WorkersFit
    <3>3. Stage(reader[<<k, v>>])
      BY GroupIsApart DEF ReadersTyped
    <3>4. reader[<<k, v>>].at = "done" => reader[<<k, v>>] # Idle
      BY <3>3 DEF Idle
    <3> QED
      BY <3>1, <3>2, <3>3, <3>4, StageCases
  <2> QED
    BY <2>1, <2>2
<1>4. ASSUME NEW k \in 1..MaxJobs, NEW u \in Worker, NEW v \in Worker,
             Busy(reader'[<<k, u>>]), Busy(reader'[<<k, v>>]),
             reader'[<<k, u>>].box = reader'[<<k, v>>].box
      PROVE  u = v
  <2>1. CASE k # j \/ (u # w /\ v # w)
    BY <1>1, <1>4, <2>1 DEF WorkersFit
  <2>2. CASE k = j /\ u = w /\ v # w
    BY <1>1, <1>2, <1>4, <2>2 DEF WorkersFit
  <2>3. CASE k = j /\ v = w /\ u # w
    BY <1>1, <1>2, <1>4, <2>3 DEF WorkersFit
  <2> QED
    BY <2>1, <2>2, <2>3
<1> QED
  BY <1>3, <1>4 DEF WorkersFit, Busy

\* A worker takes a box of the queue into its hand.
LEMMA TakeBalances ==
  ASSUME NEW job \in JobRecord, NEW hand, Balanced(job, hand), NEW b \in job.todo
  PROVE  Balanced([job EXCEPT !.todo = @ \ {b}], hand \cup {b})
<1> DEFINE r == [job EXCEPT !.todo = @ \ {b}]
<1>1. /\ r.todo = job.todo \ {b} /\ r.items = job.items /\ r.retry = job.retry
      /\ r.completed = job.completed /\ r.stale = job.stale /\ r.failed = job.failed
      /\ r.cancel = job.cancel
  BY DEF JobRecord
<1>2. IsFiniteSet(job.todo) /\ IsFiniteSet(hand)
  BY OcrAssumption, FS_Subset DEF JobRecord, Balanced
<1>3. b \notin hand
  BY DEF Balanced
<1>4. Cardinality(job.todo) \in Nat /\ Cardinality(hand) \in Nat
  BY <1>2, FS_CardinalityType
<1>5. Cardinality(job.todo \ {b}) = Cardinality(job.todo) - 1
  BY <1>2, FS_RemoveElement
<1>6. Cardinality(hand \cup {b}) = Cardinality(hand) + 1
  BY <1>2, <1>3, FS_AddElement
<1>7. job.completed \in Nat /\ job.stale \in Nat /\ job.failed \in Nat /\ Cardinality(job.items) \in Nat
  <2>1. IsFiniteSet(job.items)
    BY OcrAssumption, FS_Subset DEF JobRecord
  <2> QED
    BY <2>1, FS_CardinalityType DEF JobRecord
<1>8. Cardinality(r.todo) + Cardinality(hand \cup {b}) + r.completed + r.stale + r.failed
        = Cardinality(job.todo) + Cardinality(hand) + job.completed + job.stale + job.failed
  BY <1>1, <1>4, <1>5, <1>6, <1>7
<1>9. /\ r.todo \subseteq r.items /\ hand \cup {b} \subseteq r.items /\ r.retry \subseteq r.items
      /\ r.todo \cap (hand \cup {b}) = {} /\ r.retry \cap (r.todo \cup (hand \cup {b})) = {}
  BY <1>1 DEF Balanced
<1> HIDE DEF r
<1>10. Balanced(r, hand \cup {b})
  BY <1>1, <1>8, <1>9 DEF Balanced
<1> QED
  BY <1>10 DEF r

\* What a worker reports of the box in its hand is counted, unless the job was cancelled.
LEMMA CountBalances ==
  ASSUME NEW job \in JobRecord, NEW hand, Balanced(job, hand), NEW b \in hand,
         NEW o \in {"read", "stale", "failed", "cancelled"}, o = "cancelled" => job.cancel
  PROVE  /\ Counted(job, b, o) \in JobRecord
         /\ Balanced(Counted(job, b, o), hand \ {b})
<1> DEFINE r == Counted(job, b, o)
           z == Cardinality(job.todo)
<1>1. b \in Box /\ job.retry \subseteq Box /\ b \in job.items
  BY DEF JobRecord, Balanced
<1>2. IsFiniteSet(job.todo) /\ IsFiniteSet(hand) /\ IsFiniteSet(job.retry) /\ IsFiniteSet(job.items)
  BY OcrAssumption, FS_Subset DEF JobRecord, Balanced
<1>3. /\ z \in Nat /\ Cardinality(hand) \in Nat /\ Cardinality(job.retry) \in Nat
      /\ Cardinality(job.items) \in Nat
  BY <1>2, FS_CardinalityType
<1>4. job.completed \in Nat /\ job.stale \in Nat /\ job.failed \in Nat /\ job.cancel \in BOOLEAN
  BY DEF JobRecord
<1>5. Cardinality(hand \ {b}) = Cardinality(hand) - 1
  BY <1>2, FS_RemoveElement
<1>6. b \notin job.retry /\ b \notin job.todo
  BY DEF Balanced
<1>7. Cardinality(job.retry \cup {b}) = Cardinality(job.retry) + 1
  BY <1>2, <1>6, FS_AddElement
<1>8. /\ r \in JobRecord /\ r.todo = job.todo /\ r.items = job.items /\ r.cancel = job.cancel
      /\ \/ r.retry = job.retry /\ r.stale = job.stale /\ r.failed = job.failed
            /\ (r.completed = job.completed + 1 \/ (job.cancel /\ r.completed = job.completed))
         \/ r.retry = job.retry \cup {b} /\ r.completed = job.completed
            /\ \/ r.stale = job.stale + 1 /\ r.failed = job.failed
               \/ r.failed = job.failed + 1 /\ r.stale = job.stale
  <2>1. CASE o = "read"
    <3>1. r = [job EXCEPT !.completed = @ + 1]
      BY <2>1 DEF Counted
    <3> QED
      BY <1>4, <3>1 DEF JobRecord
  <2>2. CASE o = "stale"
    <3>1. r = [job EXCEPT !.stale = @ + 1, !.retry = @ \cup {b}]
      BY <2>2 DEF Counted
    <3> HIDE DEF r
    <3>2. job.stale + 1 \in Nat /\ job.retry \cup {b} \in SUBSET Box
      BY <1>1, <1>4
    <3>3. r \in JobRecord
      BY <3>1, <3>2 DEF JobRecord
    <3>4. /\ r.retry = job.retry \cup {b} /\ r.stale = job.stale + 1 /\ r.failed = job.failed
          /\ r.completed = job.completed /\ r.todo = job.todo /\ r.items = job.items
          /\ r.cancel = job.cancel
      BY <3>1 DEF JobRecord
    <3> QED
      BY <3>3, <3>4
  <2>3. CASE o = "failed"
    <3>1. r = [job EXCEPT !.failed = @ + 1, !.retry = @ \cup {b}]
      BY <2>3 DEF Counted
    <3> HIDE DEF r
    <3>2. job.failed + 1 \in Nat /\ job.retry \cup {b} \in SUBSET Box
      BY <1>1, <1>4
    <3>3. r \in JobRecord
      BY <3>1, <3>2 DEF JobRecord
    <3>4. /\ r.retry = job.retry \cup {b} /\ r.failed = job.failed + 1 /\ r.stale = job.stale
          /\ r.completed = job.completed /\ r.todo = job.todo /\ r.items = job.items
          /\ r.cancel = job.cancel
      BY <3>1 DEF JobRecord
    <3> QED
      BY <3>3, <3>4
  <2>4. CASE o = "cancelled"
    <3>1. r = job
      BY <2>4 DEF Counted
    <3> QED
      BY <2>4, <3>1
  <2> QED
    BY <2>1, <2>2, <2>3, <2>4
<1> HIDE DEF r
<1>9. /\ z + Cardinality(hand) + job.completed + job.stale + job.failed <= Cardinality(job.items)
      /\ ~job.cancel => z + Cardinality(hand) + job.completed + job.stale + job.failed = Cardinality(job.items)
      /\ Cardinality(job.retry) = job.stale + job.failed
  BY DEF Balanced
<1>10. /\ z + Cardinality(hand \ {b}) + r.completed + r.stale + r.failed <= Cardinality(job.items)
       /\ ~job.cancel => z + Cardinality(hand \ {b}) + r.completed + r.stale + r.failed = Cardinality(job.items)
       /\ Cardinality(r.retry) = r.stale + r.failed
  <2> HIDE DEF z
  <2>1. \/ r.retry = job.retry /\ r.stale = job.stale /\ r.failed = job.failed
           /\ (r.completed = job.completed + 1 \/ (job.cancel /\ r.completed = job.completed))
        \/ Cardinality(r.retry) = Cardinality(job.retry) + 1 /\ r.completed = job.completed
           /\ \/ r.stale = job.stale + 1 /\ r.failed = job.failed
              \/ r.failed = job.failed + 1 /\ r.stale = job.stale
    BY <1>7, <1>8
  <2> QED
    BY <1>3, <1>4, <1>5, <1>9, <2>1
<1>11. /\ r.todo \subseteq r.items /\ hand \ {b} \subseteq r.items /\ r.retry \subseteq r.items
       /\ r.todo \cap (hand \ {b}) = {} /\ r.retry \cap (r.todo \cup (hand \ {b})) = {}
  BY <1>1, <1>6, <1>8 DEF Balanced
<1>12. Balanced(r, hand \ {b})
  BY <1>8, <1>10, <1>11 DEF Balanced
<1> QED
  BY <1>8, <1>12 DEF r

\* The jobs known are finitely many.
LEMMA KeptFinite ==
  ASSUME JobsTyped
  PROVE  /\ IsFiniteSet(DOMAIN jobs) /\ IsFiniteSet(kept) /\ IsFiniteSet(ActiveJobs)
         /\ kept \subseteq Nat /\ DOMAIN jobs = 1..Len(jobs) /\ Len(jobs) \in Nat
<1>1. DOMAIN jobs = 1..Len(jobs) /\ Len(jobs) \in Nat
  BY LenProperties DEF JobsTyped
<1>2. IsFiniteSet(DOMAIN jobs)
  <2>1. 1 \in Int /\ Len(jobs) \in Int
    BY <1>1
  <2> QED
    BY <1>1, <2>1, FS_Interval
<1>3. kept \subseteq DOMAIN jobs /\ ActiveJobs \subseteq DOMAIN jobs
  BY DEF JobsTyped, ActiveJobs
<1> QED
  BY <1>1, <1>2, <1>3, FS_Subset

\* With fewer active jobs than are kept, there is room for a job once the ended ones have
\* made it.
LEMMA PrunedMakesRoom ==
  ASSUME JobsTyped, LimitsKept, Cardinality(ActiveJobs) < ActiveLimit
  PROVE  /\ Pruned \subseteq kept \ ActiveJobs
         /\ IsFiniteSet(kept \ Pruned) /\ Cardinality(kept \ Pruned) < MaxRetained
<1> DEFINE ended == {i \in kept : jobs[i].status \in Terminal}
<1>1. /\ IsFiniteSet(kept) /\ IsFiniteSet(ActiveJobs) /\ kept \subseteq Nat
      /\ ActiveLimit \in Nat /\ MaxRetained \in Nat /\ ActiveLimit <= MaxRetained
      /\ Cardinality(kept) \in Nat /\ Cardinality(ActiveJobs) \in Nat
      /\ Cardinality(kept) <= MaxRetained
  BY KeptFinite, FS_CardinalityType, OcrAssumption DEF LimitsKept
<1>2. Pruned \subseteq ended
  BY DEF Pruned
<1>3. \A i \in kept : jobs[i] \in JobRecord
  BY JobTyped DEF JobsTyped
<1>4. kept = ActiveJobs \cup ended /\ ActiveJobs \cap ended = {}
  BY <1>3 DEF ActiveJobs, JobRecord, Active, Terminal
<1>5. IsFiniteSet(kept \ Pruned) /\ Cardinality(kept \ Pruned) \in Nat
  BY <1>1, FS_Subset, FS_CardinalityType
<1>6. Cardinality(kept \ Pruned) <= Cardinality(kept)
  BY <1>1, <1>5, FS_Subset
<1>7. CASE Cardinality(kept) < MaxRetained
  BY <1>1, <1>2, <1>4, <1>5, <1>6, <1>7
<1>8. CASE Cardinality(kept) >= MaxRetained
  <2>1. ended # {}
    <3> SUFFICES ASSUME ended = {} PROVE FALSE
      OBVIOUS
    <3>1. kept = ActiveJobs
      BY <1>4
    <3> QED
      BY <1>1, <1>8, <3>1
  <2>2. ended \subseteq Nat
    BY <1>1
  <2> HIDE DEF ended
  <2>3. PICK m \in ended : \A k \in ended : ~(k < m)
    <3>1. PICK m \in ended : \A k \in ended : <<k, m>> \notin OpToRel(<, Nat)
      BY <2>1, <2>2, NatLessThanWellFounded, WFMin
    <3> QED
      BY <2>2, <3>1 DEF OpToRel
  <2>4. {i \in ended : i < m} = {}
    BY <2>3
  <2>5. Cardinality({i \in ended : i < m}) = 0
    BY <2>4, FS_EmptySet
  <2>6. m \in Pruned /\ m \in kept
    BY <1>1, <1>4, <1>8, <2>3, <2>5 DEF Pruned, ended
  <2>7. Cardinality(kept \ {m}) = Cardinality(kept) - 1 /\ IsFiniteSet(kept \ {m})
    BY <1>1, <2>6, FS_RemoveElement, FS_Subset
  <2>8. Cardinality(kept \ Pruned) <= Cardinality(kept \ {m})
    <3>1. kept \ Pruned \subseteq kept \ {m}
      BY <2>6
    <3> QED
      BY <2>7, <3>1, FS_Subset
  <2> QED
    BY <1>1, <1>2, <1>4, <1>5, <2>7, <2>8
<1> QED
  BY <1>1, <1>7, <1>8

\* A job is registered for a chapter that has none active.
LEMMA RegisterStep ==
  ASSUME JobsInv, NEW c \in Chapter, NEW items \in SUBSET Box, \A b \in items : ChapterOf[b] = c,
         NEW force \in BOOLEAN, Register(c, items, force)
  PROVE  JobsInv'
<1>0. PICK new : new = Len(jobs) + 1
  OBVIOUS
<1> DEFINE job == [chapter |-> c, items |-> items, todo |-> items, force |-> force, cancel |-> FALSE,
                   status |-> IF items = {} THEN "completed" ELSE "pending",
                   completed |-> 0, stale |-> 0, failed |-> 0, retry |-> {}]
<1>1. /\ new <= MaxJobs /\ c \notin active /\ Cardinality(ActiveJobs) < ActiveLimit
      /\ jobs' = Append(jobs, job) /\ kept' = (kept \ Pruned) \cup {new}
      /\ active' = (IF items = {} THEN active ELSE active \cup {c}) /\ reader' = reader
  BY <1>0 DEF Register
<1>2. /\ JobsTyped /\ ReadersTyped /\ WorkersFit /\ AllBalanced /\ ActiveIsExact /\ LimitsKept
  BY DEF JobsInv
<1>3. /\ DOMAIN jobs = 1..Len(jobs) /\ Len(jobs) \in Nat /\ jobs \in Seq(JobRecord)
      /\ IsFiniteSet(kept) /\ IsFiniteSet(ActiveJobs)
  BY <1>2, KeptFinite DEF JobsTyped
<1>4. job \in JobRecord
  BY DEF JobRecord, Active, Terminal
<1> HIDE DEF job
<1>5. /\ jobs' \in Seq(JobRecord) /\ Len(jobs') = new
      /\ \A k \in 1..Len(jobs) : jobs'[k] = jobs[k]
      /\ jobs'[new] = job
  BY <1>0, <1>1, <1>3, <1>4, AppendProperties
<1>6. DOMAIN jobs' = 1..new
  BY <1>5, LenProperties
<1>7. /\ DOMAIN jobs' = DOMAIN jobs \cup {new} /\ new \notin DOMAIN jobs
      /\ \A k \in DOMAIN jobs : jobs'[k] = jobs[k]
      /\ new \in 1..MaxJobs
  BY <1>0, <1>1, <1>3, <1>5, <1>6, OcrAssumption
<1>8. /\ Pruned \subseteq kept \ ActiveJobs /\ kept \subseteq DOMAIN jobs
      /\ IsFiniteSet(kept \ Pruned) /\ Cardinality(kept \ Pruned) < MaxRetained
  BY <1>1, <1>2, PrunedMakesRoom DEF JobsTyped
<1>9. /\ job.chapter = c /\ job.items = items /\ job.todo = items /\ ~job.cancel
      /\ job.status \in Active <=> items # {}
      /\ job.completed = 0 /\ job.stale = 0 /\ job.failed = 0 /\ job.retry = {}
  BY DEF job, Active
<1>10. JobsTyped'
  BY <1>1, <1>2, <1>5, <1>7, <1>8, <1>9 DEF JobsTyped
<1>11. ReadersTyped' /\ InHand(new) = {} /\ \A w \in Worker : reader[<<new, w>>] = Idle
  <2>1. ReadersTyped'
    BY <1>1, <1>2 DEF ReadersTyped
  <2>2. \A w \in Worker : reader[<<new, w>>] = Idle
    BY <1>2, <1>7 DEF WorkersFit
  <2>3. ~Busy(Idle)
    BY DEF Busy, Idle
  <2> QED
    BY <1>2, <1>7, <2>1, <2>2, <2>3, HandIs
<1>12. \A k \in 1..MaxJobs : InHand(k)' = InHand(k)
  BY <1>1 DEF InHand, WorkersOf
<1>13. WorkersFit'
  <2>1. ASSUME NEW k \in 1..MaxJobs, NEW w \in Worker
        PROVE  LET s == reader[<<k, w>>] IN
               /\ s # Idle => k \in DOMAIN jobs' /\ jobs'[k].status # "pending"
               /\ Busy(s) => jobs'[k].status = "running"
               /\ s.at = "done" => (s.outcome = "cancelled" => jobs'[k].cancel)
    <3>1. CASE k = new
      <4>1. reader[<<k, w>>] = Idle
        BY <1>11, <3>1
      <4> QED
        BY <4>1 DEF Busy, Idle
    <3>2. CASE k # new /\ reader[<<k, w>>] # Idle
      <4>1. k \in DOMAIN jobs
        BY <1>2, <3>2 DEF WorkersFit
      <4> QED
        BY <1>2, <1>7, <4>1 DEF WorkersFit
    <3>3. CASE reader[<<k, w>>] = Idle
      BY <3>3 DEF Busy, Idle
    <3> QED
      BY <3>1, <3>2, <3>3
  <2> QED
    BY <1>1, <1>2, <2>1 DEF WorkersFit
<1>14. AllBalanced'
  <2>1. ASSUME NEW k \in DOMAIN jobs
        PROVE  Balanced(jobs'[k], InHand(k)')
    BY <1>2, <1>7, <1>12, JobTyped DEF AllBalanced
  <2>2. IsFiniteSet(items)
    BY OcrAssumption, FS_Subset
  <2>3. Cardinality(items) \in Nat /\ Cardinality({}) = 0
    BY <2>2, FS_CardinalityType, FS_EmptySet
  <2>4. Balanced(job, {})
    BY <1>9, <2>3 DEF Balanced
  <2>5. Balanced(jobs'[new], InHand(new)')
    BY <1>5, <1>7, <1>11, <1>12, <2>4
  <2> QED
    BY <1>7, <2>1, <2>5 DEF AllBalanced
<1>15. ActiveJobs' = ActiveJobs \cup (IF items = {} THEN {} ELSE {new})
  BY <1>1, <1>5, <1>7, <1>8, <1>9 DEF ActiveJobs
<1>16. ActiveIsExact'
  <2>1. \A k \in DOMAIN jobs : jobs[k].status \in Active => k \in kept
    BY <1>2 DEF ActiveIsExact
  <2>2. \A k \in DOMAIN jobs' : jobs'[k].status \in Active => k \in kept'
    BY <1>1, <1>7, <1>8, <2>1 DEF ActiveJobs
  <2>3. active = {jobs[k].chapter : k \in ActiveJobs} /\ ActiveJobs \subseteq DOMAIN jobs
    BY <1>2, <1>8 DEF ActiveIsExact, ActiveJobs
  <2>4. active' = {jobs'[k].chapter : k \in ActiveJobs'}
    BY <1>1, <1>5, <1>7, <1>9, <1>15, <2>3
  <2>5. \A i, k \in ActiveJobs : jobs[i].chapter = jobs[k].chapter => i = k
    BY <1>2 DEF ActiveIsExact
  <2>6. \A k \in ActiveJobs : jobs[k].chapter # c
    BY <1>1, <2>3
  <2>7. \A i, k \in ActiveJobs' : jobs'[i].chapter = jobs'[k].chapter => i = k
    BY <1>5, <1>7, <1>9, <1>15, <2>3, <2>5, <2>6
  <2> QED
    BY <2>2, <2>4, <2>7 DEF ActiveIsExact
<1>17. LimitsKept'
  <2>1. {k \in DOMAIN jobs : jobs[k].status \in Active} = ActiveJobs
    BY <1>2, <1>8 DEF ActiveIsExact, ActiveJobs
  <2> DEFINE act == {k \in DOMAIN jobs' : jobs'[k].status \in Active}
  <2>2. act = ActiveJobs \cup (IF items = {} THEN {} ELSE {new})
    BY <1>5, <1>7, <1>9, <2>1
  <2> HIDE DEF act
  <2>3. Cardinality(ActiveJobs \cup {new}) <= Cardinality(ActiveJobs) + 1
    <3>1. new \notin ActiveJobs
      BY <1>7, <1>8 DEF ActiveJobs
    <3>2. Cardinality(ActiveJobs \cup {new}) = Cardinality(ActiveJobs) + 1
      BY <1>3, <3>1, FS_AddElement
    <3> QED
      BY <1>3, <3>2, FS_CardinalityType
  <2>4. Cardinality(ActiveJobs) \in Nat /\ ActiveLimit \in Nat /\ MaxRetained \in Nat
        /\ Cardinality(kept \ Pruned) \in Nat
    BY <1>3, <1>8, FS_CardinalityType, OcrAssumption
  <2>5. Cardinality(act) <= ActiveLimit
    <3>1. CASE items = {}
      <4>1. act = ActiveJobs
        BY <2>2, <3>1
      <4> QED
        BY <1>1, <2>4, <4>1
    <3>2. CASE items # {}
      <4>1. Cardinality(ActiveJobs \cup {new}) \in Nat
        BY <1>3, FS_AddElement, FS_CardinalityType
      <4>2. act = ActiveJobs \cup {new}
        BY <2>2, <3>2
      <4> QED
        BY <1>1, <2>3, <2>4, <4>1, <4>2
    <3> QED
      BY <3>1, <3>2
  <2>6. Cardinality(kept') <= MaxRetained
    <3>1. new \notin kept \ Pruned
      BY <1>7, <1>8
    <3>2. Cardinality((kept \ Pruned) \cup {new}) = Cardinality(kept \ Pruned) + 1
      BY <1>8, <3>1, FS_AddElement
    <3> QED
      BY <1>1, <1>8, <2>4, <3>2
  <2> QED
    BY <2>5, <2>6 DEF LimitsKept, act
<1> QED
  BY <1>10, <1>11, <1>13, <1>14, <1>16, <1>17 DEF JobsInv

\* A job goes on by itself: it is cancelled, or its workers are let in.
LEMMA GoesOn ==
  ASSUME JobsInv, NEW j \in DOMAIN jobs, Cancel(j) \/ Run(j)
  PROVE  JobsInv'
<1>1. PICK r : /\ jobs' = [jobs EXCEPT ![j] = r]
               /\ r = [jobs[j] EXCEPT !.cancel = TRUE]
                  \/ (r = [jobs[j] EXCEPT !.status = "running"] /\ jobs[j].status = "pending")
  BY DEF Cancel, Run
<1>2. /\ JobsTyped /\ ReadersTyped /\ WorkersFit /\ AllBalanced /\ ActiveIsExact /\ LimitsKept
      /\ jobs[j] \in JobRecord /\ j \in 1..MaxJobs
  BY JobTyped DEF JobsInv
<1>3. kept' = kept /\ active' = active /\ reader' = reader
  BY DEF Cancel, Run
<1>4. /\ r \in JobRecord /\ r.chapter = jobs[j].chapter /\ r.items = jobs[j].items
      /\ r.status \in Active <=> jobs[j].status \in Active
      /\ r.status = jobs[j].status \/ (r.status = "running" /\ jobs[j].status = "pending")
      /\ jobs[j].cancel => r.cancel
      /\ r.todo = jobs[j].todo /\ r.retry = jobs[j].retry /\ r.completed = jobs[j].completed
      /\ r.stale = jobs[j].stale /\ r.failed = jobs[j].failed
  BY <1>1, <1>2 DEF JobRecord, Active, Terminal
<1>5. JobsTyped' /\ DOMAIN jobs' = DOMAIN jobs /\ jobs'[j] = r
      /\ \A k \in DOMAIN jobs : k # j => jobs'[k] = jobs[k]
  BY <1>1, <1>2, <1>3, <1>4, Replace
<1>6. ActiveIsExact' /\ LimitsKept'
  BY <1>1, <1>2, <1>3, <1>4, StillActive
<1>7. ReadersTyped'
  BY <1>2, <1>3 DEF ReadersTyped
<1>8. WorkersFit'
  <2>1. ASSUME NEW k \in 1..MaxJobs, NEW w \in Worker
        PROVE  LET s == reader[<<k, w>>] IN
               /\ s # Idle => k \in DOMAIN jobs' /\ jobs'[k].status # "pending"
               /\ Busy(s) => jobs'[k].status = "running"
               /\ s.at = "done" => (s.outcome = "cancelled" => jobs'[k].cancel)
    <3>1. LET s == reader[<<k, w>>] IN
          /\ s # Idle => k \in DOMAIN jobs /\ jobs[k].status # "pending"
          /\ Busy(s) => jobs[k].status = "running"
          /\ s.at = "done" => (s.outcome = "cancelled" => jobs[k].cancel)
      BY <1>2 DEF WorkersFit
    <3>2. reader[<<k, w>>].at = "done" => reader[<<k, w>>] # Idle
      BY DEF Idle
    <3>3. Busy(reader[<<k, w>>]) => reader[<<k, w>>] # Idle
      BY DEF Idle, Busy
    <3>4. CASE k = j
      BY <1>4, <1>5, <3>1, <3>4
    <3>5. CASE k # j
      BY <1>5, <3>1, <3>2, <3>3, <3>5
    <3> QED
      BY <3>4, <3>5
  <2> QED
    BY <1>2, <1>3, <2>1 DEF WorkersFit
<1>9. AllBalanced'
  <2>1. \A k \in DOMAIN jobs : InHand(k)' = InHand(k)
    BY <1>3 DEF InHand, WorkersOf
  <2>2. Balanced(jobs[j], InHand(j))
    BY <1>2 DEF AllBalanced
  <2>3. Balanced(r, InHand(j))
    BY <1>4, <2>2 DEF Balanced
  <2> QED
    BY <1>2, <1>5, <2>1, <2>3 DEF AllBalanced
<1> QED
  BY <1>5, <1>6, <1>7, <1>8, <1>9 DEF JobsInv

\* A worker takes a box.
LEMMA TakeStep ==
  ASSUME JobsInv, NEW j \in 1..MaxJobs, NEW w \in Worker, Take(j, w)
  PROVE  JobsInv'
<1>1. /\ j \in DOMAIN jobs /\ jobs[j].status = "running" /\ reader[<<j, w>>] = Idle
      /\ UNCHANGED <<kept, active>>
  BY DEF Take
<1>2. PICK b \in jobs[j].todo : /\ jobs' = [jobs EXCEPT ![j].todo = @ \ {b}]
                                /\ reader' = [reader EXCEPT ![<<j, w>>] = Looking(b)]
  BY DEF Take
<1>3. /\ JobsTyped /\ ReadersTyped /\ WorkersFit /\ AllBalanced /\ ActiveIsExact /\ LimitsKept
      /\ jobs[j] \in JobRecord
  BY <1>1, JobTyped DEF JobsInv
<1>4. PICK r : r = [jobs[j] EXCEPT !.todo = @ \ {b}]
  OBVIOUS
<1>5. /\ jobs' = [jobs EXCEPT ![j] = r] /\ r \in JobRecord
      /\ r.chapter = jobs[j].chapter /\ r.items = jobs[j].items
      /\ r.status = jobs[j].status /\ r.cancel = jobs[j].cancel /\ b \in Box
  BY <1>1, <1>2, <1>3, <1>4 DEF JobRecord
<1>6. JobsTyped' /\ DOMAIN jobs' = DOMAIN jobs /\ jobs'[j] = r
      /\ \A k \in DOMAIN jobs : k # j => jobs'[k] = jobs[k]
  BY <1>1, <1>3, <1>5, Replace
<1>7. ActiveIsExact' /\ LimitsKept'
  BY <1>1, <1>3, <1>5, StillActive
<1>8. PICK s : s = Looking(b)
  OBVIOUS
<1>9. /\ Stage(s) /\ s # Idle /\ Busy(s) /\ s.box = b /\ s.at # "done" /\ ~Busy(reader[<<j, w>>])
      /\ reader' = [reader EXCEPT ![<<j, w>>] = s]
  BY <1>1, <1>2, <1>5, <1>8 DEF Stage, Looking, Idle, Busy
<1>10. Balanced(jobs[j], InHand(j))
  BY <1>1, <1>3 DEF AllBalanced
<1>11. b \notin InHand(j)
  BY <1>10 DEF Balanced
<1>12. /\ ReadersTyped' /\ \A k \in 1..MaxJobs : k # j => InHand(k)' = InHand(k)
       /\ InHand(j)' = InHand(j) \cup {b}
  BY <1>3, <1>9, WorkerMoves
<1>13. WorkersFit'
  <2>1. \A k \in DOMAIN jobs : jobs'[k].status = jobs[k].status /\ jobs'[k].cancel = jobs[k].cancel
    BY <1>5, <1>6
  <2> QED
    BY <1>1, <1>3, <1>6, <1>9, <1>11, <2>1, WorkersStillFit
<1>14. AllBalanced'
  <2>1. Balanced(r, InHand(j) \cup {b})
    BY <1>3, <1>4, <1>10, TakeBalances
  <2>2. \A k \in DOMAIN jobs : k \in 1..MaxJobs
    BY <1>3, JobTyped
  <2> QED
    BY <1>3, <1>6, <1>12, <2>1, <2>2 DEF AllBalanced
<1> QED
  BY <1>6, <1>7, <1>12, <1>13, <1>14 DEF JobsInv

\* A worker leaves.
LEMMA LeaveStep ==
  ASSUME JobsInv, NEW j \in 1..MaxJobs, NEW w \in Worker, Leave(j, w)
  PROVE  JobsInv'
<1>1. /\ j \in DOMAIN jobs /\ jobs[j].status = "running" /\ reader[<<j, w>>] = Idle
      /\ UNCHANGED <<jobs, kept, active>> /\ reader' = [reader EXCEPT ![<<j, w>>] = Gone]
  BY DEF Leave, manager
<1>2. /\ JobsTyped /\ ReadersTyped /\ WorkersFit /\ AllBalanced /\ ActiveIsExact /\ LimitsKept
  BY DEF JobsInv
<1>3. /\ Stage(Gone) /\ ~Busy(Gone) /\ ~Busy(reader[<<j, w>>]) /\ Gone.at # "done"
  BY <1>1 DEF Stage, Gone, Idle, Busy
<1>4. /\ ReadersTyped' /\ \A k \in 1..MaxJobs : InHand(k)' = InHand(k)
  <2>1. ReadersTyped' /\ \A k \in 1..MaxJobs : k # j => InHand(k)' = InHand(k)
    BY <1>1, <1>2, <1>3, WorkerMoves
  <2>2. InHand(j)' = InHand(j)
    BY <1>1, <1>2, <1>3, WorkerMoves
  <2> QED
    BY <2>1, <2>2
<1>5. WorkersFit'
  BY <1>1, <1>2, <1>3, WorkersStillFit
<1>6. AllBalanced'
  BY <1>1, <1>2, <1>4, JobTyped DEF AllBalanced
<1>7. JobsTyped' /\ ActiveIsExact' /\ LimitsKept'
  BY <1>1, <1>2 DEF JobsTyped, ActiveIsExact, LimitsKept, ActiveJobs
<1> QED
  BY <1>4, <1>5, <1>6, <1>7 DEF JobsInv

\* A worker reports what became of its box.
LEMMA RecordStep ==
  ASSUME JobsInv, NEW j \in DOMAIN jobs, NEW w \in Worker, Record(j, w)
  PROVE  JobsInv'
<1>1. PICK o, b : /\ reader[<<j, w>>].at = "done"
                  /\ o = reader[<<j, w>>].outcome /\ b = reader[<<j, w>>].box
                  /\ jobs' = [jobs EXCEPT ![j] = Counted(jobs[j], b, o)]
                  /\ reader' = [reader EXCEPT ![<<j, w>>] = Idle] /\ UNCHANGED <<kept, active>>
  BY DEF Record
<1>2. /\ JobsTyped /\ ReadersTyped /\ WorkersFit /\ AllBalanced /\ ActiveIsExact /\ LimitsKept
      /\ jobs[j] \in JobRecord /\ j \in 1..MaxJobs
  BY JobTyped DEF JobsInv
<1>3. Stage(reader[<<j, w>>])
  BY <1>2, GroupIsApart DEF ReadersTyped
<1>4. /\ Busy(reader[<<j, w>>]) /\ o \in {"read", "stale", "failed", "cancelled"} /\ b \in Box
  BY <1>1, <1>3, StageCases DEF Busy
<1>5. o = "cancelled" => jobs[j].cancel
  BY <1>1, <1>2 DEF WorkersFit
<1>6. b \in InHand(j)
  <2>1. InHand(j) = {x \in Box : \E v \in Worker : Busy(reader[<<j, v>>]) /\ reader[<<j, v>>].box = x}
    BY <1>2, HandIs
  <2> QED
    BY <1>1, <1>4, <2>1
<1>7. Balanced(jobs[j], InHand(j))
  BY <1>2 DEF AllBalanced
<1>8. PICK r : r = Counted(jobs[j], b, o)
  OBVIOUS
<1>9. r \in JobRecord /\ Balanced(r, InHand(j) \ {b})
  BY <1>2, <1>4, <1>5, <1>6, <1>7, <1>8, CountBalances
<1>10. /\ r.chapter = jobs[j].chapter /\ r.items = jobs[j].items
       /\ r.status = jobs[j].status /\ r.cancel = jobs[j].cancel
  <2>1. \/ r = [jobs[j] EXCEPT !.completed = @ + 1]
        \/ r = [jobs[j] EXCEPT !.stale = @ + 1, !.retry = @ \cup {b}]
        \/ r = [jobs[j] EXCEPT !.failed = @ + 1, !.retry = @ \cup {b}]
        \/ r = jobs[j]
    BY <1>4, <1>8 DEF Counted
  <2> QED
    BY <1>2, <2>1 DEF JobRecord
<1>11. JobsTyped' /\ DOMAIN jobs' = DOMAIN jobs /\ jobs'[j] = r
       /\ \A k \in DOMAIN jobs : k # j => jobs'[k] = jobs[k]
  BY <1>1, <1>2, <1>8, <1>9, <1>10, Replace
<1>12. ActiveIsExact' /\ LimitsKept'
  BY <1>1, <1>2, <1>8, <1>9, <1>10, StillActive
<1>13. /\ Stage(Idle) /\ ~Busy(Idle) /\ Idle.at # "done"
  BY DEF Stage, Idle, Busy
<1>14. /\ ReadersTyped' /\ \A k \in 1..MaxJobs : k # j => InHand(k)' = InHand(k)
       /\ InHand(j)' = InHand(j) \ {b}
  <2>1. ReadersTyped' /\ \A k \in 1..MaxJobs : k # j => InHand(k)' = InHand(k)
    BY <1>1, <1>2, <1>13, WorkerMoves
  <2>2. InHand(j)' = (IF Busy(reader[<<j, w>>]) THEN InHand(j) \ {reader[<<j, w>>].box} ELSE InHand(j))
                     \cup (IF Busy(Idle) THEN {Idle.box} ELSE {})
    BY <1>1, <1>2, <1>13, WorkerMoves
  <2> QED
    BY <1>1, <1>4, <1>13, <2>1, <2>2
<1>15. WorkersFit'
  <2>1. \A k \in DOMAIN jobs : jobs'[k].status = jobs[k].status /\ jobs'[k].cancel = jobs[k].cancel
    BY <1>10, <1>11
  <2> QED
    BY <1>1, <1>2, <1>11, <1>13, <2>1, WorkersStillFit
<1>16. AllBalanced'
  <2>1. \A k \in DOMAIN jobs : k \in 1..MaxJobs
    BY <1>2, JobTyped
  <2> QED
    BY <1>2, <1>9, <1>11, <1>14, <2>1 DEF AllBalanced
<1> QED
  BY <1>11, <1>12, <1>14, <1>15, <1>16 DEF JobsInv

\* A job whose workers are all gone ends, and gives its chapter up.
LEMMA FinishStep ==
  ASSUME JobsInv, NEW j \in DOMAIN jobs, Finish(j)
  PROVE  JobsInv'
<1>1. PICK r : /\ jobs' = [jobs EXCEPT ![j] = r]
               /\ r = [jobs[j] EXCEPT !.status = IF jobs[j].cancel THEN "cancelled" ELSE "completed"]
  BY DEF Finish
<1>2. /\ JobsTyped /\ ReadersTyped /\ WorkersFit /\ AllBalanced /\ ActiveIsExact /\ LimitsKept
      /\ jobs[j] \in JobRecord /\ j \in 1..MaxJobs
  BY JobTyped DEF JobsInv
<1>3. /\ jobs[j].status = "running" /\ kept' = kept /\ active' = active \ {jobs[j].chapter}
      /\ reader' = reader /\ \A w \in Worker : reader[<<j, w>>] = Gone
  BY WorkersAre DEF Finish
<1>4. /\ r \in JobRecord /\ r.chapter = jobs[j].chapter /\ r.items = jobs[j].items
      /\ r.status \notin Active /\ r.status # "pending" /\ r.cancel = jobs[j].cancel
      /\ r.todo = jobs[j].todo /\ r.retry = jobs[j].retry /\ r.completed = jobs[j].completed
      /\ r.stale = jobs[j].stale /\ r.failed = jobs[j].failed
  BY <1>1, <1>2 DEF JobRecord, Active, Terminal
<1>5. JobsTyped' /\ DOMAIN jobs' = DOMAIN jobs /\ jobs'[j] = r
      /\ \A k \in DOMAIN jobs : k # j => jobs'[k] = jobs[k]
  BY <1>1, <1>2, <1>3, <1>4, Replace
<1>6. ReadersTyped'
  BY <1>2, <1>3 DEF ReadersTyped
<1>7. WorkersFit'
  <2>1. ASSUME NEW k \in 1..MaxJobs, NEW w \in Worker
        PROVE  LET s == reader[<<k, w>>] IN
               /\ s # Idle => k \in DOMAIN jobs' /\ jobs'[k].status # "pending"
               /\ Busy(s) => jobs'[k].status = "running"
               /\ s.at = "done" => (s.outcome = "cancelled" => jobs'[k].cancel)
    <3>1. LET s == reader[<<k, w>>] IN
          /\ s # Idle => k \in DOMAIN jobs /\ jobs[k].status # "pending"
          /\ Busy(s) => jobs[k].status = "running"
          /\ s.at = "done" => (s.outcome = "cancelled" => jobs[k].cancel)
      BY <1>2 DEF WorkersFit
    <3>2. (reader[<<k, w>>].at = "done" \/ Busy(reader[<<k, w>>])) => reader[<<k, w>>] # Idle
      BY DEF Idle, Busy
    <3>3. CASE k = j
      <4>1. ~Busy(reader[<<k, w>>]) /\ reader[<<k, w>>].at # "done"
        BY <1>3, <3>3 DEF Busy, Gone
      <4> QED
        BY <1>4, <1>5, <3>1, <3>3, <4>1
    <3>4. CASE k # j
      BY <1>5, <3>1, <3>2, <3>4
    <3> QED
      BY <3>3, <3>4
  <2> QED
    BY <1>2, <1>3, <2>1 DEF WorkersFit
<1>8. AllBalanced'
  <2>1. \A k \in DOMAIN jobs : InHand(k)' = InHand(k)
    BY <1>3 DEF InHand, WorkersOf
  <2>2. Balanced(jobs[j], InHand(j))
    BY <1>2 DEF AllBalanced
  <2>3. Balanced(r, InHand(j))
    BY <1>4, <2>2 DEF Balanced
  <2> QED
    BY <1>2, <1>5, <2>1, <2>3 DEF AllBalanced
<1>9. j \in ActiveJobs /\ ActiveJobs \subseteq DOMAIN jobs /\ kept \subseteq DOMAIN jobs
      /\ ActiveJobs' = ActiveJobs \ {j}
  <2>1. j \in kept
    BY <1>2, <1>3 DEF ActiveIsExact, Active
  <2>2. kept \subseteq DOMAIN jobs
    BY <1>2 DEF JobsTyped
  <2> QED
    BY <1>3, <1>4, <1>5, <2>1, <2>2 DEF ActiveJobs, Active
<1>10. ActiveIsExact'
  <2>1. \A k \in DOMAIN jobs' : jobs'[k].status \in Active => k \in kept'
    BY <1>2, <1>3, <1>4, <1>5 DEF ActiveIsExact
  <2>2. /\ active = {jobs[k].chapter : k \in ActiveJobs}
        /\ \A i, k \in ActiveJobs : jobs[i].chapter = jobs[k].chapter => i = k
    BY <1>2 DEF ActiveIsExact
  <2>3. \A k \in ActiveJobs \ {j} : jobs'[k].chapter = jobs[k].chapter
    BY <1>5, <1>9
  <2>4. active' = {jobs'[k].chapter : k \in ActiveJobs'}
    BY <1>3, <1>9, <2>2, <2>3
  <2> QED
    BY <1>9, <2>1, <2>2, <2>3, <2>4 DEF ActiveIsExact
<1>11. LimitsKept'
  <2> DEFINE before == {k \in DOMAIN jobs : jobs[k].status \in Active}
             after == {k \in DOMAIN jobs' : jobs'[k].status \in Active}
  <2>1. after \subseteq before
    BY <1>4, <1>5
  <2>2. IsFiniteSet(before)
    BY <1>2, KeptFinite, FS_Subset
  <2> HIDE DEF before, after
  <2>3. Cardinality(after) <= Cardinality(before) /\ Cardinality(before) \in Nat /\ Cardinality(after) \in Nat
    BY <2>1, <2>2, FS_Subset, FS_CardinalityType
  <2>4. Cardinality(before) <= ActiveLimit
    BY <1>2 DEF LimitsKept, before
  <2>5. Cardinality(after) <= ActiveLimit
    BY <2>3, <2>4, OcrAssumption
  <2> QED
    BY <1>2, <1>3, <2>5 DEF LimitsKept, after
<1> QED
  BY <1>5, <1>6, <1>7, <1>8, <1>10, <1>11 DEF JobsInv

\* A reading goes on, from one stage to another of the same box.
ReadsOn(r, s) ==
  /\ reader' = [reader EXCEPT ![r] = s] /\ UNCHANGED manager
  /\ Busy(reader[r]) /\ Busy(s) /\ s.box = reader[r].box
  /\ s.at = "done" /\ s.outcome = "cancelled" => Cancelled(r)

LEMMA ReadIsOn ==
  ASSUME ReadersTyped, BoxTyped, NEW r \in Reader, Look(r) \/ ReadFails(r) \/ CommitBox(r)
  PROVE  \E s : Stage(s) /\ ReadsOn(r, s)
<1>1. Stage(reader[r]) /\ reader[r].at \in {"looking", "reading"}
  BY DEF ReadersTyped, Look, ReadFails, CommitBox
<1>2. PICK b \in Box : b = reader[r].box
  BY <1>1, StageCases DEF Busy
<1>3. \A o, t : Ends(r, o, t) => reader' = [reader EXCEPT ![r] = Done(b, o, t)]
  BY <1>2 DEF Ends
<1>4. /\ box[b].crop \in Crop /\ box[b].text \in Crop \cup {Unread}
      /\ reader[r].at = "reading" => reader[r].crop \in Crop
  BY <1>1, StageCases DEF BoxTyped
<1>5. \/ \E o \in {"failed", "stale"} : reader' = [reader EXCEPT ![r] = Done(b, o, Unread)]
      \/ Cancelled(r) /\ reader' = [reader EXCEPT ![r] = Done(b, "cancelled", Unread)]
      \/ \E c \in Crop : reader' = [reader EXCEPT ![r] = Done(b, "read", c)]
      \/ \E c \in Crop : reader' = [reader EXCEPT ![r] = Reading(b, c)]
  <2>1. CASE Look(r)
    BY <1>2, <1>3, <1>4, <2>1 DEF Look
  <2>2. CASE ReadFails(r)
    BY <1>3, <2>2 DEF ReadFails
  <2>3. CASE CommitBox(r)
    BY <1>2, <1>3, <1>4, <2>3 DEF CommitBox
  <2> QED
    BY <2>1, <2>2, <2>3
<1>6. UNCHANGED manager /\ Busy(reader[r])
  BY <1>1 DEF Look, ReadFails, CommitBox, Busy
<1>7. /\ \A o \in {"failed", "stale", "cancelled"} :
             LET s == Done(b, o, Unread) IN Stage(s) /\ Busy(s) /\ s.box = b /\ s.outcome = o
      /\ \A c \in Crop : LET s == Done(b, "read", c) IN Stage(s) /\ Busy(s) /\ s.box = b /\ s.outcome = "read"
      /\ \A c \in Crop : LET s == Reading(b, c) IN Stage(s) /\ Busy(s) /\ s.box = b /\ s.at # "done"
  BY DEF Stage, Busy, Done, Reading
<1> QED
  BY <1>2, <1>5, <1>6, <1>7 DEF ReadsOn

\* A reading that goes on leaves the accounts of its job as they were.
LEMMA ReadStep ==
  ASSUME JobsInv, NEW r \in Reader, NEW s, Stage(s), ReadsOn(r, s)
  PROVE  JobsInv'
<1>1. /\ JobsTyped /\ ReadersTyped /\ WorkersFit /\ AllBalanced /\ ActiveIsExact /\ LimitsKept
      /\ UNCHANGED manager /\ reader' = [reader EXCEPT ![r] = s]
  BY DEF JobsInv, ReadsOn
<1>2. CASE r = Group
  <2>1. DOMAIN reader' = Reader /\ \A q \in Reader : Stage(reader'[q])
    BY <1>1 DEF ReadersTyped
  <2>2. ReadersTyped'
    BY <2>1 DEF ReadersTyped, Stage
  <2>3. \A k \in 1..MaxJobs, v \in Worker : reader'[<<k, v>>] = reader[<<k, v>>]
    BY <1>1, <1>2, GroupIsApart DEF ReadersTyped
  <2> QED
    BY <1>1, <2>2, <2>3, Elsewhere
<1>3. ASSUME NEW j \in 1..MaxJobs, NEW w \in Worker, r = <<j, w>>
      PROVE  JobsInv'
  <2>1. /\ Busy(reader[<<j, w>>]) /\ Busy(s) /\ s.box = reader[<<j, w>>].box
        /\ s.at = "done" /\ s.outcome = "cancelled" => Cancelled(<<j, w>>)
        /\ reader' = [reader EXCEPT ![<<j, w>>] = s]
    BY <1>3 DEF ReadsOn
  <2>2. /\ jobs' = jobs /\ kept' = kept /\ active' = active
    BY <1>1 DEF manager
  <2>3. reader[<<j, w>>] # Idle
    BY <2>1 DEF Busy, Idle
  <2>4. j \in DOMAIN jobs /\ jobs[j].status = "running"
    BY <1>1, <2>1, <2>3 DEF WorkersFit
  <2>5. s.at = "done" => (s.outcome = "cancelled" => jobs[j].cancel)
    BY <2>1 DEF Cancelled
  <2>6. WorkersFit'
    BY <1>1, <2>1, <2>2, <2>4, <2>5, WorkersStillFit
  <2>7. reader[<<j, w>>].box \in InHand(j)
    <3>1. InHand(j) = {x \in Box : \E v \in Worker : Busy(reader[<<j, v>>]) /\ reader[<<j, v>>].box = x}
      BY <1>1, HandIs
    <3>2. <<j, w>> \in Reader
      BY GroupIsApart
    <3>3. Stage(reader[<<j, w>>])
      BY <1>1, <3>2 DEF ReadersTyped
    <3>4. reader[<<j, w>>].box \in Box
      BY <2>1, <3>3, StageCases
    <3> QED
      BY <2>1, <3>1, <3>4
  <2>8. ReadersTyped' /\ \A k \in 1..MaxJobs : k # j => InHand(k)' = InHand(k)
    <3>1. ReadersTyped /\ WorkersFit /\ Stage(s) /\ reader' = [reader EXCEPT ![<<j, w>>] = s]
      BY <1>1, <2>1
    <3> QED
      BY <3>1, WorkerMoves
  <2>9. InHand(j)' = InHand(j)
    <3>1. InHand(j)' = (IF Busy(reader[<<j, w>>]) THEN InHand(j) \ {reader[<<j, w>>].box} ELSE InHand(j))
                       \cup (IF Busy(s) THEN {s.box} ELSE {})
      BY <1>1, <2>1, WorkerMoves
    <3> QED
      BY <2>1, <2>7, <3>1
  <2>10. AllBalanced'
    BY <1>1, <2>2, <2>8, <2>9, JobTyped DEF AllBalanced
  <2>11. JobsTyped' /\ ActiveIsExact' /\ LimitsKept'
    BY <1>1, <2>2 DEF JobsTyped, ActiveIsExact, LimitsKept, ActiveJobs
  <2> QED
    BY <2>6, <2>8, <2>10, <2>11 DEF JobsInv
<1> QED
  BY <1>2, <1>3 DEF Reader

\* The grouped reading moves from box to box.
LEMMA GroupMoves ==
  ASSUME ReadersTyped, TextsTyped, GroupTake \/ GroupCollect
  PROVE  /\ ReadersTyped' /\ UNCHANGED manager
         /\ \A j \in 1..MaxJobs, w \in Worker : reader'[<<j, w>>] = reader[<<j, w>>]
<1>1. PICK s : Stage(s) /\ reader' = [reader EXCEPT ![Group] = s]
  <2>1. CASE GroupTake
    <3>1. PICK b \in group.todo : reader' = [reader EXCEPT ![Group] = Looking(b)]
      BY <2>1 DEF GroupTake
    <3>2. b \in Box
      <4>1. group \in GroupRecord
        BY <2>1 DEF TextsTyped, GroupTake, NoGroup
      <4> QED
        BY <4>1, OcrAssumption DEF GroupRecord
    <3> QED
      BY <3>1, <3>2 DEF Stage
  <2>2. CASE GroupCollect
    <3>1. Stage(Idle)
      BY DEF Stage
    <3>2. reader' = [reader EXCEPT ![Group] = Idle]
      BY <2>2 DEF GroupCollect
    <3> QED
      BY <3>1, <3>2
  <2> QED
    BY <2>1, <2>2
<1>2. DOMAIN reader' = Reader /\ \A q \in Reader : Stage(reader'[q])
  BY <1>1 DEF ReadersTyped
<1>3. ReadersTyped'
  BY <1>2 DEF ReadersTyped, Stage
<1>4. \A k \in 1..MaxJobs, v \in Worker : reader'[<<k, v>>] = reader[<<k, v>>]
  BY <1>1, GroupIsApart DEF ReadersTyped
<1> QED
  BY <1>3, <1>4 DEF GroupTake, GroupCollect

\* Nothing was started at first.
LEMMA JobsInit == Init => JobsInv
<1> SUFFICES ASSUME Init
             PROVE  JobsInv
  OBVIOUS
<1>1. jobs = <<>> /\ kept = {} /\ active = {} /\ reader = [r \in Reader |-> Idle]
  BY DEF Init
<1>2. jobs \in Seq(JobRecord) /\ Len(jobs) = 0 /\ DOMAIN jobs = {}
  BY <1>1, EmptySeq
<1>3. JobsTyped
  BY <1>1, <1>2, OcrAssumption DEF JobsTyped
<1>4. ReadersTyped
  BY <1>1 DEF ReadersTyped, Stage
<1>5. WorkersFit
  <2>1. \A j \in 1..MaxJobs, w \in Worker : reader[<<j, w>>] = Idle
    BY <1>1, GroupIsApart
  <2>2. ~Busy(Idle) /\ Idle.at # "done"
    BY DEF Busy, Idle
  <2> QED
    BY <2>1, <2>2 DEF WorkersFit
<1>6. ActiveIsExact /\ LimitsKept
  <2>1. ActiveJobs = {} /\ {j \in DOMAIN jobs : jobs[j].status \in Active} = {}
    BY <1>1, <1>2 DEF ActiveJobs
  <2>2. Cardinality({}) = 0
    BY FS_EmptySet
  <2> QED
    BY <1>1, <1>2, <2>1, <2>2, OcrAssumption DEF ActiveIsExact, LimitsKept
<1> QED
  BY <1>2, <1>3, <1>4, <1>5, <1>6 DEF JobsInv, AllBalanced

\* Every step keeps the jobs, their workers and their accounts in order.
LEMMA JobsStep ==
  ASSUME JobsInv, TextsTyped, BoxTyped, [Next]_vars
  PROVE  JobsInv'
<1>1. JobsTyped /\ ReadersTyped
  BY DEF JobsInv
<1>2. ASSUME NEW c \in Chapter, NEW force \in BOOLEAN, Start(c, force)
      PROVE  JobsInv'
  <2>1. PlanChapter(c) \in SUBSET Box /\ \A b \in PlanChapter(c) : ChapterOf[b] = c
    BY DEF PlanChapter
  <2>2. Register(c, PlanChapter(c), force)
    BY <1>2 DEF Start
  <2> HIDE DEF PlanChapter
  <2> QED
    BY <2>1, <2>2, RegisterStep
<1>3. ASSUME NEW j \in 1..MaxJobs, Retry(j)
      PROVE  JobsInv'
  <2>1. j \in DOMAIN jobs /\ Register(jobs[j].chapter, jobs[j].retry, jobs[j].force)
    BY <1>1, <1>3 DEF Retry, JobsTyped
  <2>2. PICK c, items, force : c = jobs[j].chapter /\ items = jobs[j].retry /\ force = jobs[j].force
    OBVIOUS
  <2>3. /\ c \in Chapter /\ items \in SUBSET Box /\ force \in BOOLEAN
    BY <1>1, <2>1, <2>2, JobTyped DEF JobRecord
  <2>4. \A b \in items : ChapterOf[b] = c
    <3>1. items \subseteq jobs[j].items
      BY <2>1, <2>2 DEF JobsInv, AllBalanced, Balanced
    <3> QED
      BY <1>1, <2>1, <2>2, <3>1 DEF JobsTyped
  <2>5. Register(c, items, force)
    BY <2>1, <2>2
  <2> QED
    BY <2>3, <2>4, <2>5, RegisterStep
<1>4. ASSUME NEW j \in 1..MaxJobs, Cancel(j)
      PROVE  JobsInv'
  <2>1. j \in DOMAIN jobs
    BY <1>1, <1>4 DEF Cancel, JobsTyped
  <2> QED
    BY <1>4, <2>1, GoesOn
<1>5. ASSUME NEW r \in Reader, Look(r) \/ ReadFails(r) \/ CommitBox(r)
      PROVE  JobsInv'
  BY <1>1, <1>5, ReadIsOn, ReadStep
<1>6. ASSUME NEW j \in 1..MaxJobs, JobStep(j)
      PROVE  JobsInv'
  <2>1. j \in DOMAIN jobs
    BY <1>6 DEF JobStep
  <2>2. CASE Run(j) \/ Finish(j)
    BY <2>1, <2>2, GoesOn, FinishStep
  <2>3. ASSUME NEW w \in Worker, WorkerStep(j, w)
        PROVE  JobsInv'
    <3>1. <<j, w>> \in Reader
      BY GroupIsApart
    <3> QED
      BY <1>5, <2>1, <2>3, <3>1, TakeStep, LeaveStep, RecordStep DEF WorkerStep
  <2> QED
    BY <1>6, <2>2, <2>3 DEF JobStep
<1>7. CASE GroupTake \/ GroupCollect
  BY <1>1, <1>7, GroupMoves, Elsewhere
<1>8. ASSUME UNCHANGED <<manager, reader>>
      PROVE  JobsInv'
  <2>1. ReadersTyped'
    BY <1>1, <1>8 DEF ReadersTyped
  <2> QED
    BY <1>8, <2>1, Elsewhere
<1>9. CASE GroupStart \/ GroupCommit
  BY <1>8, <1>9 DEF GroupStart, GroupCommit
<1>10. ASSUME NEW b \in Box, SetReadable(b) \/ \E crop \in Crop : MoveBox(b, crop)
       PROVE  JobsInv'
  BY <1>8, <1>10 DEF MoveBox, SetReadable
<1>11. CASE TypeText \/ UNCHANGED vars
  BY <1>8, <1>11 DEF TypeText, vars
<1>12. Group \in Reader
  BY GroupIsApart
<1> QED
  BY <1>2, <1>3, <1>4, <1>5, <1>6, <1>7, <1>9, <1>10, <1>11, <1>12 DEF Next, GroupStep
-----------------------------------------------------------------------------
(* The texts. *)

\* The box of a reading is one.
LEMMA ReadsABox ==
  ASSUME ReadersTyped, NEW r \in Reader
  PROVE  /\ reader[r].at \in {"looking", "reading", "done"} => reader[r].box \in Box
         /\ reader[r].at = "looking" => reader[r] = Looking(reader[r].box)
         /\ reader[r].at = "reading" =>
              reader[r] = Reading(reader[r].box, reader[r].crop) /\ reader[r].crop \in Crop
  BY StageCases DEF ReadersTyped, Busy

\* A text is kept for the crop the box has.
LEMMA BoxStep ==
  ASSUME ReadersTyped, BoxTyped, CacheIsOfCrop, [Next]_vars
  PROVE  BoxTyped' /\ CacheIsOfCrop'
<1>1. CASE UNCHANGED box
  BY <1>1 DEF BoxTyped, CacheIsOfCrop
<1>2. ASSUME NEW r \in Reader, CommitBox(r)
      PROVE  BoxTyped' /\ CacheIsOfCrop'
  <2>1. PICK b, c : b = reader[r].box /\ c = reader[r].crop /\ b \in Box /\ c \in Crop
    BY <1>2, ReadsABox DEF CommitBox
  <2>2. \/ box' = box
        \/ box' = [box EXCEPT ![b].text = c] /\ box[b].crop = c
    BY <1>2, <2>1 DEF CommitBox, Changed
  <2>3. CASE box' = [box EXCEPT ![b].text = c] /\ box[b].crop = c
    <3>1. /\ box'[b] = [box[b] EXCEPT !.text = c] /\ DOMAIN box' = Box
          /\ \A x \in Box : x # b => box'[x] = box[x]
          /\ box' = [x \in Box |-> box'[x]]
      BY <2>1, <2>3 DEF BoxTyped
    <3>2. box'[b] \in [crop : Crop, readable : BOOLEAN, text : Crop \cup {Unread}]
          /\ box'[b].text = c /\ box'[b].crop = c
      BY <2>1, <2>3, <3>1 DEF BoxTyped
    <3>3. \A x \in Box : box'[x] \in [crop : Crop, readable : BOOLEAN, text : Crop \cup {Unread}]
      BY <2>1, <3>1, <3>2 DEF BoxTyped
    <3> QED
      BY <3>1, <3>2, <3>3 DEF BoxTyped, CacheIsOfCrop
  <2> QED
    BY <1>1, <2>2, <2>3
<1>3. ASSUME NEW b \in Box, NEW c \in Crop, MoveBox(b, c)
      PROVE  BoxTyped' /\ CacheIsOfCrop'
  <2>1. /\ box'[b] = [box[b] EXCEPT !.crop = c, !.text = Unread] /\ DOMAIN box' = Box
        /\ \A x \in Box : x # b => box'[x] = box[x]
        /\ box' = [x \in Box |-> box'[x]]
    BY <1>3 DEF MoveBox, BoxTyped
  <2>2. box'[b] \in [crop : Crop, readable : BOOLEAN, text : Crop \cup {Unread}]
        /\ box'[b].text = Unread
    <3>1. box[b] \in [crop : Crop, readable : BOOLEAN, text : Crop \cup {Unread}]
      BY DEF BoxTyped
    <3> QED
      BY <2>1, <3>1
  <2>3. \A x \in Box : box'[x] \in [crop : Crop, readable : BOOLEAN, text : Crop \cup {Unread}]
    BY <2>1, <2>2 DEF BoxTyped
  <2> QED
    BY <2>1, <2>2, <2>3 DEF BoxTyped, CacheIsOfCrop
<1>4. ASSUME NEW b \in Box, SetReadable(b)
      PROVE  BoxTyped' /\ CacheIsOfCrop'
  <2>1. /\ box'[b] = [box[b] EXCEPT !.readable = ~@] /\ DOMAIN box' = Box
        /\ \A x \in Box : x # b => box'[x] = box[x]
        /\ box' = [x \in Box |-> box'[x]]
    BY <1>4 DEF SetReadable, BoxTyped
  <2>2. box'[b] \in [crop : Crop, readable : BOOLEAN, text : Crop \cup {Unread}]
        /\ box'[b].text = box[b].text /\ box'[b].crop = box[b].crop
    BY <2>1 DEF BoxTyped
  <2>3. \A x \in Box : box'[x] \in [crop : Crop, readable : BOOLEAN, text : Crop \cup {Unread}]
    BY <2>1, <2>2 DEF BoxTyped
  <2> QED
    BY <2>1, <2>2, <2>3 DEF BoxTyped, CacheIsOfCrop
<1>5. \/ UNCHANGED box \/ \E r \in Reader : CommitBox(r)
      \/ \E b \in Box, c \in Crop : MoveBox(b, c)
      \/ \E b \in Box : SetReadable(b)
  <2>1. ASSUME NEW j \in 1..MaxJobs, JobStep(j)
        PROVE  UNCHANGED box \/ \E r \in Reader : CommitBox(r)
    <3>1. \A w \in Worker : <<j, w>> \in Reader
      BY GroupIsApart
    <3> QED
      BY <2>1, <3>1 DEF JobStep, WorkerStep, Run, Finish, Take, Leave, Record, Look, ReadFails
  <2>2. ASSUME GroupStep
        PROVE  UNCHANGED box \/ \E r \in Reader : CommitBox(r)
    BY <2>2, GroupIsApart DEF GroupStep, GroupTake, GroupCollect, GroupCommit, Look, ReadFails
  <2>3. ASSUME \/ \E c \in Chapter, force \in BOOLEAN : Start(c, force)
               \/ \E j \in 1..MaxJobs : Retry(j) \/ Cancel(j)
               \/ GroupStart \/ TypeText \/ UNCHANGED vars
        PROVE  UNCHANGED box
    BY <2>3 DEF Start, Retry, Register, Cancel, GroupStart, TypeText, vars
  <2> QED
    BY <2>1, <2>2, <2>3 DEF Next
<1> QED
  BY <1>1, <1>2, <1>3, <1>4, <1>5

\* The grouped reading under way, and what it has been given.
LEMMA GroupOn ==
  ASSUME TextsTyped, group.on
  PROVE  group \in GroupRecord
  BY DEF TextsTyped, NoGroup

LEMMA TextsStep ==
  ASSUME ReadersTyped, BoxTyped, TextsTyped, GroupFit, [Next]_vars
  PROVE  TextsTyped'
<1>1. CASE UNCHANGED <<object, group>>
  BY <1>1 DEF TextsTyped
<1>2. ASSUME NEW r \in Reader, CommitBox(r)
      PROVE  TextsTyped'
  <2>1. PICK b, c : b = reader[r].box /\ c = reader[r].crop /\ b \in Box /\ c \in Crop
    BY <1>2, ReadsABox DEF CommitBox
  <2>2. group' = group /\ (object' = object \/ object' = Followed(b, c))
    BY <1>2, <2>1 DEF CommitBox
  <2>3. Followed(b, c) \in [text : Texts, auto : Texts]
    BY <2>1 DEF Followed, TextsTyped, Texts
  <2> QED
    BY <2>2, <2>3 DEF TextsTyped
<1>3. CASE GroupStart
  <2>1. Signatures \subseteq Box \X Crop
    BY OcrAssumption DEF Signatures, BoxTyped
  <2>2. {q[1] : q \in Signatures} \subseteq Spanned
    BY DEF Signatures
  <2>3. object.text \in Texts
    BY DEF TextsTyped
  <2>4. PICK sig : sig = Signatures
    OBVIOUS
  <2>5. group' = [on |-> TRUE, signatures |-> sig, text |-> object.text,
                  todo |-> {q[1] : q \in sig}, got |-> {}, moved |-> [x \in Box |-> 0]]
    BY <1>3, <2>4 DEF GroupStart
  <2>6. group' \in GroupRecord
    BY <2>1, <2>2, <2>3, <2>4, <2>5 DEF GroupRecord
  <2>7. object' = object
    BY <1>3 DEF GroupStart
  <2> QED
    BY <2>6, <2>7 DEF TextsTyped
<1>4. CASE GroupTake
  <2>1. group \in GroupRecord /\ object' = object
    BY <1>4, GroupOn DEF GroupTake
  <2>2. PICK b \in group.todo : group' = [group EXCEPT !.todo = @ \ {b}]
    BY <1>4 DEF GroupTake
  <2>3. group' \in GroupRecord
    BY <2>1, <2>2 DEF GroupRecord
  <2> QED
    BY <2>1, <2>3 DEF TextsTyped
<1>5. CASE GroupCollect
  <2>1. object' = object /\ reader[Group].at = "done"
    BY <1>5 DEF GroupCollect
  <2>2. \/ group' = group \/ group' = NoGroup
        \/ \E b, t : /\ reader[Group].outcome = "read" /\ b = reader[Group].box /\ t = reader[Group].text
                     /\ group' = [group EXCEPT !.got = @ \cup {<<b, t>>}]
    BY <1>5 DEF GroupCollect
  <2>3. ASSUME NEW b, NEW t, reader[Group].outcome = "read", b = reader[Group].box, t = reader[Group].text,
               group' = [group EXCEPT !.got = @ \cup {<<b, t>>}]
        PROVE  group' = NoGroup \/ group' \in GroupRecord
    <3>1. b \in Box /\ t \in Crop
      BY <2>1, <2>3, GroupIsApart, StageCases DEF ReadersTyped, Busy
    <3>2. group \in GroupRecord
      BY <2>1, GroupOn DEF GroupFit, Idle
    <3>3. group.got \cup {<<b, t>>} \in SUBSET (Box \X Crop)
      BY <3>1, <3>2 DEF GroupRecord
    <3>4. [group EXCEPT !.got = group.got \cup {<<b, t>>}] \in GroupRecord
      <4> DEFINE got == group.got \cup {<<b, t>>}
      <4> HIDE DEF got
      <4>1. got \in SUBSET (Box \X Crop)
        BY <3>3 DEF got
      <4>2. [group EXCEPT !.got = got] \in GroupRecord
        BY <3>2, <4>1 DEF GroupRecord
      <4> QED
        BY <4>2 DEF got
    <3> QED
      BY <2>3, <3>4
  <2> QED
    BY <2>1, <2>2, <2>3 DEF TextsTyped
<1>6. CASE GroupCommit
  <2>1. group \in GroupRecord /\ group' = NoGroup
    BY <1>6, GroupOn DEF GroupCommit
  <2>2. {Whole} \in Texts /\ group.got \in Texts
    BY <2>1 DEF GroupRecord, Texts
  <2>3. object' = object \/ \E t \in Texts : object' = [object EXCEPT !.text = t]
    BY <1>6, <2>2 DEF GroupCommit
  <2>4. object' \in [text : Texts, auto : Texts]
    BY <2>3 DEF TextsTyped
  <2> QED
    BY <2>1, <2>4 DEF TextsTyped
<1>7. ASSUME NEW b \in Box, NEW c \in Crop, MoveBox(b, c)
      PROVE  TextsTyped'
  <2>1. object' = object /\ group' = IF group.on THEN [group EXCEPT !.moved[b] = @ + 1] ELSE group
    BY <1>7 DEF MoveBox
  <2>2. ASSUME group.on
        PROVE  [group EXCEPT !.moved[b] = @ + 1] \in GroupRecord
    <3>1. group \in GroupRecord
      BY <2>2, GroupOn
    <3>2. [group.moved EXCEPT ![b] = @ + 1] \in [Box -> Nat]
      BY <3>1 DEF GroupRecord
    <3>3. [group EXCEPT !.moved[b] = @ + 1] = [group EXCEPT !.moved = [group.moved EXCEPT ![b] = @ + 1]]
      BY <3>1 DEF GroupRecord
    <3> QED
      BY <3>1, <3>2, <3>3 DEF GroupRecord
  <2> QED
    BY <2>1, <2>2 DEF TextsTyped
<1>8. CASE TypeText
  <2>1. {Typed} \in Texts
    BY DEF Texts
  <2>2. group' = group /\ object' = [object EXCEPT !.text = {Typed}]
    BY <1>8 DEF TypeText
  <2> QED
    BY <2>1, <2>2 DEF TextsTyped
<1>9. \/ UNCHANGED <<object, group>> \/ \E r \in Reader : CommitBox(r)
      \/ GroupStart \/ GroupTake \/ GroupCollect \/ GroupCommit \/ TypeText
      \/ \E b \in Box, c \in Crop : MoveBox(b, c)
  <2>1. ASSUME NEW j \in 1..MaxJobs, JobStep(j)
        PROVE  UNCHANGED <<object, group>> \/ \E r \in Reader : CommitBox(r)
    <3>1. \A w \in Worker : <<j, w>> \in Reader
      BY GroupIsApart
    <3> QED
      BY <2>1, <3>1 DEF JobStep, WorkerStep, Run, Finish, Take, Leave, Record, Look, ReadFails
  <2>2. ASSUME GroupStep
        PROVE  \/ UNCHANGED <<object, group>> \/ \E r \in Reader : CommitBox(r)
               \/ GroupTake \/ GroupCollect \/ GroupCommit
    BY <2>2, GroupIsApart DEF GroupStep, Look, ReadFails
  <2>3. ASSUME \/ \E c \in Chapter, force \in BOOLEAN : Start(c, force)
               \/ \E j \in 1..MaxJobs : Retry(j) \/ Cancel(j)
               \/ \E b \in Box : SetReadable(b)
               \/ UNCHANGED vars
        PROVE  UNCHANGED <<object, group>>
    BY <2>3 DEF Start, Retry, Register, Cancel, SetReadable, vars
  <2> QED
    BY <2>1, <2>2, <2>3 DEF Next
<1> QED
  BY <1>1, <1>2, <1>3, <1>4, <1>5, <1>6, <1>7, <1>8, <1>9

\* The grouped reading is left alone by what moves no box and is not its own.
LEMMA GroupSame ==
  ASSUME GroupFit, UNCHANGED group, reader'[Group] = reader[Group],
         \A b \in Box : box'[b].crop = box[b].crop
  PROVE  GroupFit'
  BY DEF GroupFit, Signed, OfThisCrop

\* Only the grouped reading itself moves its reader.
LEMMA OthersLeaveGroup ==
  ASSUME NEW j \in 1..MaxJobs, NEW w \in Worker, NEW s, DOMAIN reader = Reader,
         reader' = [reader EXCEPT ![<<j, w>>] = s]
  PROVE  reader'[Group] = reader[Group]
  BY GroupIsApart

\* What becomes of the reading of a box for the group.
LEMMA GroupReads ==
  ASSUME ReadersTyped, BoxTyped, CacheIsOfCrop, TextsTyped, GroupFit,
         Look(Group) \/ ReadFails(Group) \/ CommitBox(Group)
  PROVE  GroupFit'
<1>1. Group \in Reader /\ Stage(reader[Group]) /\ DOMAIN reader = Reader
  BY GroupIsApart DEF ReadersTyped
<1>2. reader[Group].at \in {"looking", "reading"} /\ group' = group
  BY DEF Look, ReadFails, CommitBox
<1>3. PICK b : b = reader[Group].box /\ b \in Box
  BY <1>1, <1>2, ReadsABox
<1>4. /\ reader[Group].at = "looking" => reader[Group] = Looking(b)
      /\ reader[Group].at = "reading" =>
           reader[Group] = Reading(b, reader[Group].crop) /\ reader[Group].crop \in Crop
  BY <1>1, <1>3, ReadsABox
<1>5. group.on /\ group \in GroupRecord
  BY <1>2, GroupOn DEF GroupFit, Idle
<1>6. Signed(b)
  BY <1>2, <1>3, <1>4, <1>5 DEF GroupFit
<1>7. \A o, t : Ends(Group, o, t) => reader'[Group] = Done(b, o, t)
  BY <1>1, <1>3 DEF Ends
<1>8. \A x \in Box : box'[x].crop = box[x].crop
  <2>1. CASE UNCHANGED box
    BY <2>1
  <2>2. CASE CommitBox(Group) /\ box' # box
    <3>1. PICK c : box' = [box EXCEPT ![b].text = c]
      BY <1>3, <2>2 DEF CommitBox
    <3> QED
      BY <1>3, <3>1 DEF BoxTyped
  <2> QED
    BY <2>1, <2>2 DEF Look, ReadFails
<1>9. /\ box[b].crop \in Crop
      /\ \/ \E o \in {"failed", "stale", "cancelled"} : reader'[Group] = Done(b, o, Unread)
         \/ \E c \in Crop : /\ reader'[Group] = Done(b, "read", c) \/ reader'[Group] = Reading(b, c)
                            /\ c = box[b].crop
  <2>1. box[b].crop \in Crop /\ box[b].text \in {Unread, box[b].crop}
    BY <1>3 DEF BoxTyped, CacheIsOfCrop
  <2>2. CASE Look(Group)
    BY <1>1, <1>3, <1>7, <2>1, <2>2 DEF Look
  <2>3. CASE ReadFails(Group)
    BY <1>7, <2>1, <2>3 DEF ReadFails
  <2>4. CASE CommitBox(Group)
    BY <1>3, <1>7, <2>1, <2>4 DEF CommitBox, Changed
  <2> QED
    BY <2>2, <2>3, <2>4
<1>10. OfThisCrop(b, box[b].crop)
  BY DEF OfThisCrop
<1>11. \A x \in Box : LET s == reader'[Group] IN
         /\ s # Looking(x)
         /\ \A c \in Crop : s = Reading(x, c) => x = b /\ c = box[b].crop
         /\ \A c \in Crop : s = Done(x, "read", c) => x = b /\ c = box[b].crop
  <2>1. ASSUME NEW o \in {"failed", "stale", "cancelled"}, NEW x
        PROVE  /\ Done(b, o, Unread) # Looking(x)
               /\ \A c : Done(b, o, Unread) # Reading(x, c) /\ Done(b, o, Unread) # Done(x, "read", c)
    BY DEF Looking, Reading, Done
  <2>2. ASSUME NEW d, NEW x
        PROVE  /\ Done(b, "read", d) # Looking(x)
               /\ \A c : Done(b, "read", d) # Reading(x, c)
               /\ \A c : Done(b, "read", d) = Done(x, "read", c) => x = b /\ c = d
    BY DEF Looking, Reading, Done
  <2>3. ASSUME NEW d, NEW x
        PROVE  /\ Reading(b, d) # Looking(x)
               /\ \A c : Reading(b, d) = Reading(x, c) => x = b /\ c = d
               /\ \A c : Reading(b, d) # Done(x, "read", c)
    BY DEF Looking, Reading, Done
  <2> QED
    BY <1>9, <2>1, <2>2, <2>3
<1>12. /\ \A x : Signed(x)' <=> Signed(x)
       /\ \A x \in Box : \A c : OfThisCrop(x, c)' <=> OfThisCrop(x, c)
  BY <1>2, <1>8 DEF Signed, OfThisCrop
<1>13. \A x \in Box, c \in Crop : <<x, c>> \in group'.signatures =>
         OfThisCrop(x, c) /\ (group'.moved[x] = 1 => box'[x].crop # c)
  BY <1>2, <1>5, <1>8 DEF GroupFit
<1>14. /\ \A x \in group'.todo : Signed(x)
       /\ \A x \in Box, c \in Crop : <<x, c>> \in group'.got => Signed(x) /\ OfThisCrop(x, c)
  BY <1>2, <1>5 DEF GroupFit
<1>15. group'.on
  BY <1>2, <1>5
<1> QED
  BY <1>3, <1>6, <1>10, <1>11, <1>12, <1>13, <1>14, <1>15 DEF GroupFit

\* A grouped reading begins with the crops of its boxes and no text.
LEMMA GroupStarts ==
  ASSUME ReadersTyped, BoxTyped, GroupFit, GroupStart
  PROVE  GroupFit'
<1>1. /\ ~group.on /\ box' = box /\ reader' = reader /\ reader[Group] = Idle
  BY DEF GroupStart, GroupFit
<1>2. PICK sig : sig = Signatures
  OBVIOUS
<1>3. /\ group'.on /\ group'.signatures = sig /\ group'.todo = {q[1] : q \in sig}
      /\ group'.got = {} /\ group'.moved = [x \in Box |-> 0]
  BY <1>2 DEF GroupStart
<1>4. \A q \in sig : q[1] \in Box /\ q[2] = box[q[1]].crop /\ q[2] \in Crop /\ q = <<q[1], q[2]>>
  BY <1>2, OcrAssumption DEF Signatures, BoxTyped
<1>5. \A x \in Box, c \in Crop : <<x, c>> \in sig => c = box[x].crop
  BY <1>4
<1>6. \A x \in Box : group'.moved[x] = 0
  BY <1>3
<1>7. \A x \in Box, c \in Crop : <<x, c>> \in group'.signatures =>
        OfThisCrop(x, c)' /\ (group'.moved[x] = 1 => box'[x].crop # c)
  BY <1>1, <1>3, <1>5, <1>6 DEF OfThisCrop
<1>8. \A x \in group'.todo : Signed(x)'
  BY <1>3, <1>4 DEF Signed
<1>9. \A x : Idle # Looking(x) /\ \A c : Idle # Reading(x, c) /\ Idle # Done(x, "read", c)
  BY DEF Idle, Looking, Reading, Done
<1> QED
  BY <1>1, <1>3, <1>7, <1>8, <1>9 DEF GroupFit

\* It takes its boxes one after the other, and collects their texts.
LEMMA GroupTakes ==
  ASSUME ReadersTyped, BoxTyped, TextsTyped, GroupFit, GroupTake
  PROVE  GroupFit'
<1>1. /\ group.on /\ box' = box /\ group \in GroupRecord
  BY GroupOn DEF GroupTake
<1>2. PICK b \in group.todo : /\ group' = [group EXCEPT !.todo = @ \ {b}]
                              /\ reader' = [reader EXCEPT ![Group] = Looking(b)]
  BY DEF GroupTake
<1>3. reader'[Group] = Looking(b)
  BY <1>2, GroupIsApart DEF ReadersTyped
<1>4. /\ group'.on /\ group'.signatures = group.signatures /\ group'.todo = group.todo \ {b}
      /\ group'.got = group.got /\ group'.moved = group.moved
  BY <1>1, <1>2 DEF GroupRecord
<1>5. /\ \A x : Signed(x)' <=> Signed(x)
      /\ \A x, c : OfThisCrop(x, c)' <=> OfThisCrop(x, c)
  BY <1>1, <1>4 DEF Signed, OfThisCrop
<1>6. \A x : Looking(b) = Looking(x) => x = b
  BY DEF Looking
<1>7. \A x, c : Looking(b) # Reading(x, c) /\ Looking(b) # Done(x, "read", c)
  BY DEF Looking, Reading, Done
<1>8. \A x \in group.todo : Signed(x)
  BY <1>1 DEF GroupFit
<1>9. \A x \in Box, c \in Crop : <<x, c>> \in group.signatures =>
        OfThisCrop(x, c) /\ (group.moved[x] = 1 => box[x].crop # c)
  BY <1>1 DEF GroupFit
<1>10. \A x \in Box, c \in Crop : <<x, c>> \in group.got => Signed(x) /\ OfThisCrop(x, c)
  BY <1>1 DEF GroupFit
<1> QED
  BY <1>1, <1>3, <1>4, <1>5, <1>6, <1>7, <1>8, <1>9, <1>10 DEF GroupFit

LEMMA GroupCollects ==
  ASSUME ReadersTyped, BoxTyped, TextsTyped, GroupFit, GroupCollect
  PROVE  GroupFit'
<1>1. /\ reader[Group].at = "done" /\ box' = box /\ Stage(reader[Group])
      /\ reader' = [reader EXCEPT ![Group] = Idle]
  BY GroupIsApart DEF GroupCollect, ReadersTyped
<1>2. group.on /\ group \in GroupRecord
  BY <1>1, GroupOn DEF GroupFit, Idle
<1>3. reader'[Group] = Idle
  BY <1>1, GroupIsApart DEF ReadersTyped
<1>4. PICK b, t : b = reader[Group].box /\ t = reader[Group].text
  OBVIOUS
<1>5. \/ group' = group \/ group' = NoGroup
      \/ reader[Group].outcome = "read" /\ group' = [group EXCEPT !.got = @ \cup {<<b, t>>}]
  BY <1>4 DEF GroupCollect
<1>6. \A x : Idle # Looking(x) /\ \A c : Idle # Reading(x, c) /\ Idle # Done(x, "read", c)
  BY DEF Idle, Looking, Reading, Done
<1>7. /\ \A x \in group.todo : Signed(x)
      /\ \A x \in Box, c \in Crop : <<x, c>> \in group.signatures =>
           OfThisCrop(x, c) /\ (group.moved[x] = 1 => box[x].crop # c)
      /\ \A x \in Box, c \in Crop : <<x, c>> \in group.got => Signed(x) /\ OfThisCrop(x, c)
  BY <1>2 DEF GroupFit
<1>8. CASE group' = NoGroup
  BY <1>3, <1>8 DEF GroupFit, NoGroup
<1>9. CASE group' = group
  <2>1. /\ \A x : Signed(x)' <=> Signed(x)
        /\ \A x, c : OfThisCrop(x, c)' <=> OfThisCrop(x, c)
    BY <1>1, <1>9 DEF Signed, OfThisCrop
  <2> QED
    BY <1>1, <1>2, <1>3, <1>6, <1>7, <1>9, <2>1 DEF GroupFit
<1>10. CASE reader[Group].outcome = "read" /\ group' = [group EXCEPT !.got = @ \cup {<<b, t>>}]
  <2>1. b \in Box /\ t \in Crop /\ reader[Group] = Done(b, "read", t)
    BY <1>1, <1>4, <1>10, StageCases DEF Busy
  <2>2. Signed(b) /\ OfThisCrop(b, t)
    BY <1>2, <2>1 DEF GroupFit
  <2>3. /\ group'.on /\ group'.signatures = group.signatures /\ group'.todo = group.todo
        /\ group'.got = group.got \cup {<<b, t>>} /\ group'.moved = group.moved
    BY <1>2, <1>10 DEF GroupRecord
  <2>4. /\ \A x : Signed(x)' <=> Signed(x)
        /\ \A x, c : OfThisCrop(x, c)' <=> OfThisCrop(x, c)
    BY <1>1, <2>3 DEF Signed, OfThisCrop
  <2>5. \A x \in Box, c \in Crop : <<x, c>> \in group'.got => Signed(x) /\ OfThisCrop(x, c)
    <3> SUFFICES ASSUME NEW x \in Box, NEW c \in Crop, <<x, c>> \in group'.got
                 PROVE  Signed(x) /\ OfThisCrop(x, c)
      OBVIOUS
    <3>1. <<x, c>> \in group.got \/ (x = b /\ c = t)
      BY <2>3
    <3> QED
      BY <1>7, <2>2, <3>1
  <2> QED
    BY <1>1, <1>3, <1>6, <1>7, <2>3, <2>4, <2>5 DEF GroupFit
<1> QED
  BY <1>5, <1>8, <1>9, <1>10

\* A box that moves is noticed.
LEMMA GroupMoved ==
  ASSUME ReadersTyped, BoxTyped, TextsTyped, GroupFit, NEW b \in Box, NEW d \in Crop, MoveBox(b, d)
  PROVE  GroupFit'
<1>1. /\ reader' = reader /\ d # box[b].crop /\ box' = [box EXCEPT ![b].crop = d, ![b].text = Unread]
      /\ group' = IF group.on THEN [group EXCEPT !.moved[b] = @ + 1] ELSE group
  BY DEF MoveBox
<1>2. CASE ~group.on
  BY <1>1, <1>2 DEF GroupFit
<1>3. CASE group.on
  <2>1. group \in GroupRecord
    BY <1>3, GroupOn
  <2>2. /\ group'.on /\ group'.signatures = group.signatures /\ group'.todo = group.todo
        /\ group'.got = group.got
        /\ group.moved[b] \in Nat /\ group'.moved[b] = group.moved[b] + 1
        /\ \A x \in Box : x # b => group'.moved[x] = group.moved[x]
    BY <1>1, <1>3, <2>1 DEF GroupRecord
  <2>3. box'[b].crop = d /\ \A x \in Box : x # b => box'[x].crop = box[x].crop
    BY <1>1 DEF BoxTyped
  <2>4. group'.moved[b] # 0 /\ (group'.moved[b] = 1 => group.moved[b] = 0)
    BY <2>2
  <2>5. \A x \in Box : \A c : OfThisCrop(x, c) => OfThisCrop(x, c)'
    BY <2>2, <2>3, <2>4 DEF OfThisCrop
  <2>6. \A x : Signed(x)' <=> Signed(x)
    BY <2>2 DEF Signed
  <2>7. \A x \in Box, c \in Crop : <<x, c>> \in group.signatures =>
          OfThisCrop(x, c) /\ (group.moved[x] = 1 => box[x].crop # c)
    BY <1>3 DEF GroupFit
  <2>8. \A x \in Box, c \in Crop : <<x, c>> \in group'.signatures =>
          (group'.moved[x] = 1 => box'[x].crop # c)
    <3> SUFFICES ASSUME NEW x \in Box, NEW c \in Crop, <<x, c>> \in group.signatures, group'.moved[x] = 1
                 PROVE  box'[x].crop # c
      BY <2>2
    <3>1. CASE x = b
      BY <1>1, <2>3, <2>4, <2>7, <3>1 DEF OfThisCrop
    <3>2. CASE x # b
      BY <2>2, <2>3, <2>7, <3>2
    <3> QED
      BY <3>1, <3>2
  <2>9. /\ \A x \in group.todo : Signed(x)
        /\ \A x \in Box, c \in Crop : <<x, c>> \in group.got => Signed(x) /\ OfThisCrop(x, c)
    BY <1>3 DEF GroupFit
  <2>10. \A x \in Box : LET s == reader[Group] IN
            /\ s = Looking(x) => Signed(x)
            /\ \A c \in Crop : s = Reading(x, c) => Signed(x) /\ OfThisCrop(x, c)
            /\ \A c \in Crop : s = Done(x, "read", c) => Signed(x) /\ OfThisCrop(x, c)
    BY <1>3 DEF GroupFit
  <2> QED
    BY <1>1, <2>2, <2>5, <2>6, <2>7, <2>8, <2>9, <2>10 DEF GroupFit
<1> QED
  BY <1>2, <1>3

\* What the workers do leaves the grouped reading as it was.
LEMMA WorkersLeaveGroup ==
  ASSUME ReadersTyped, BoxTyped, GroupFit, NEW j \in 1..MaxJobs, JobStep(j)
  PROVE  GroupFit'
<1>1. DOMAIN reader = Reader
  BY DEF ReadersTyped
<1>2. ASSUME UNCHANGED reader
      PROVE  reader'[Group] = reader[Group]
  BY <1>2
<1>3. ASSUME NEW w \in Worker, NEW s, reader' = [reader EXCEPT ![<<j, w>>] = s]
      PROVE  reader'[Group] = reader[Group]
  BY <1>1, <1>3, OthersLeaveGroup
<1>4. ASSUME NEW w \in Worker, WorkerStep(j, w)
      PROVE  reader'[Group] = reader[Group] /\ UNCHANGED group
  <2>1. \E s : reader' = [reader EXCEPT ![<<j, w>>] = s]
    <3>1. CASE Take(j, w)
      BY <3>1 DEF Take
    <3>2. CASE Leave(j, w)
      BY <3>2 DEF Leave
    <3>3. CASE Record(j, w)
      BY <3>3 DEF Record
    <3>4. CASE Look(<<j, w>>) \/ ReadFails(<<j, w>>) \/ CommitBox(<<j, w>>)
      <4>1. <<j, w>> \in Reader
        BY GroupIsApart
      <4> QED
        BY <3>4, <4>1, ReadIsOn DEF ReadsOn
    <3> QED
      BY <1>4, <3>1, <3>2, <3>3, <3>4 DEF WorkerStep
  <2>2. UNCHANGED group
    BY <1>4 DEF WorkerStep, Take, Leave, Record, Look, ReadFails, CommitBox
  <2> QED
    BY <1>3, <2>1, <2>2
<1>5. reader'[Group] = reader[Group] /\ UNCHANGED group
  <2>1. CASE Run(j) \/ Finish(j)
    BY <1>2, <2>1 DEF Run, Finish
  <2> QED
    BY <1>4, <2>1 DEF JobStep
<1>6. \A x \in Box : box'[x].crop = box[x].crop
  <2>1. CASE UNCHANGED box
    BY <2>1
  <2>2. ASSUME NEW r \in Reader, CommitBox(r)
        PROVE  \A x \in Box : box'[x].crop = box[x].crop
    <3>1. PICK b, c : b = reader[r].box /\ c = reader[r].crop
      OBVIOUS
    <3>2. box' = box \/ box' = [box EXCEPT ![b].text = c]
      BY <2>2, <3>1 DEF CommitBox
    <3> QED
      BY <3>2 DEF BoxTyped
  <2>3. UNCHANGED box \/ \E r \in Reader : CommitBox(r)
    <3>1. \A w \in Worker : <<j, w>> \in Reader
      BY GroupIsApart
    <3> QED
      BY <3>1 DEF JobStep, WorkerStep, Run, Finish, Take, Leave, Record, Look, ReadFails
  <2> QED
    BY <2>1, <2>2, <2>3
<1> QED
  BY <1>5, <1>6, GroupSame

\* Every step keeps the grouped reading in order.
LEMMA GroupFitStep ==
  ASSUME ReadersTyped, BoxTyped, CacheIsOfCrop, TextsTyped, GroupFit, [Next]_vars
  PROVE  GroupFit'
<1>1. ASSUME NEW j \in 1..MaxJobs, JobStep(j)
      PROVE  GroupFit'
  BY <1>1, WorkersLeaveGroup
<1>2. ASSUME UNCHANGED <<reader, group>>, \A x \in Box : box'[x].crop = box[x].crop
      PROVE  GroupFit'
  BY <1>2, GroupSame
<1>3. CASE \/ \E c \in Chapter, force \in BOOLEAN : Start(c, force)
           \/ \E j \in 1..MaxJobs : Retry(j) \/ Cancel(j)
           \/ TypeText \/ UNCHANGED vars
  <2>1. UNCHANGED <<reader, group, box>>
    BY <1>3 DEF Start, Retry, Register, Cancel, TypeText, vars
  <2> QED
    BY <1>2, <2>1
<1>4. ASSUME NEW b \in Box, SetReadable(b)
      PROVE  GroupFit'
  <2>1. UNCHANGED <<reader, group>> /\ box' = [box EXCEPT ![b].readable = ~@]
    BY <1>4 DEF SetReadable
  <2>2. \A x \in Box : box'[x].crop = box[x].crop
    BY <2>1 DEF BoxTyped
  <2> QED
    BY <1>2, <2>1, <2>2
<1>5. ASSUME NEW b \in Box, NEW d \in Crop, MoveBox(b, d)
      PROVE  GroupFit'
  BY <1>5, GroupMoved
<1>6. CASE GroupStart
  BY <1>6, GroupStarts
<1>7. CASE GroupTake \/ GroupCollect
  BY <1>7, GroupTakes, GroupCollects
<1>8. CASE GroupCommit
  BY <1>8 DEF GroupCommit, GroupFit, NoGroup
<1>9. CASE Look(Group) \/ ReadFails(Group) \/ CommitBox(Group)
  BY <1>9, GroupReads
<1> QED
  BY <1>1, <1>3, <1>4, <1>5, <1>6, <1>7, <1>8, <1>9 DEF Next, GroupStep

\* The inductive invariant.
OcrInv == JobsInv /\ BoxTyped /\ CacheIsOfCrop /\ TextsTyped /\ GroupFit

LEMMA OcrInvariance == Spec => []OcrInv
<1>1. Init => OcrInv
  <2> SUFFICES ASSUME Init
               PROVE  OcrInv
    OBVIOUS
  <2>1. JobsInv
    BY JobsInit
  <2>2. BoxTyped /\ CacheIsOfCrop
    BY DEF Init, BoxTyped, CacheIsOfCrop
  <2>3. TextsTyped /\ GroupFit
    BY GroupIsApart DEF Init, TextsTyped, Texts, GroupFit, NoGroup
  <2> QED
    BY <2>1, <2>2, <2>3 DEF OcrInv
<1>2. OcrInv /\ [Next]_vars => OcrInv'
  <2> SUFFICES ASSUME OcrInv, [Next]_vars
               PROVE  OcrInv'
    OBVIOUS
  <2>1. ReadersTyped /\ JobsInv /\ BoxTyped /\ CacheIsOfCrop /\ TextsTyped /\ GroupFit
    BY DEF OcrInv, JobsInv
  <2> QED
    BY <2>1, JobsStep, BoxStep, TextsStep, GroupFitStep DEF OcrInv
<1> QED
  BY <1>1, <1>2, PTL DEF Spec

\* A text in a machine cache was read from the crop the box has now, however often it was moved
\* while it was read (_commit_box_result, ocr/service.py:595-636).
THEOREM CacheFollowsCrop == Spec => []CacheIsOfCrop
<1>1. OcrInv => CacheIsOfCrop
  BY DEF OcrInv
<1> QED
  BY <1>1, OcrInvariance, PTL

\* Every box of a job is in the queue, in one worker's hands or counted once, and what there is
\* to retry is what was counted as stale or failed (ocr/jobs.py:174-246).
THEOREM BoxesCountedOnce == Spec => []CountedOnce
<1>1. OcrInv => CountedOnce
  BY DEF OcrInv, JobsInv, AllBalanced, Balanced, CountedOnce
<1> QED
  BY <1>1, OcrInvariance, PTL

\* What the manager knows of the jobs fits what their workers do: a chapter is taken exactly
\* while its one active job is known, the limits are kept, and nobody works for a job that is
\* over (ocr/jobs.py:76-108, 166-192, 248-259).
THEOREM ManagerIsOK == Spec => []ManagerOK
<1>1. OcrInv => ManagerOK
  <2> SUFFICES ASSUME OcrInv
               PROVE  TypeOK /\ OverIsOver
    BY DEF OcrInv, JobsInv, ManagerOK
  <2>1. /\ JobsTyped /\ ReadersTyped /\ WorkersFit /\ AllBalanced
        /\ BoxTyped /\ CacheIsOfCrop /\ TextsTyped
    BY DEF OcrInv, JobsInv
  <2>2. \A j \in DOMAIN jobs : jobs[j] \in JobRecord /\ j \in 1..MaxJobs
    BY <2>1, JobTyped
  <2>3. \A j \in DOMAIN jobs :
          /\ jobs[j].chapter \in Chapter /\ jobs[j].status \in Active \cup Terminal
          /\ jobs[j].todo \subseteq jobs[j].items /\ jobs[j].retry \subseteq jobs[j].items
          /\ jobs[j].items \subseteq {b \in Box : ChapterOf[b] = jobs[j].chapter}
    <3>1. \A j \in DOMAIN jobs : jobs[j].todo \subseteq jobs[j].items /\ jobs[j].retry \subseteq jobs[j].items
      BY <2>1 DEF AllBalanced, Balanced
    <3> QED
      BY <2>1, <2>2, <3>1 DEF JobRecord, JobsTyped
  <2>4. \A r \in Reader :
          /\ reader[r].at \in {"idle", "looking", "reading", "done", "gone"}
          /\ reader[r].at \notin {"idle", "gone"} => reader[r].box \in Box
    BY <2>1, StageCases DEF ReadersTyped, Busy
  <2>5. object.text \in Texts /\ object.auto \in Texts
    BY <2>1 DEF TextsTyped
  <2>6. group.on => group.todo \subseteq Spanned /\ group.got \in Texts
    BY <2>1, GroupOn DEF GroupRecord, Texts
  <2>7. TypeOK
    BY <2>1, <2>3, <2>4, <2>5, <2>6 DEF TypeOK, BoxTyped, JobsTyped, ReadersTyped
  <2>8. ASSUME NEW j \in DOMAIN jobs, jobs[j].status \in Terminal
        PROVE  InHand(j) = {}
    <3>1. \A w \in Worker : ~Busy(reader[<<j, w>>])
      BY <2>1, <2>2, <2>8 DEF WorkersFit, Terminal
    <3> QED
      BY <2>1, <2>2, <3>1, HandIs
  <2> QED
    BY <2>7, <2>8 DEF OverIsOver
<1> QED
  BY <1>1, OcrInvariance, PTL

\* A grouped reading delivers texts of the crops its boxes have at that moment, although they
\* were read one after the other without a lock (_group_result_stale, ocr/service.py:826-848).
THEOREM GroupDeliversNow == Spec => GroupIsOfNow
<1>1. OcrInv /\ [Next]_vars =>
        [Delivers => OfNow]_vars
  <2> SUFFICES ASSUME OcrInv, [Next]_vars, Delivers, NEW q \in object'.text \cap (Box \X Crop)
               PROVE  box[q[1]].crop = q[2] \/ group.moved[q[1]] > 1
    BY DEF Delivers, OfNow
  <2>1. ReadersTyped /\ BoxTyped /\ TextsTyped /\ GroupFit /\ group.on /\ group \in GroupRecord
    BY GroupOn DEF OcrInv, JobsInv, Delivers
  <2>2. GroupCommit
    <3>1. ASSUME NEW j \in 1..MaxJobs, JobStep(j)
          PROVE  FALSE
      <4>1. \A w \in Worker : WorkerStep(j, w) => UNCHANGED group
        BY DEF WorkerStep, Take, Leave, Record, Look, ReadFails, CommitBox
      <4>2. UNCHANGED group
        BY <3>1, <4>1 DEF JobStep, Run, Finish
      <4> QED
        BY <4>2 DEF Delivers
    <3>2. ~Look(Group) /\ ~ReadFails(Group) /\ ~CommitBox(Group) /\ ~GroupCollect
      <4>1. Delivers => object' # object /\ group' # group
        BY DEF Delivers
      <4> QED
        BY <4>1 DEF Look, ReadFails, CommitBox, GroupCollect
    <3>3. ~GroupTake
      <4> SUFFICES ASSUME GroupTake
                   PROVE  FALSE
        OBVIOUS
      <4> QED
        BY <2>1 DEF GroupTake, Delivers, GroupRecord
    <3>4. ASSUME NEW b \in Box, NEW d \in Crop, MoveBox(b, d)
          PROVE  FALSE
      BY <3>4 DEF MoveBox, Delivers
    <3>5. ~(\/ \E c \in Chapter, force \in BOOLEAN : Start(c, force)
            \/ \E j \in 1..MaxJobs : Retry(j) \/ Cancel(j)
            \/ \E b \in Box : SetReadable(b)
            \/ GroupStart \/ TypeText \/ UNCHANGED vars)
      BY DEF Start, Retry, Register, Cancel, SetReadable, GroupStart, TypeText, vars, Delivers
    <3> QED
      BY <3>1, <3>2, <3>3, <3>4, <3>5 DEF Next, GroupStep
  <2>3. ~GroupStale /\ object'.text = (IF group.got = {} THEN {Whole} ELSE group.got)
    BY <2>1, <2>2 DEF GroupCommit, Delivers, TextsTyped
  <2>4. q \in group.got
    BY <2>3, OcrAssumption
  <2>5. PICK b \in Box, t \in Crop : q = <<b, t>>
    OBVIOUS
  <2>6. Signed(b) /\ OfThisCrop(b, t)
    BY <2>1, <2>4, <2>5 DEF GroupFit
  <2>7. PICK c \in Crop : <<b, c>> \in group.signatures
    BY <2>6 DEF Signed
  <2>8. c = box[b].crop
    BY <2>3, <2>7 DEF GroupStale, Signatures
  <2>9. group.moved[b] # 1
    BY <2>1, <2>7, <2>8 DEF GroupFit
  <2>10. group.moved[b] \in Nat
    BY <2>1 DEF GroupRecord
  <2> QED
    BY <2>5, <2>6, <2>9, <2>10 DEF OfThisCrop
<1> QED
  BY <1>1, OcrInvariance, PTL DEF Spec, GroupIsOfNow
=============================================================================
