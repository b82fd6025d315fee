---------------------------- MODULE MoneyProofs -----------------------------
(***************************************************************************)
(* Proofs about Wallet and AiMode, which share the lemmas on sums.         *)
(*                                                                         *)
(* Wallet, for any payments, chapters, requests, amounts and fee: the      *)
(* ledger is sound, also beside a backup; and when no backup is taken      *)
(* while the gateway serves, the requests in flight overspend neither the  *)
(* account nor their chapter.                                              *)
(*                                                                         *)
(* AiMode, for any requests, slices, objects, answers, edits and costs: a  *)
(* job at a time, whose slices keep to the budget and forget no object.    *)
(***************************************************************************)
EXTENDS Wallet, AiMode, FiniteSetTheorems, SequenceTheorems, WellFoundedInduction, TLAPS

USE WalletAssumption

Status == {"none", "pending", "paid", "amount_mismatch", "refunded"}
JobRecord == [status : {"none", "active"} \cup Closed, cost : Nat, cap : Nat,
              reserved : Nat, charged : Nat, requests : Nat]
CallRecord == [at : {"unsent", "flight", "unread", "over"}, job : Job \cup {"none"}, held : Nat]

\* A request in flight belongs to a job.
Named == \A c \in Call : calls[c].at = "flight" => calls[c].job \in Job

Typed == TypeOK /\ Named

LEMMA PriceNat ==
  ASSUME NEW spent \in Nat PROVE Price(spent) \in Nat
<1> DEFINE n == spent * (FeeDen + FeeNum)
           q == n \div FeeDen
<1>1. n \in Nat
  OBVIOUS
<1>2. q \in Nat
  <2> HIDE DEF n
  <2>1. QED
    BY <1>1
<1>3. Price(spent) \in {q, q + 1}
  <2>1. QED
    BY DEF Price
<1>4. QED
  BY <1>2, <1>3

\* The two updates of a job's counters keep its record well formed.
LEMMA HeldRecord ==
  ASSUME NEW r \in JobRecord, NEW h \in Nat
  PROVE  [r EXCEPT !.requests = @ + 1, !.reserved = @ + h] \in JobRecord
<1>1. r.requests + 1 \in Nat /\ r.reserved + h \in Nat
  BY DEF JobRecord
<1>2. QED
  BY <1>1 DEF JobRecord

LEMMA ChargedRecord ==
  ASSUME NEW r \in JobRecord, NEW spent \in Nat, NEW h \in Nat, NEW charge \in Nat
  PROVE  [r EXCEPT !.cost = @ + spent, !.reserved = IF @ > h THEN @ - h ELSE 0,
                   !.charged = @ + charge] \in JobRecord
<1>1. r.cost + spent \in Nat /\ (IF r.reserved > h THEN r.reserved - h ELSE 0) \in Nat
      /\ r.charged + charge \in Nat
  BY DEF JobRecord
<1>2. QED
  BY <1>1 DEF JobRecord

LEMMA TypedInit == Init => Typed
BY DEF Init, Typed, TypeOK, Named, NoJob, Closed, Ref

\* What booking a line does to the types of the ledger.
LEMMA BookTyped ==
  ASSUME Typed, NEW ref \in Ref, NEW d \in Int, Book(ref, d)
  PROVE  balance' \in Int /\ lines' \in [Ref -> Nat] /\ moved' \in [Ref -> Int]
BY DEF Typed, TypeOK, Book

LEMMA CloseTyped ==
  ASSUME Typed, NEW S \in SUBSET Job, NEW end \in Closed, CloseJobs(S, end)
  PROVE  jobs' \in [Job -> JobRecord] /\ lines' \in [Ref -> Nat] /\ moved' \in [Ref -> Int]
<1>1. jobs \in [Job -> JobRecord] /\ lines \in [Ref -> Nat] /\ moved \in [Ref -> Int]
  BY DEF Typed, TypeOK, JobRecord
<1>2. \A j \in Job : [jobs[j] EXCEPT !.status = end] \in JobRecord
  BY <1>1 DEF JobRecord
<1>3. \A j \in Job : jobs[j].charged \in Nat
  BY <1>1 DEF JobRecord
<1>4. QED
  BY <1>1, <1>2, <1>3 DEF CloseJobs

LEMMA AddCostTyped ==
  ASSUME Typed, NEW c \in Call, NEW spent \in Nat, AddCost(c, spent)
  PROVE  Typed'
<1> DEFINE j == calls[c].job
           h == calls[c].held
<1>1. calls \in [Call -> CallRecord] /\ jobs \in [Job -> JobRecord]
  BY DEF Typed, TypeOK, CallRecord, JobRecord
<1>2. j \in Job /\ h \in Nat
  BY <1>1 DEF Typed, Named, AddCost, CallRecord
<1>3. Price(spent) \in Nat /\ Price(h) \in Nat
  BY <1>2, PriceNat
<1>4. jobs' \in [Job -> JobRecord]
  <2>1. jobs' = [jobs EXCEPT ![j] = [jobs[j] EXCEPT
                   !.cost = @ + spent, !.reserved = IF @ > h THEN @ - h ELSE 0,
                   !.charged = @ + Price(spent)]]
    BY <1>1, <1>2 DEF AddCost, JobRecord
  <2> HIDE DEF j, h
  <2>2. QED
    BY <1>1, <1>2, <1>3, <2>1, ChargedRecord
<1>5. calls' \in [Call -> CallRecord] /\ Named'
  BY <1>1 DEF Typed, Named, AddCost, CallRecord
<1>6. balance' \in Int /\ held' \in Nat /\ forgiven' \in Nat /\ overrun' \in [Job -> Nat]
  BY <1>2, <1>3 DEF Typed, TypeOK, AddCost
<1>7. QED
  BY <1>4, <1>5, <1>6 DEF Typed, TypeOK, AddCost, ledger, JobRecord, CallRecord

LEMMA OpenTyped ==
  ASSUME Typed, OpenStore
  PROVE  jobs' \in [Job -> JobRecord] /\ held' \in Nat
<1>1. \A j \in Job : [jobs[j] EXCEPT !.reserved = 0] \in JobRecord
  BY DEF Typed, TypeOK, JobRecord
<1>2. QED
  BY <1>1 DEF OpenStore

LEMMA TypedStep == Typed /\ [Next]_vars => Typed'
<1> SUFFICES ASSUME Typed, [Next]_vars PROVE Typed'
  OBVIOUS
<1> USE DEF wallet, ledger, history
<1>1. CASE Adjust
  <2>1. PICK d \in AdjustAmount : Book("adjust", d)
               /\ forgiven' = forgiven + (IF d < 0 THEN -d ELSE 0)
    BY <1>1 DEF Adjust
  <2>2. d \in Int /\ "adjust" \in Ref
    BY DEF Ref
  <2>3. forgiven' \in Nat /\ adjusts' \in 0..MaxAdjusts
    BY <1>1, <2>1, <2>2 DEF Adjust, Typed, TypeOK
  <2>4. QED
    BY <1>1, <2>1, <2>2, <2>3, BookTyped DEF Adjust, Typed, TypeOK, Named
<1>2. ASSUME NEW p \in Payment, CreatePayment(p) PROVE Typed'
  BY <1>2 DEF CreatePayment, Typed, TypeOK, Named
<1>3. ASSUME NEW p \in Payment, CompletePayment(p) PROVE Typed'
  <2>1. p \in Ref /\ Credit \in Int
    BY DEF Ref
  <2>2. balance' \in Int /\ lines' \in [Ref -> Nat] /\ moved' \in [Ref -> Int]
    BY <1>3, <2>1, BookTyped DEF CompletePayment, Typed, TypeOK
  <2>3. QED
    BY <1>3, <2>2 DEF CompletePayment, Typed, TypeOK, Named
<1>4. ASSUME NEW p \in Payment, RefundPayment(p) PROVE Typed'
  <2>1. p \in Ref /\ -Credit \in Int
    BY DEF Ref
  <2>2. balance' \in Int /\ lines' \in [Ref -> Nat] /\ moved' \in [Ref -> Int]
    BY <1>4, <2>1, BookTyped DEF RefundPayment, Typed, TypeOK
  <2>3. QED
    BY <1>4, <2>2 DEF RefundPayment, Typed, TypeOK, Named
<1>5. ASSUME NEW j \in Job, ReserveJob(j) PROVE Typed'
  <2> DEFINE affordable == (Available * FeeDen) \div (FeeDen + FeeNum)
  <2>1. balance \in Int /\ held \in Nat /\ Available >= 0
    BY <1>5 DEF ReserveJob, Typed, TypeOK, Available
  <2>2. affordable \in Nat
    <3>1. Available * FeeDen \in Nat
      BY <2>1 DEF Available
    <3> DEFINE m == Available * FeeDen
    <3> HIDE DEF m
    <3>2. m \div (FeeDen + FeeNum) \in Nat
      BY <3>1 DEF m
    <3>3. QED
      BY <3>2 DEF m
  <2> DEFINE cap == IF affordable < Guard THEN affordable ELSE Guard
             new == [NoJob EXCEPT !.status = "active", !.cap = cap]
  <2>3. jobs' = [jobs EXCEPT ![j] = new]
    BY <1>5 DEF ReserveJob
  <2>4. cap \in Nat
    BY <2>2
  <2>5. new \in JobRecord
    <3> HIDE DEF cap
    <3>1. QED
      BY <2>4 DEF NoJob, JobRecord
  <2>6. jobs' \in [Job -> JobRecord]
    <3> HIDE DEF new
    <3>1. QED
      BY <2>3, <2>5 DEF Typed, TypeOK, JobRecord
  <2>7. QED
    BY <1>5, <2>6 DEF ReserveJob, Typed, TypeOK, Named, JobRecord
<1>6. ASSUME NEW c \in Call, NEW j \in Job, BeginRequest(c, j) PROVE Typed'
  <2>1. PICK h \in HoldAmount : Hold(c, j, h)
    BY <1>6 DEF BeginRequest
  <2>2. h \in Nat /\ Price(h) \in Nat
    BY PriceNat
  <2>3. jobs' \in [Job -> JobRecord]
    <3>1. jobs \in [Job -> JobRecord]
      BY DEF Typed, TypeOK, JobRecord
    <3>2. jobs' = [jobs EXCEPT ![j] = [jobs[j] EXCEPT !.requests = @ + 1, !.reserved = @ + h]]
      BY <2>1, <3>1 DEF Hold, JobRecord
    <3>3. QED
      BY <2>2, <3>1, <3>2, HeldRecord
  <2>4. calls' \in [Call -> CallRecord] /\ Named'
    BY <2>1, <2>2 DEF Hold, Typed, TypeOK, Named, CallRecord
  <2>5. QED
    BY <2>1, <2>2, <2>3, <2>4 DEF Hold, Typed, TypeOK, JobRecord, CallRecord
<1>7. ASSUME NEW c \in Call, Answer(c) \/ Abandon(c) PROVE Typed'
  BY <1>7, AddCostTyped DEF Answer, Abandon
<1>u. ASSUME NEW c \in Call, AnswerUnread(c) PROVE Typed'
  <2>1. calls' \in [Call -> CallRecord] /\ Named'
    BY <1>u DEF AnswerUnread, Typed, TypeOK, Named, CallRecord
  <2>2. QED
    BY <1>u, <2>1 DEF AnswerUnread, wallet, ledger, history, Typed, TypeOK, JobRecord, CallRecord
<1>8. ASSUME NEW j \in Job, FinishJob(j) PROVE Typed'
  BY <1>8, CloseTyped DEF FinishJob, Closed, Typed, TypeOK, Named, JobRecord
<1>9. CASE Purge
  BY <1>9, CloseTyped DEF Purge, Closed, Typed, TypeOK, Named, JobRecord
<1>10. CASE DeleteAccount
  <2>1. \A j \in Job : [jobs[j] EXCEPT !.status = "cancelled"] \in JobRecord
    BY DEF Typed, TypeOK, JobRecord, Closed
  <2>2. jobs' \in [Job -> JobRecord]
    BY <1>10, <2>1 DEF DeleteAccount, Typed, TypeOK, JobRecord
  <2>3. QED
    BY <1>10, <2>2 DEF DeleteAccount, Typed, TypeOK, Named, JobRecord
<1>11. CASE Restart
  <2>1. calls' \in [Call -> CallRecord] /\ Named'
    BY <1>11 DEF Restart, Typed, TypeOK, Named, CallRecord, Holding
  <2>2. QED
    BY <1>11, <2>1, OpenTyped DEF Restart, OpenStore, Typed, TypeOK, JobRecord, CallRecord
<1>12. CASE Backup
  BY <1>12, OpenTyped DEF Backup, OpenStore, Typed, TypeOK, Named, JobRecord
<1>13. CASE UNCHANGED vars
  BY <1>13 DEF vars, Typed, TypeOK, Named
<1>14. QED
  BY <1>1, <1>2, <1>3, <1>4, <1>5, <1>6, <1>7, <1>u, <1>8, <1>9, <1>10, <1>11, <1>12, <1>13
     DEF Next, NextNoBackup, Money, Chapters

\* The wallet's tables stay well formed for any amounts, fee and number of jobs, also
\* when a backup clears holds under running requests (MAX(0, ...) in add_cost).
THEOREM WalletTypeCorrect == Spec => []TypeOK
<1>1. Typed => TypeOK
  BY DEF Typed
<1>2. QED
  BY <1>1, TypedInit, TypedStep, PTL DEF Spec

-----------------------------------------------------------------------------
\* CloseJobs books chapters only: the lines of the other refs stay.
LEMMA CloseKeepsRef ==
  ASSUME Typed, NEW S \in SUBSET Job, NEW end, CloseJobs(S, end), NEW x \in Ref, x \notin S
  PROVE  lines'[x] = lines[x] /\ moved'[x] = moved[x]
<1>1. lines[x] \in Nat /\ moved[x] \in Int
  BY DEF Typed, TypeOK
<1>2. lines'[x] = lines[x] + 0 /\ moved'[x] = moved[x] - 0
  BY DEF CloseJobs
<1>3. QED
  BY <1>1, <1>2

LEMMA CreditedInit == Init => CreditedOnce
BY DEF Init, CreditedOnce, Ref

LEMMA CreditedStep == Typed /\ CreditedOnce /\ [Next]_vars => CreditedOnce'
<1> SUFFICES ASSUME Typed, CreditedOnce, [Next]_vars PROVE CreditedOnce'
  OBVIOUS
<1> USE DEF wallet, ledger, history
<1>1. \A p \in Payment : p \in Ref /\ p \notin Job /\ p # "adjust"
  BY DEF Ref
<1>2. lines \in [Ref -> Nat] /\ moved \in [Ref -> Int] /\ payments \in [Payment -> Status]
  BY DEF Typed, TypeOK, Status
<1>3. CASE Adjust
  <2>1. \A p \in Payment : lines'[p] = lines[p] /\ moved'[p] = moved[p]
    BY <1>1, <1>2, <1>3 DEF Adjust, Book
  <2>2. QED
    BY <1>3, <2>1 DEF Adjust, CreditedOnce
<1>4. ASSUME NEW q \in Payment, CreatePayment(q) PROVE CreditedOnce'
  BY <1>2, <1>4 DEF CreatePayment, CreditedOnce
<1>5. ASSUME NEW q \in Payment, CompletePayment(q) PROVE CreditedOnce'
  <2>1. CASE payments[q] = "pending" /\ Book(q, Credit) /\ payments' = [payments EXCEPT ![q] = "paid"]
    <3>1. moved[q] = 0 /\ lines[q] = 0
      BY <2>1 DEF CreditedOnce
    <3>2. moved'[q] = Credit /\ lines'[q] = 1 /\ payments'[q] = "paid"
      BY <1>1, <1>2, <2>1, <3>1 DEF Book
    <3>3. \A p \in Payment \ {q} :
             moved'[p] = moved[p] /\ lines'[p] = lines[p] /\ payments'[p] = payments[p]
      BY <1>1, <1>2, <2>1 DEF Book
    <3>4. QED
      BY <3>2, <3>3 DEF CreditedOnce
  <2>2. CASE /\ payments[q] = "pending"
             /\ payments' = [payments EXCEPT ![q] = "amount_mismatch"]
             /\ UNCHANGED <<balance, ledger>>
    BY <1>2, <2>2 DEF CreditedOnce
  <2>3. CASE UNCHANGED <<balance, ledger, payments>>
    BY <2>3 DEF CreditedOnce
  <2>4. QED
    BY <1>5, <2>1, <2>2, <2>3 DEF CompletePayment
<1>6. ASSUME NEW q \in Payment, RefundPayment(q) PROVE CreditedOnce'
  BY <1>1, <1>2, <1>6 DEF RefundPayment, Book, CreditedOnce
<1>7. ASSUME NEW S \in SUBSET Job, NEW end, CloseJobs(S, end), UNCHANGED payments
      PROVE  CreditedOnce'
  BY <1>1, <1>7, CloseKeepsRef DEF CreditedOnce
<1>8. ASSUME NEW j \in Job, FinishJob(j) PROVE CreditedOnce'
  BY <1>7, <1>8 DEF FinishJob
<1>9. CASE Purge
  BY <1>7, <1>9 DEF Purge
<1>10. CASE UNCHANGED <<payments, lines, moved>>
  BY <1>10 DEF CreditedOnce
<1>11. QED
  BY <1>3, <1>4, <1>5, <1>6, <1>8, <1>9, <1>10
     DEF Next, NextNoBackup, Money, Chapters, ReserveJob, BeginRequest, Hold, Answer, Abandon,
         AnswerUnread, ledger, AddCost, DeleteAccount, Restart, Backup, OpenStore, vars

\* However often, late or out of order webhooks arrive, and whatever jobs run, fail or
\* are purged meanwhile, a top-up is in the balance exactly while it counts as paid.
THEOREM TopUpsCreditedOnce == Spec => []CreditedOnce
BY TypedInit, TypedStep, CreditedInit, CreditedStep, PTL DEF Spec

LEMMA BookedInit == Init => ChapterBookedOnce
BY DEF Init, ChapterBookedOnce, Ref

LEMMA BookedStep == Typed /\ ChapterBookedOnce /\ [Next]_vars => ChapterBookedOnce'
<1> SUFFICES ASSUME Typed, ChapterBookedOnce, [Next]_vars PROVE ChapterBookedOnce'
  OBVIOUS
<1> USE DEF wallet, ledger, history
<1>1. \A k \in Job : k \in Ref /\ k \notin Payment /\ k # "adjust"
  BY DEF Ref
<1>2. lines \in [Ref -> Nat] /\ jobs \in [Job -> JobRecord]
  BY DEF Typed, TypeOK, JobRecord
<1>3. ASSUME NEW ref \in Ref, NEW d, Book(ref, d), ref \notin Job, UNCHANGED jobs
      PROVE  ChapterBookedOnce'
  BY <1>1, <1>2, <1>3 DEF Book, ChapterBookedOnce
<1>4. ASSUME NEW S \in SUBSET Job, NEW end \in Closed, CloseJobs(S, end),
             \A k \in S : jobs[k].status = "active"
      PROVE  ChapterBookedOnce'
  <2> SUFFICES ASSUME NEW k \in Job
               PROVE  lines'[k] <= 1 /\ (lines'[k] = 1 => jobs'[k].status \in Closed)
    BY DEF ChapterBookedOnce
  <2>1. lines[k] \in Nat /\ lines[k] <= 1 /\ (lines[k] = 1 => jobs[k].status \in Closed)
    BY <1>1, <1>2 DEF ChapterBookedOnce
  <2>2. CASE k \in S
    <3>1. lines[k] = 0
      BY <1>4, <2>1, <2>2 DEF Closed
    <3>2. lines'[k] \in {0, 1}
      BY <1>1, <1>4, <3>1 DEF CloseJobs
    <3>3. jobs[k] \in JobRecord /\ jobs'[k] = [jobs[k] EXCEPT !.status = end]
      BY <1>2, <1>4, <2>2 DEF CloseJobs
    <3>4. jobs'[k].status = end
      BY <3>3 DEF JobRecord
    <3>5. QED
      BY <3>2, <3>4
  <2>3. CASE k \notin S
    <3>1. lines'[k] = lines[k]
      BY <1>1, <1>4, <2>3, CloseKeepsRef
    <3>2. jobs'[k] = jobs[k]
      BY <1>4, <2>3 DEF CloseJobs
    <3>3. QED
      BY <2>1, <3>1, <3>2
  <2>4. QED
    BY <2>2, <2>3
<1>5. ASSUME UNCHANGED lines, \A k \in Job : jobs[k].status \in Closed => jobs'[k].status \in Closed
      PROVE  ChapterBookedOnce'
  BY <1>5 DEF ChapterBookedOnce
<1>6. CASE Adjust
  <2>1. "adjust" \in Ref /\ "adjust" \notin Job
    BY DEF Ref
  <2>2. QED
    BY <1>3, <1>6, <2>1 DEF Adjust
<1>7. ASSUME NEW p \in Payment, CreatePayment(p) \/ CompletePayment(p) \/ RefundPayment(p)
      PROVE  ChapterBookedOnce'
  <2>1. p \in Ref /\ p \notin Job
    BY DEF Ref
  <2>2. QED
    BY <1>3, <1>5, <1>7, <2>1 DEF CreatePayment, CompletePayment, RefundPayment
<1>8. ASSUME NEW j \in Job, FinishJob(j) PROVE ChapterBookedOnce'
  BY <1>4, <1>8 DEF FinishJob, Closed
<1>9. CASE Purge
  BY <1>4, <1>9 DEF Purge, Closed
<1>10. ASSUME NEW j \in Job, ReserveJob(j) PROVE ChapterBookedOnce'
  BY <1>2, <1>5, <1>10 DEF ReserveJob, Closed
<1>11. ASSUME NEW c \in Call, NEW j \in Job, BeginRequest(c, j) PROVE ChapterBookedOnce'
  <2>1. \A k \in Job : jobs'[k].status = jobs[k].status
    BY <1>2, <1>11 DEF BeginRequest, Hold, JobRecord
  <2>2. QED
    BY <1>5, <1>11, <2>1 DEF BeginRequest, Hold
<1>12. ASSUME NEW c \in Call, NEW spent, AddCost(c, spent) PROVE ChapterBookedOnce'
  <2>1. \A k \in Job : jobs'[k].status = jobs[k].status
    BY <1>2, <1>12 DEF AddCost, JobRecord
  <2>2. QED
    BY <1>5, <1>12, <2>1 DEF AddCost
<1>u. ASSUME NEW c \in Call, AnswerUnread(c) PROVE ChapterBookedOnce'
  BY <1>u DEF AnswerUnread, ledger, ChapterBookedOnce
<1>13. CASE DeleteAccount
  BY <1>2, <1>5, <1>13 DEF DeleteAccount, Closed
<1>14. CASE OpenStore
  <2>1. \A k \in Job : jobs'[k].status = jobs[k].status
    BY <1>2, <1>14 DEF OpenStore, JobRecord
  <2>2. QED
    BY <1>5, <1>14, <2>1 DEF OpenStore
<1>15. CASE UNCHANGED vars
  BY <1>15 DEF vars, ChapterBookedOnce
<1>16. QED
  BY <1>6, <1>7, <1>8, <1>9, <1>10, <1>11, <1>12, <1>u, <1>13, <1>14, <1>15
     DEF Next, NextNoBackup, Money, Chapters, Answer, Abandon, Restart, Backup

\* finish and purge may race for a chapter, and a handler may act long after its token
\* was checked: the ledger still gets at most one line for it, when it closes.
THEOREM ChaptersBookedOnce == Spec => []ChapterBookedOnce
BY TypedInit, TypedStep, BookedInit, BookedStep, PTL DEF Spec

\* The tables stay well formed, a top-up is credited once and a chapter booked once, for
\* any payments, jobs and requests, also beside a backup (store.py:317-376, 456-493).
THEOREM LedgerIsSound == Spec => []LedgerOK
<1>1. TypeOK /\ CreditedOnce /\ ChapterBookedOnce => LedgerOK
  BY DEF LedgerOK
<1>2. QED
  BY <1>1, WalletTypeCorrect, TopUpsCreditedOnce, ChaptersBookedOnce, PTL
HIDE WalletAssumption

-----------------------------------------------------------------------------
(* Sums over finite sets.  An induction over a finite set is on the cardinality of its parts: a *)
(* set of parts that is not empty has one without a smaller part in it.                        *)

LEMMA SmallestPart ==
  ASSUME NEW S, IsFiniteSet(S), NEW T \in SUBSET SUBSET S, T # {}
  PROVE  \E t \in T : \A u \in SUBSET t : u # t => u \notin T
<1> DEFINE N == {Cardinality(t) : t \in T}
<1>1. \A t \in T : IsFiniteSet(t) /\ Cardinality(t) \in Nat
  BY FS_Subset, FS_CardinalityType
<1>2. N \subseteq Nat /\ N # {}
  BY <1>1
<1> HIDE DEF N
<1>3. PICK n \in N : \A m \in N : <<m, n>> \notin OpToRel(<, Nat)
  BY <1>2, NatLessThanWellFounded, WFMin
<1>4. \A m \in N : ~(m < n)
  BY <1>2, <1>3 DEF OpToRel
<1>5. PICK t \in T : Cardinality(t) = n
  BY DEF N
<1>6. ASSUME NEW u \in SUBSET t, u # t, u \in T PROVE FALSE
  <2>1. Cardinality(u) < Cardinality(t)
    BY <1>1, <1>5, <1>6, FS_Subset
  <2> QED BY <1>4, <1>5, <1>6, <2>1 DEF N
<1> QED BY <1>6

Pick(s) == CHOOSE x \in s : TRUE
Adds(w, S, f) == f = [s \in SUBSET S |-> IF s = {} THEN 0 ELSE w[Pick(s)] + f[s \ {Pick(s)}]]
Iter(w, S) == CHOOSE f : Adds(w, S, f)

LEMMA TotalIs == ASSUME NEW w, NEW S PROVE Total(w, S) = Iter(w, S)[S]
  BY DEF Total, MapThenSumSet, MapThenFoldSet, Iter, Pick, Adds

LEMMA PickIn == ASSUME NEW s, s # {} PROVE Pick(s) \in s
  BY DEF Pick

\* Two functions that add up the parts of two sets agree where both do.
LEMMA AddsOnce ==
  ASSUME NEW w, NEW A, NEW B, NEW f, NEW g, Adds(w, A, f), Adds(w, B, g),
         NEW s \in SUBSET (A \cap B), IsFiniteSet(s)
  PROVE  f[s] = g[s]
<1> DEFINE T == {u \in SUBSET s : f[u] # g[u]}
<1>1. ASSUME T # {} PROVE FALSE
  <2>0. T \in SUBSET SUBSET s
    OBVIOUS
  <2>1. PICK t \in T : \A u \in SUBSET t : u # t => u \notin T
    <3> HIDE DEF T
    <3> QED BY <1>1, <2>0, SmallestPart
  <2>2. t \in SUBSET A /\ t \in SUBSET B /\ f[t] # g[t]
    OBVIOUS
  <2>3. /\ f[t] = IF t = {} THEN 0 ELSE w[Pick(t)] + f[t \ {Pick(t)}]
        /\ g[t] = IF t = {} THEN 0 ELSE w[Pick(t)] + g[t \ {Pick(t)}]
    BY <2>2 DEF Adds
  <2>4. t # {}
    BY <2>2, <2>3
  <2>5. f[t \ {Pick(t)}] = g[t \ {Pick(t)}]
    BY <2>1, <2>4, PickIn
  <2> QED BY <2>2, <2>3, <2>4, <2>5
<1> QED BY <1>1

LEMMA AddsExists ==
  ASSUME NEW w, NEW S, IsFiniteSet(S)
  PROVE  \E f : Adds(w, S, f)
<1> DEFINE T == {s \in SUBSET S : ~\E f : Adds(w, s, f)}
<1>1. ASSUME T # {} PROVE FALSE
  <2>0. T \in SUBSET SUBSET S
    OBVIOUS
  <2>1. PICK t \in T : \A u \in SUBSET t : u # t => u \notin T
    <3> HIDE DEF T
    <3> QED BY <1>1, <2>0, SmallestPart
  <2>2. \A u \in SUBSET t : u # t => Adds(w, u, Iter(w, u))
    BY <2>1 DEF Iter
  <2> DEFINE F == [u \in SUBSET t |->
                     IF u # t THEN Iter(w, u)[u]
                     ELSE IF t = {} THEN 0 ELSE w[Pick(t)] + Iter(w, t \ {Pick(t)})[t \ {Pick(t)}]]
  <2>3. ASSUME NEW u \in SUBSET t
        PROVE  F[u] = IF u = {} THEN 0 ELSE w[Pick(u)] + F[u \ {Pick(u)}]
    <3>1. CASE u = {} /\ t # {}
      <4>1. Iter(w, u)[u] = 0
        BY <2>2, <3>1 DEF Adds
      <4> QED BY <3>1, <4>1
    <3>2. CASE u = {} /\ t = {}
      BY <3>2
    <3>3. CASE u # {} /\ u = t
      <4>1. Pick(t) \in t
        BY <3>3, PickIn
      <4> QED BY <3>3, <4>1
    <3>4. CASE u # {} /\ u # t
      <4> DEFINE v == u \ {Pick(u)}
      <4>1. Pick(u) \in u /\ v \in SUBSET t /\ v # t /\ v \in SUBSET u
        BY <3>4, PickIn
      <4>2. Adds(w, u, Iter(w, u)) /\ Adds(w, v, Iter(w, v))
        BY <2>2, <3>4, <4>1
      <4>3. IsFiniteSet(v)
        BY <4>1, FS_Subset
      <4>4. Iter(w, u)[v] = Iter(w, v)[v]
        BY <4>1, <4>2, <4>3, AddsOnce
      <4>5. Iter(w, u)[u] = w[Pick(u)] + Iter(w, u)[v]
        BY <3>4, <4>2 DEF Adds
      <4>6. F[u] = Iter(w, u)[u] /\ F[v] = Iter(w, v)[v]
        BY <3>4, <4>1
      <4> QED BY <3>4, <4>4, <4>5, <4>6
    <3> QED BY <3>1, <3>2, <3>3, <3>4
  <2>4. Adds(w, t, F)
    BY <2>3 DEF Adds
  <2> QED BY <2>1, <2>4
<1> QED BY <1>1

\* What the sum over a finite set is.
LEMMA TotalDef ==
  ASSUME NEW w, NEW S, IsFiniteSet(S)
  PROVE  Total(w, S) = IF S = {} THEN 0 ELSE w[Pick(S)] + Total(w, S \ {Pick(S)})
<1>1. Adds(w, S, Iter(w, S))
  BY AddsExists DEF Iter
<1>2. CASE S = {}
  BY <1>1, <1>2, TotalIs DEF Adds
<1>3. CASE S # {}
  <2> DEFINE R == S \ {Pick(S)}
  <2>1. R \in SUBSET S /\ IsFiniteSet(R)
    BY FS_Subset
  <2>2. Adds(w, R, Iter(w, R))
    BY <2>1, AddsExists DEF Iter
  <2>3. Iter(w, S)[R] = Iter(w, R)[R]
    BY <1>1, <2>1, <2>2, AddsOnce
  <2>4. Iter(w, S)[S] = w[Pick(S)] + Iter(w, S)[R]
    BY <1>1, <1>3 DEF Adds
  <2> QED BY <1>3, <2>3, <2>4, TotalIs
<1> QED BY <1>2, <1>3

LEMMA TotalEmpty == ASSUME NEW w PROVE Total(w, {}) = 0
  BY TotalDef, FS_EmptySet

LEMMA TotalInt ==
  ASSUME NEW S, IsFiniteSet(S), NEW w, \A x \in S : w[x] \in Int
  PROVE  Total(w, S) \in Int
<1> DEFINE T == {s \in SUBSET S : Total(w, s) \notin Int}
<1>1. ASSUME T # {} PROVE FALSE
  <2>0. T \in SUBSET SUBSET S
    OBVIOUS
  <2>1. PICK t \in T : \A u \in SUBSET t : u # t => u \notin T
    <3> HIDE DEF T
    <3> QED BY <1>1, <2>0, SmallestPart
  <2>2. Total(w, t) = IF t = {} THEN 0 ELSE w[Pick(t)] + Total(w, t \ {Pick(t)})
    BY TotalDef, FS_Subset
  <2>3. t # {} => Pick(t) \in t /\ Total(w, t \ {Pick(t)}) \in Int
    BY <2>1, PickIn
  <2> QED BY <2>1, <2>2, <2>3
<1> QED BY <1>1

LEMMA TotalNat ==
  ASSUME NEW S, IsFiniteSet(S), NEW w, \A x \in S : w[x] \in Nat
  PROVE  Total(w, S) \in Nat
<1> DEFINE T == {s \in SUBSET S : Total(w, s) \notin Nat}
<1>1. ASSUME T # {} PROVE FALSE
  <2>0. T \in SUBSET SUBSET S
    OBVIOUS
  <2>1. PICK t \in T : \A u \in SUBSET t : u # t => u \notin T
    <3> HIDE DEF T
    <3> QED BY <1>1, <2>0, SmallestPart
  <2>2. Total(w, t) = IF t = {} THEN 0 ELSE w[Pick(t)] + Total(w, t \ {Pick(t)})
    BY TotalDef, FS_Subset
  <2>3. t # {} => Pick(t) \in t /\ Total(w, t \ {Pick(t)}) \in Nat
    BY <2>1, PickIn
  <2> QED BY <2>1, <2>2, <2>3
<1> QED BY <1>1

\* Only the weights of the members count.
LEMMA TotalSame ==
  ASSUME NEW S, IsFiniteSet(S), NEW w, NEW v, \A x \in S : v[x] = w[x]
  PROVE  Total(v, S) = Total(w, S)
<1> DEFINE T == {s \in SUBSET S : Total(v, s) # Total(w, s)}
<1>1. ASSUME T # {} PROVE FALSE
  <2>0. T \in SUBSET SUBSET S
    OBVIOUS
  <2>1. PICK t \in T : \A u \in SUBSET t : u # t => u \notin T
    <3> HIDE DEF T
    <3> QED BY <1>1, <2>0, SmallestPart
  <2>2. /\ Total(w, t) = IF t = {} THEN 0 ELSE w[Pick(t)] + Total(w, t \ {Pick(t)})
        /\ Total(v, t) = IF t = {} THEN 0 ELSE v[Pick(t)] + Total(v, t \ {Pick(t)})
    BY TotalDef, FS_Subset
  <2>3. t # {} => Pick(t) \in t /\ Total(v, t \ {Pick(t)}) = Total(w, t \ {Pick(t)})
    BY <2>1, PickIn
  <2> QED BY <2>1, <2>2, <2>3
<1> QED BY <1>1

\* The order does not matter: any member can be the last one that is added.
LEMMA TotalStep ==
  ASSUME NEW S, IsFiniteSet(S), NEW w, \A x \in S : w[x] \in Int, NEW x \in S
  PROVE  Total(w, S) = w[x] + Total(w, S \ {x})
<1> DEFINE T == {s \in SUBSET S : \E y \in s : Total(w, s) # w[y] + Total(w, s \ {y})}
<1>1. ASSUME T # {} PROVE FALSE
  <2>0. T \in SUBSET SUBSET S
    OBVIOUS
  <2>1. PICK t \in T : \A u \in SUBSET t : u # t => u \notin T
    <3> HIDE DEF T
    <3> QED BY <1>1, <2>0, SmallestPart
  <2>2. PICK y \in t : Total(w, t) # w[y] + Total(w, t \ {y})
    BY <2>1
  <2>3. PICK p : p = Pick(t)
    OBVIOUS
  <2>4. p \in t /\ Total(w, t) = w[p] + Total(w, t \ {p})
    BY <2>3, TotalDef, FS_Subset, PickIn
  <2>5. y # p
    BY <2>2, <2>4
  <2>6. Total(w, t \ {p}) = w[y] + Total(w, (t \ {p}) \ {y})
    BY <2>1, <2>4, <2>5
  <2>7. Total(w, t \ {y}) = w[p] + Total(w, (t \ {y}) \ {p})
    BY <2>1, <2>4, <2>5
  <2>8. (t \ {p}) \ {y} = (t \ {y}) \ {p}
    OBVIOUS
  <2>9. PICK k \in Int : k = Total(w, (t \ {p}) \ {y})
    BY TotalInt, FS_Subset
  <2>10. Total(w, t \ {p}) = w[y] + k /\ Total(w, t \ {y}) = w[p] + k
    BY <2>6, <2>7, <2>8, <2>9
  <2>11. PICK a \in Int, b \in Int : a = w[y] /\ b = w[p]
    BY <2>4
  <2>12. Total(w, t) = b + (a + k) /\ Total(w, t \ {y}) = b + k
    BY <2>4, <2>10, <2>11
  <2>13. b + (a + k) = a + (b + k)
    BY <2>9, <2>11
  <2> QED BY <2>2, <2>11, <2>12, <2>13
<1> QED BY <1>1

LEMMA TotalAdd ==
  ASSUME NEW S, IsFiniteSet(S), NEW w, NEW x, x \notin S, \A y \in S \cup {x} : w[y] \in Int
  PROVE  Total(w, S \cup {x}) = Total(w, S) + w[x]
<1>1. IsFiniteSet(S \cup {x}) /\ (S \cup {x}) \ {x} = S
  BY FS_AddElement
<1>2. Total(w, S \cup {x}) = w[x] + Total(w, S)
  BY <1>1, TotalStep
<1> QED BY <1>2, TotalInt

\* One weight changes.
LEMMA TotalUpdate ==
  ASSUME NEW S, IsFiniteSet(S), NEW w, NEW v, NEW x \in S,
         \A y \in S : w[y] \in Int /\ v[y] \in Int, \A y \in S : y # x => v[y] = w[y]
  PROVE  Total(v, S) = Total(w, S) + v[x] - w[x]
<1>1. IsFiniteSet(S \ {x}) /\ Total(v, S \ {x}) = Total(w, S \ {x})
  BY TotalSame, FS_Subset
<1>2. Total(v, S) = v[x] + Total(v, S \ {x}) /\ Total(w, S) = w[x] + Total(w, S \ {x})
  BY TotalStep
<1>3. Total(w, S \ {x}) \in Int
  BY <1>1, TotalInt
<1> QED BY <1>1, <1>2, <1>3

LEMMA TotalPlus ==
  ASSUME NEW S, IsFiniteSet(S), NEW w, NEW v, NEW u,
         \A x \in S : w[x] \in Int /\ v[x] \in Int /\ u[x] = v[x] + w[x]
  PROVE  Total(u, S) = Total(v, S) + Total(w, S)
<1> DEFINE T == {s \in SUBSET S : Total(u, s) # Total(v, s) + Total(w, s)}
<1>1. ASSUME T # {} PROVE FALSE
  <2>0. T \in SUBSET SUBSET S
    OBVIOUS
  <2>1. PICK t \in T : \A r \in SUBSET t : r # t => r \notin T
    <3> HIDE DEF T
    <3> QED BY <1>1, <2>0, SmallestPart
  <2>2. /\ Total(w, t) = IF t = {} THEN 0 ELSE w[Pick(t)] + Total(w, t \ {Pick(t)})
        /\ Total(v, t) = IF t = {} THEN 0 ELSE v[Pick(t)] + Total(v, t \ {Pick(t)})
        /\ Total(u, t) = IF t = {} THEN 0 ELSE u[Pick(t)] + Total(u, t \ {Pick(t)})
    BY TotalDef, FS_Subset
  <2> DEFINE r == t \ {Pick(t)}
  <2>3. t # {} => Pick(t) \in t /\ Total(u, r) = Total(v, r) + Total(w, r)
    BY <2>1, PickIn
  <2>4. PICK i \in Int, k \in Int : i = Total(v, r) /\ k = Total(w, r)
    BY TotalInt, FS_Subset
  <2>5. Total(u, t) # Total(v, t) + Total(w, t)
    BY <2>1
  <2>6. CASE t = {}
    BY <2>2, <2>5, <2>6
  <2>7. CASE t # {}
    <3>1. PICK a \in Int, b \in Int : a = v[Pick(t)] /\ b = w[Pick(t)] /\ u[Pick(t)] = a + b
      BY <2>3, <2>7
    <3>2. Total(v, t) = a + i /\ Total(w, t) = b + k /\ Total(u, t) = (a + b) + (i + k)
      BY <2>2, <2>3, <2>4, <2>7, <3>1
    <3>3. (a + b) + (i + k) = (a + i) + (b + k)
      BY <2>4, <3>1
    <3> QED BY <2>5, <3>2, <3>3
  <2> QED BY <2>6, <2>7
<1> QED BY <1>1

LEMMA TotalUnion ==
  ASSUME NEW A, NEW B, IsFiniteSet(A), IsFiniteSet(B), A \cap B = {},
         NEW w, \A x \in A \cup B : w[x] \in Int
  PROVE  Total(w, A \cup B) = Total(w, A) + Total(w, B)
<1> DEFINE T == {s \in SUBSET A : Total(w, s \cup B) # Total(w, s) + Total(w, B)}
<1>1. ASSUME T # {} PROVE FALSE
  <2>0. T \in SUBSET SUBSET A
    OBVIOUS
  <2>1. PICK t \in T : \A u \in SUBSET t : u # t => u \notin T
    <3> HIDE DEF T
    <3> QED BY <1>1, <2>0, SmallestPart
  <2>2. Total(w, B) \in Int /\ IsFiniteSet(t \cup B)
    BY TotalInt, FS_Subset, FS_Union
  <2>3. t # {}
    <3>1. CASE t = {}
      <4>1. PICK b : b = Total(w, B)
        OBVIOUS
      <4>2. t \cup B = B
        BY <3>1
      <4>3. Total(w, t \cup B) = b
        BY <4>1, <4>2
      <4>4. Total(w, t) = 0
        BY <3>1, TotalEmpty
      <4>5. b \in Int
        BY <2>2, <4>1
      <4>6. b = 0 + b
        BY <4>5
      <4>7. Total(w, t \cup B) = Total(w, t) + Total(w, B)
        BY <4>1, <4>3, <4>4, <4>6
      <4> QED BY <2>1, <4>7
    <3> QED BY <3>1
  <2>4. PICK p : p \in t
    BY <2>3
  <2> DEFINE r == t \ {p}
  <2>5. Total(w, r \cup B) = Total(w, r) + Total(w, B) /\ r \cup B = (t \cup B) \ {p}
    BY <2>1, <2>4
  <2>6. Total(w, t \cup B) = w[p] + Total(w, r \cup B)
    BY <2>2, <2>4, <2>5, TotalStep
  <2>7. Total(w, t) = w[p] + Total(w, r)
    BY <2>4, FS_Subset, TotalStep
  <2>8. Total(w, r) \in Int
    BY FS_Subset, TotalInt
  <2> QED BY <2>1, <2>2, <2>4, <2>5, <2>6, <2>7, <2>8
<1> QED BY <1>1
\* A weight that is no longer counted.
LEMMA TotalRemove ==
  ASSUME NEW S, IsFiniteSet(S), NEW w, \A y \in S : w[y] \in Nat, NEW x \in S
  PROVE  w[x] <= Total(w, S) /\ Total(w, S \ {x}) = Total(w, S) - w[x]
<1>1. Total(w, S) = w[x] + Total(w, S \ {x})
  BY TotalStep
<1>2. PICK k \in Nat : k = Total(w, S \ {x})
  BY TotalNat, FS_Subset
<1> QED BY <1>1, <1>2
-----------------------------------------------------------------------------
(* What the holds are for. *)

\* What add_cost frees was held: the account holds the sum over the requests whose hold is not
\* freed, those in flight and those whose answer could not be read, and so does each of their
\* chapters.
Held == held = Total(PriceOf, Holding)
Reserved == \A j \in Job : jobs[j].reserved = Total(HeldOf, HoldingOf(j))

\* A chapter that was never opened has reserved nothing.
Fresh == \A j \in Job : jobs[j].status = "none" => jobs[j].reserved = 0

\* The inductive invariant.
HoldInv == Typed /\ Held /\ Reserved /\ Fresh /\ NothingOverspent

\* The amounts of the requests and of the chapters are numbers.
LEMMA Amounts ==
  ASSUME Typed
  PROVE  /\ \A c \in Call : calls[c].held \in Nat /\ PriceOf[c] \in Nat /\ HeldOf[c] \in Nat
         /\ \A j \in Job : /\ jobs[j].reserved \in Nat /\ jobs[j].cost \in Nat /\ jobs[j].cap \in Nat
                           /\ overrun[j] \in Nat
         /\ balance \in Int /\ held \in Nat /\ forgiven \in Nat
<1>1. \A c \in Call : calls[c].held \in Nat
  BY DEF Typed, TypeOK
<1>2. \A c \in Call : PriceOf[c] \in Nat /\ HeldOf[c] \in Nat
  BY <1>1, PriceNat DEF PriceOf, HeldOf
<1>3. \A j \in Job : /\ jobs[j].reserved \in Nat /\ jobs[j].cost \in Nat /\ jobs[j].cap \in Nat
                     /\ overrun[j] \in Nat
  BY DEF Typed, TypeOK
<1> QED BY <1>1, <1>2, <1>3 DEF Typed, TypeOK

LEMMA HoldingFinite == IsFiniteSet(Holding) /\ \A j \in Job : IsFiniteSet(HoldingOf(j))
<1>1. Holding \in SUBSET Call /\ \A j \in Job : HoldingOf(j) \in SUBSET Call
  BY DEF Holding, HoldingOf
<1> QED BY <1>1, FS_Subset, WalletAssumption

LEMMA HoldInit == Init => HoldInv
<1> SUFFICES ASSUME Init PROVE HoldInv
  OBVIOUS
<1>1. Holding = {} /\ \A j \in Job : HoldingOf(j) = {}
  BY DEF Init, Holding, HoldingOf
<1>2. held = 0 /\ \A j \in Job : jobs[j].reserved = 0
  BY DEF Init, NoJob
<1>3. Held /\ Reserved
  BY <1>1, <1>2, TotalEmpty DEF Held, Reserved
<1>4. NothingOverspent
  BY DEF Init, NothingOverspent, NeverOverspent, CapKept, Available, NoJob
<1> QED BY <1>2, <1>3, <1>4, TypedInit DEF HoldInv, Fresh
-----------------------------------------------------------------------------
\* A step that leaves the requests, what is held and what the chapters have reserved alone.
LEMMA HoldsKept ==
  ASSUME Held, Reserved, UNCHANGED <<held, calls>>,
         \A j \in Job : jobs'[j].reserved = jobs[j].reserved
  PROVE  Held' /\ Reserved'
<1>1. Holding' = Holding /\ PriceOf' = PriceOf /\ HeldOf' = HeldOf
  BY DEF Holding, PriceOf, HeldOf, Price
<1>2. \A j \in Job : HoldingOf(j)' = HoldingOf(j)
  BY <1>1 DEF HoldingOf
<1> QED BY <1>1, <1>2 DEF Held, Reserved

\* ... and the chapters' costs and caps as well.
LEMMA CapsKept ==
  ASSUME CapKept, UNCHANGED overrun,
         \A j \in Job : /\ jobs'[j].reserved = jobs[j].reserved
                        /\ jobs'[j].cost = jobs[j].cost /\ jobs'[j].cap = jobs[j].cap
  PROVE  CapKept'
  BY DEF CapKept

\* A request that begins is added to what is held.
LEMMA BeginHeld ==
  ASSUME HoldInv, NEW c \in Call, NEW j \in Job, BeginRequest(c, j)
  PROVE  HoldInv'
<1> USE DEF HoldInv
<1>1. PICK h \in HoldAmount :
        /\ jobs[j].cost + jobs[j].reserved + h <= jobs[j].cap
        /\ Available >= Price(h)
        /\ Hold(c, j, h)
  BY DEF BeginRequest
<1>2. h \in Nat /\ Price(h) \in Nat
  BY PriceNat, WalletAssumption
<1>3. Typed'
  BY TypedStep DEF Next, NextNoBackup, Chapters
<1>4. /\ calls' = [calls EXCEPT ![c] = [at |-> "flight", job |-> j, held |-> h]]
      /\ held' = held + Price(h)
      /\ calls \in [Call -> CallRecord]
  BY <1>1 DEF Hold, Typed, TypeOK, CallRecord
<1>5. /\ c \notin Holding /\ Holding' = Holding \cup {c}
      /\ HoldingOf(j)' = HoldingOf(j) \cup {c}
      /\ \A k \in Job \ {j} : HoldingOf(k)' = HoldingOf(k)
  BY <1>4 DEF BeginRequest, Holding, HoldingOf
<1>6. /\ PriceOf'[c] = Price(h) /\ HeldOf'[c] = h
      /\ \A d \in Call \ {c} : PriceOf'[d] = PriceOf[d] /\ HeldOf'[d] = HeldOf[d]
  BY <1>4 DEF PriceOf, HeldOf, Price
<1>7. /\ jobs'[j].reserved = jobs[j].reserved + h
      /\ jobs'[j].cost = jobs[j].cost /\ jobs'[j].cap = jobs[j].cap
      /\ \A k \in Job \ {j} : jobs'[k] = jobs[k]
  BY <1>1 DEF Hold, Typed, TypeOK
<1>8. Held'
  <2>1. \A d \in Holding : PriceOf'[d] = PriceOf[d]
    BY <1>5, <1>6 DEF Holding
  <2>2. Total(PriceOf', Holding) = held
    BY <2>1, HoldingFinite, TotalSame DEF Held
  <2>n. \A d \in Holding \cup {c} : PriceOf'[d] \in Int
    BY <1>2, <1>5, <1>6, Amounts DEF Holding
  <2>3. Total(PriceOf', Holding \cup {c}) = held + PriceOf'[c]
    <3>1. PICK w : w = PriceOf'
      OBVIOUS
    <3>2. c \notin Holding /\ IsFiniteSet(Holding) /\ \A d \in Holding \cup {c} : w[d] \in Int
      BY <1>5, <2>n, <3>1, HoldingFinite
    <3>3. Total(w, Holding \cup {c}) = Total(w, Holding) + w[c]
      BY <3>2, TotalAdd
    <3> QED BY <2>2, <3>1, <3>3
  <2> QED BY <1>4, <1>5, <1>6, <2>3 DEF Held
<1>9. Reserved'
  <2> SUFFICES ASSUME NEW k \in Job PROVE jobs'[k].reserved = Total(HeldOf', HoldingOf(k)')
    BY DEF Reserved
  <2>1. \A d \in HoldingOf(k) : HeldOf'[d] = HeldOf[d]
    BY <1>5, <1>6 DEF Holding, HoldingOf
  <2>2. Total(HeldOf', HoldingOf(k)) = jobs[k].reserved
    BY <2>1, HoldingFinite, TotalSame DEF Reserved
  <2>3. CASE k = j
    <3>1. c \notin HoldingOf(j)
      BY <1>5 DEF HoldingOf
    <3>n. \A d \in HoldingOf(j) \cup {c} : HeldOf'[d] \in Int
      BY <1>2, <1>5, <1>6, Amounts DEF Holding, HoldingOf
    <3>2. Total(HeldOf', HoldingOf(j) \cup {c}) = jobs[j].reserved + HeldOf'[c]
      <4>1. PICK w : w = HeldOf'
        OBVIOUS
      <4>2. PICK S : S = HoldingOf(j)
        OBVIOUS
      <4>3. c \notin S /\ IsFiniteSet(S) /\ \A d \in S \cup {c} : w[d] \in Int
        BY <3>1, <3>n, <4>1, <4>2, HoldingFinite
      <4>4. Total(w, S \cup {c}) = Total(w, S) + w[c]
        BY <4>3, TotalAdd
      <4> QED BY <2>2, <2>3, <4>1, <4>2, <4>4
    <3> QED BY <1>5, <1>6, <1>7, <2>3, <3>2
  <2>4. CASE k # j
    BY <1>5, <1>7, <2>2, <2>4
  <2> QED BY <2>3, <2>4
<1>10. NothingOverspent'
  <2>1. balance' = balance /\ forgiven' = forgiven /\ overrun' = overrun
    BY <1>1 DEF Hold, history
  <2>2. NeverOverspent'
    BY <1>1, <1>2, <1>4, <2>1, Amounts DEF NeverOverspent, Available
  <2>3. CapKept'
    BY <1>1, <1>2, <1>7, <2>1, Amounts DEF NothingOverspent, CapKept
  <2> QED BY <2>2, <2>3 DEF NothingOverspent
<1>11. Fresh'
  <2>1. \A k \in Job : jobs'[k].status = jobs[k].status
    BY <1>1 DEF Hold, Typed, TypeOK
  <2>2. jobs[j].status # "none"
    BY DEF BeginRequest
  <2> QED BY <1>7, <2>1, <2>2 DEF Fresh
<1> QED BY <1>3, <1>8, <1>9, <1>10, <1>11

\* A request that ends takes what it held out of the sums; what it cost beyond that is in
\* forgiven and overrun.
LEMMA CostHeld ==
  ASSUME HoldInv, NEW c \in Call, NEW spent \in Nat, AddCost(c, spent)
  PROVE  HoldInv'
<1> USE DEF HoldInv
<1> PICK j \in Job, h \in Nat : calls[c].job = j /\ calls[c].held = h
  BY Amounts DEF AddCost, Typed, Named
<1>1. Typed'
  BY AddCostTyped
<1>2. c \in Holding /\ j \in Job /\ h \in Nat /\ Price(h) \in Nat /\ Price(spent) \in Nat
  BY PriceNat, Amounts DEF AddCost, Holding, Typed, Named
<1>3. calls' = [calls EXCEPT ![c].at = "over"] /\ calls \in [Call -> CallRecord]
  BY DEF AddCost, Typed, TypeOK, CallRecord
<1>4. /\ Holding' = Holding \ {c}
      /\ HoldingOf(j)' = HoldingOf(j) \ {c} /\ c \in HoldingOf(j)
      /\ \A k \in Job \ {j} : HoldingOf(k)' = HoldingOf(k)
  BY <1>2, <1>3 DEF Holding, HoldingOf, CallRecord
<1>5. PriceOf' = PriceOf /\ HeldOf' = HeldOf /\ PriceOf[c] = Price(h) /\ HeldOf[c] = h
  BY <1>3 DEF PriceOf, HeldOf, Price, CallRecord
<1>6. Price(h) <= held /\ Total(PriceOf, Holding \ {c}) = held - Price(h)
  <2>1. \A d \in Holding : PriceOf[d] \in Nat
    BY Amounts DEF Holding
  <2>2. PriceOf[c] <= Total(PriceOf, Holding) /\ Total(PriceOf, Holding \ {c}) = Total(PriceOf, Holding) - PriceOf[c]
    BY <1>2, <2>1, HoldingFinite, TotalRemove
  <2> QED BY <1>5, <2>2 DEF Held
<1>7. h <= jobs[j].reserved /\ Total(HeldOf, HoldingOf(j) \ {c}) = jobs[j].reserved - h
  <2>1. Total(HeldOf, HoldingOf(j)) = jobs[j].reserved
    BY DEF Reserved
  <2>2. \A d \in HoldingOf(j) : HeldOf[d] \in Nat
    BY Amounts DEF Holding, HoldingOf
  <2>3. /\ HeldOf[c] <= Total(HeldOf, HoldingOf(j))
        /\ Total(HeldOf, HoldingOf(j) \ {c}) = Total(HeldOf, HoldingOf(j)) - HeldOf[c]
    BY <1>4, <2>2, HoldingFinite, TotalRemove
  <2> QED BY <1>5, <2>1, <2>3
<1>8. held' = held - Price(h)
  BY <1>2, <1>6, Amounts DEF AddCost
<1>9. /\ jobs'[j].reserved = jobs[j].reserved - h
      /\ jobs'[j].cost = jobs[j].cost + spent /\ jobs'[j].cap = jobs[j].cap
      /\ \A k \in Job \ {j} : jobs'[k] = jobs[k]
  <2>1. jobs \in [Job -> JobRecord]
    BY DEF Typed, TypeOK, JobRecord
  <2>2. jobs'[j] = [jobs[j] EXCEPT !.cost = @ + spent,
                                   !.reserved = IF @ > h THEN @ - h ELSE 0,
                                   !.charged = @ + Price(spent)]
        /\ \A k \in Job \ {j} : jobs'[k] = jobs[k]
    BY <1>2, <2>1 DEF AddCost, JobRecord
  <2>3. /\ jobs'[j].reserved = IF jobs[j].reserved > h THEN jobs[j].reserved - h ELSE 0
        /\ jobs'[j].cost = jobs[j].cost + spent /\ jobs'[j].cap = jobs[j].cap
    BY <1>2, <2>1, <2>2 DEF JobRecord
  <2>4. jobs[j].reserved \in Nat
    BY <1>2, Amounts
  <2> QED BY <1>2, <1>7, <2>2, <2>3, <2>4
<1>10. Held'
  BY <1>4, <1>5, <1>6, <1>8 DEF Held
<1>11. Reserved'
  <2> SUFFICES ASSUME NEW k \in Job PROVE jobs'[k].reserved = Total(HeldOf', HoldingOf(k)')
    BY DEF Reserved
  <2>1. CASE k = j
    <3>1. HoldingOf(k)' = HoldingOf(j) \ {c} /\ jobs'[k].reserved = jobs[j].reserved - h
      BY <1>4, <1>9, <2>1
    <3> QED BY <1>5, <1>7, <3>1
  <2>2. CASE k # j
    <3>1. HoldingOf(k)' = HoldingOf(k) /\ jobs'[k] = jobs[k]
      BY <1>4, <1>9, <2>2
    <3>2. jobs[k].reserved = Total(HeldOf, HoldingOf(k))
      BY DEF Reserved
    <3> QED BY <1>5, <3>1, <3>2
  <2> QED BY <2>1, <2>2
<1>12. NeverOverspent'
  <2>1. /\ balance' = balance - Price(spent)
        /\ forgiven' = forgiven + (IF Price(spent) > Price(h) THEN Price(spent) - Price(h) ELSE 0)
    BY DEF AddCost
  <2>2. Available + forgiven >= 0
    BY DEF NothingOverspent, NeverOverspent
  <2> QED BY <1>2, <1>8, <2>1, <2>2, Amounts DEF NeverOverspent, Available
<1>13. CapKept'
  <2> SUFFICES ASSUME NEW k \in Job
               PROVE  jobs'[k].cost + jobs'[k].reserved <= jobs'[k].cap + overrun'[k]
    BY DEF CapKept
  <2>1. /\ jobs[k].cost + jobs[k].reserved <= jobs[k].cap + overrun[k]
        /\ jobs[k].reserved \in Nat /\ jobs[k].cost \in Nat /\ jobs[k].cap \in Nat
        /\ overrun[k] \in Nat
    BY Amounts DEF NothingOverspent, CapKept
  <2>2. overrun' = [overrun EXCEPT ![j] = @ + (IF spent > h THEN spent - h ELSE 0)]
        /\ overrun \in [Job -> Nat]
    BY DEF AddCost, Typed, TypeOK
  <2>3. CASE k = j
    <3>1. overrun'[k] = overrun[k] + (IF spent > h THEN spent - h ELSE 0)
      BY <1>2, <2>2, <2>3
    <3> QED BY <1>2, <1>7, <1>9, <2>1, <2>3, <3>1
  <2>4. CASE k # j
    BY <1>9, <2>1, <2>2, <2>4
  <2> QED BY <2>3, <2>4
<1>14. Fresh'
  <2>1. \A k \in Job : jobs'[k].status = jobs[k].status
    BY <1>2 DEF AddCost, Typed, TypeOK
  <2>2. \A k \in Job : jobs[k].reserved = 0 => jobs'[k].reserved = 0
    BY <1>2, <1>7, <1>9
  <2> QED BY <2>1, <2>2 DEF Fresh
<1> QED BY <1>1, <1>10, <1>11, <1>12, <1>13, <1>14 DEF NothingOverspent

\* Every other step of a gateway beside which no backup runs.
LEMMA HoldStep == HoldInv /\ [NextNoBackup]_vars => HoldInv'
<1> SUFFICES ASSUME HoldInv, [NextNoBackup]_vars PROVE HoldInv'
  OBVIOUS
<1> USE DEF HoldInv
<1>1. Typed'
  BY TypedStep DEF Next
<1>2. jobs \in [Job -> JobRecord]
  BY DEF Typed, TypeOK, JobRecord
<1>3. ASSUME UNCHANGED <<held, calls, jobs, overrun>>, NeverOverspent' PROVE HoldInv'
  BY <1>1, <1>3, HoldsKept, CapsKept DEF NothingOverspent, Fresh
<1>4. ASSUME UNCHANGED <<held, calls, overrun, balance, forgiven>>,
             \A j \in Job : /\ jobs'[j].reserved = jobs[j].reserved
                            /\ jobs'[j].cost = jobs[j].cost /\ jobs'[j].cap = jobs[j].cap
                            /\ jobs'[j].status = "none" => jobs[j].status = "none"
      PROVE  HoldInv'
  BY <1>1, <1>4, HoldsKept, CapsKept DEF NothingOverspent, NeverOverspent, Available, Fresh
<1>5. CASE Adjust
  <2>1. PICK d \in AdjustAmount : /\ balance' = balance + d
                                  /\ forgiven' = forgiven + (IF d < 0 THEN -d ELSE 0)
    BY <1>5 DEF Adjust, Book
  <2>2. d \in Int
    BY WalletAssumption
  <2>3. NeverOverspent' /\ UNCHANGED <<held, calls, jobs, overrun>>
    BY <1>5, <2>1, <2>2, Amounts DEF Adjust, NothingOverspent, NeverOverspent, Available
  <2> QED BY <1>3, <2>3
<1>6. ASSUME NEW p \in Payment, CreatePayment(p) PROVE HoldInv'
  BY <1>3, <1>6 DEF CreatePayment, wallet, history, NothingOverspent, NeverOverspent, Available
<1>7. ASSUME NEW p \in Payment, CompletePayment(p) PROVE HoldInv'
  <2>1. balance' \in {balance, balance + Credit} /\ UNCHANGED <<held, forgiven>>
    BY <1>7 DEF CompletePayment, Book
  <2>2. Credit \in Nat
    BY WalletAssumption
  <2>3. NeverOverspent'
    BY <2>1, <2>2, Amounts DEF NothingOverspent, NeverOverspent, Available
  <2> QED BY <1>3, <1>7, <2>3 DEF CompletePayment
<1>8. ASSUME NEW p \in Payment, RefundPayment(p) PROVE HoldInv'
  <2>1. \/ balance' = balance - Credit /\ forgiven' = forgiven + Credit
        \/ UNCHANGED <<balance, forgiven>>
    BY <1>8, WalletAssumption, Amounts DEF RefundPayment, Book
  <2>2. Credit \in Nat /\ held' = held
    BY <1>8, WalletAssumption DEF RefundPayment
  <2>3. NeverOverspent'
    BY <2>1, <2>2, Amounts DEF NothingOverspent, NeverOverspent, Available
  <2> QED BY <1>3, <1>8, <2>3 DEF RefundPayment
<1>9. ASSUME NEW j \in Job, ReserveJob(j) PROVE HoldInv'
  <2>1. PICK cap : jobs' = [jobs EXCEPT ![j] = [NoJob EXCEPT !.status = "active", !.cap = cap]]
    BY <1>9 DEF ReserveJob
  <2>2. /\ jobs'[j].reserved = 0 /\ jobs'[j].cost = 0
        /\ \A k \in Job \ {j} : jobs'[k] = jobs[k]
    BY <1>2, <2>1 DEF NoJob
  <2>3. UNCHANGED <<held, calls, overrun, balance, forgiven>>
    BY <1>9 DEF ReserveJob, wallet, history
  <2>4. jobs'[j].cap \in Nat /\ overrun'[j] \in Nat
    BY <1>1 DEF Typed, TypeOK
  <2>5. CapKept'
    <3> SUFFICES ASSUME NEW k \in Job
                 PROVE  jobs'[k].cost + jobs'[k].reserved <= jobs'[k].cap + overrun'[k]
      BY DEF CapKept
    <3>1. CASE k = j
      BY <2>2, <2>4, <3>1
    <3>2. CASE k # j
      BY <2>2, <2>3, <3>2 DEF NothingOverspent, CapKept
    <3> QED BY <3>1, <3>2
  <2>6. jobs[j].reserved = 0
    BY <1>9 DEF ReserveJob, Fresh
  <2>7. \A k \in Job : jobs'[k].reserved = jobs[k].reserved
    BY <2>2, <2>6
  <2>8. Held' /\ Reserved'
    BY <2>3, <2>7, HoldsKept
  <2>9. Fresh'
    BY <2>2 DEF Fresh
  <2> QED BY <1>1, <2>3, <2>5, <2>8, <2>9 DEF NothingOverspent, NeverOverspent, Available
<1>10. ASSUME NEW c \in Call, NEW j \in Job, BeginRequest(c, j) PROVE HoldInv'
  BY <1>10, BeginHeld
<1>11. ASSUME NEW c \in Call, Answer(c) \/ Abandon(c) PROVE HoldInv'
  <2>1. PICK spent \in Nat : AddCost(c, spent)
    BY <1>11, WalletAssumption DEF Answer, Abandon
  <2> QED BY <2>1, CostHeld
<1>u. ASSUME NEW c \in Call, AnswerUnread(c) PROVE HoldInv'
  <2>1. calls' = [calls EXCEPT ![c].at = "unread"] /\ calls \in [Call -> CallRecord]
    BY <1>u DEF AnswerUnread, Typed, TypeOK, CallRecord
  <2>2. Holding' = Holding /\ PriceOf' = PriceOf /\ HeldOf' = HeldOf
    BY <1>u, <2>1 DEF AnswerUnread, Holding, PriceOf, HeldOf, Price, CallRecord
  <2>3. \A j \in Job : HoldingOf(j)' = HoldingOf(j)
    BY <2>1, <2>2 DEF HoldingOf, CallRecord
  <2>4. UNCHANGED <<balance, held, jobs, forgiven, overrun>>
    BY <1>u DEF AnswerUnread, wallet, history
  <2>5. Held' /\ Reserved'
    BY <2>2, <2>3, <2>4 DEF Held, Reserved
  <2>6. NothingOverspent' /\ Fresh'
    BY <2>4 DEF NothingOverspent, NeverOverspent, CapKept, Available, Fresh
  <2> QED BY <1>1, <2>5, <2>6
<1>12. ASSUME NEW S \in SUBSET Job, NEW end \in Closed, CloseJobs(S, end),
              UNCHANGED <<wallet, calls, history>>
       PROVE  HoldInv'
  <2>1. \A j \in Job : /\ jobs'[j].reserved = jobs[j].reserved
                       /\ jobs'[j].cost = jobs[j].cost /\ jobs'[j].cap = jobs[j].cap
                       /\ jobs'[j].status = "none" => jobs[j].status = "none"
    BY <1>2, <1>12 DEF CloseJobs, JobRecord, Closed
  <2> QED BY <1>4, <1>12, <2>1 DEF wallet, history
<1>13. ASSUME NEW j \in Job, FinishJob(j) PROVE HoldInv'
  BY <1>12, <1>13 DEF FinishJob, Closed
<1>14. CASE Purge
  BY <1>12, <1>14 DEF Purge, Closed
<1>15. CASE DeleteAccount
  <2>1. \A j \in Job : /\ jobs'[j].reserved = jobs[j].reserved
                       /\ jobs'[j].cost = jobs[j].cost /\ jobs'[j].cap = jobs[j].cap
                       /\ jobs'[j].status = "none" => jobs[j].status = "none"
    BY <1>2, <1>15 DEF DeleteAccount, JobRecord
  <2> QED BY <1>4, <1>15, <2>1 DEF DeleteAccount, wallet, history
<1>16. CASE Restart
  <2>1. /\ held' = 0 /\ balance' = balance /\ forgiven' = forgiven /\ overrun' = overrun
        /\ \A j \in Job : /\ jobs'[j].reserved = 0 /\ jobs'[j].cost = jobs[j].cost
                           /\ jobs'[j].cap = jobs[j].cap
    BY <1>2, <1>16 DEF Restart, OpenStore, history, JobRecord
  <2>2. calls' \in [Call -> CallRecord] /\ \A c \in Call : calls'[c].at \notin {"flight", "unread"}
    BY <1>16 DEF Restart, Typed, TypeOK, CallRecord, Holding
  <2>3. Holding' = {} /\ \A j \in Job : HoldingOf(j)' = {}
    BY <2>2 DEF Holding, HoldingOf
  <2>4. Held' /\ Reserved'
    BY <2>1, <2>3, TotalEmpty DEF Held, Reserved
  <2>5. NeverOverspent'
    BY <2>1, Amounts DEF NothingOverspent, NeverOverspent, Available
  <2>6. CapKept'
    BY <2>1, Amounts DEF NothingOverspent, CapKept
  <2> QED BY <1>1, <2>1, <2>4, <2>5, <2>6 DEF NothingOverspent, Fresh
<1>17. CASE UNCHANGED vars
  BY <1>3, <1>17 DEF vars, wallet, history, NothingOverspent, NeverOverspent, Available
<1> QED BY <1>5, <1>6, <1>7, <1>8, <1>9, <1>10, <1>11, <1>u, <1>13, <1>14, <1>15, <1>16, <1>17
        DEF NextNoBackup, Money, Chapters

\* No hold is freed twice, and but for an answer that cannot be read no failure path leaks one:
\* the account and each chapter hold what their requests in flight do, and what the unread
\* answers since the last start left behind (store.py:420-454, app.py:540-606).
THEOREM HoldsAreExact == SpecNoBackup => []HoldsExact
<1>1. HoldInv => HoldsExact
  BY DEF HoldInv, Held, Reserved, HoldsExact
<1> QED BY <1>1, HoldInit, HoldStep, PTL DEF SpecNoBackup

\* However many requests are in flight, and whatever they turn out to cost, the account goes
\* below zero by refunds, debits and costs beyond the estimates only, and no chapter spends more
\* than its cap but by such costs (begin_request and add_cost, store.py:420-454).
THEOREM HoldsSuffice == SpecNoBackup => []NothingOverspent
<1>1. HoldInv => NothingOverspent
  BY DEF HoldInv
<1> QED BY <1>1, HoldInit, HoldStep, PTL DEF SpecNoBackup
-----------------------------------------------------------------------------
(* Where the money is. *)

TopUps == Payment \cup {"adjust"}
ChargedOf == [j \in Job |-> jobs[j].charged]

\* The balance is what top-ups and adjustments left in it, less what the chapters were charged;
\* that a chapter is booked changes neither.
InBalance == balance = Total(moved, TopUps) - Total(ChargedOf, Job)

\* A request in flight is of a chapter that was opened, and one that was not was charged nothing.
Opened == \A c \in Call : calls[c].at = "flight" => jobs[calls[c].job].status # "none"
Uncharged == \A j \in Job : jobs[j].status = "none" => jobs[j].charged = 0

\* The inductive invariant.
MoneyInv == Typed /\ InBalance /\ Opened /\ Uncharged

LEMMA MoneyAmounts ==
  ASSUME Typed
  PROVE  /\ \A x \in Ref : moved[x] \in Int
         /\ \A j \in Job : jobs[j].charged \in Nat /\ ChargedOf[j] \in Nat
         /\ balance \in Int
<1>1. \A j \in Job : jobs[j].charged \in Nat
  BY DEF Typed, TypeOK
<1> QED BY <1>1 DEF Typed, TypeOK, ChargedOf

LEMMA RefSplit ==
  /\ Ref = TopUps \cup Job /\ TopUps \cap Job = {}
  /\ IsFiniteSet(TopUps) /\ IsFiniteSet(Job)
<1>1. IsFiniteSet(TopUps)
  BY WalletAssumption, FS_AddElement DEF TopUps
<1> QED BY <1>1, WalletAssumption DEF Ref, TopUps

LEMMA MoneyInit == Init => MoneyInv
<1> SUFFICES ASSUME Init PROVE MoneyInv
  OBVIOUS
<1>1. Typed
  BY TypedInit
<1>2. ASSUME NEW S, IsFiniteSet(S), NEW w, \A x \in S : w[x] = 0
      PROVE  Total(w, S) = 0
  <2> DEFINE v == [x \in S |-> 0]
  <2>1. Total(w, S) = Total(v, S)
    BY <1>2, TotalSame
  <2>2. \A x \in S : v[x] \in Int /\ v[x] = v[x] + v[x]
    OBVIOUS
  <2> HIDE DEF v
  <2>3. Total(v, S) = Total(v, S) + Total(v, S) /\ Total(v, S) \in Int
    BY <1>2, <2>2, TotalPlus, TotalInt
  <2>4. \A t \in Int : t = t + t => t = 0
    OBVIOUS
  <2> QED BY <2>1, <2>3, <2>4
<1>3. Total(moved, TopUps) = 0
  <2>1. \A x \in TopUps : moved[x] = 0
    BY RefSplit DEF Init
  <2> QED BY <1>2, <2>1, RefSplit
<1>4. Total(ChargedOf, Job) = 0
  <2>1. \A j \in Job : ChargedOf[j] = 0
    BY DEF Init, NoJob, ChargedOf
  <2> QED BY <1>2, <2>1, RefSplit
<1>5. InBalance
  BY <1>3, <1>4 DEF Init, InBalance
<1>6. Opened /\ Uncharged
  BY DEF Init, Opened, Uncharged, NoJob
<1> QED BY <1>1, <1>5, <1>6 DEF MoneyInv

\* A step that books nothing but chapters, and charges none.
LEMMA BalanceKept ==
  ASSUME InBalance, UNCHANGED balance, \A x \in TopUps : moved'[x] = moved[x],
         \A j \in Job : jobs'[j].charged = jobs[j].charged
  PROVE  InBalance'
<1>1. Total(moved', TopUps) = Total(moved, TopUps)
  BY TotalSame, RefSplit
<1>2. ChargedOf' = ChargedOf
  BY DEF ChargedOf
<1> QED BY <1>1, <1>2 DEF InBalance

\* A step that books a top-up or an adjustment.
LEMMA BalanceBooked ==
  ASSUME Typed, InBalance, NEW x \in TopUps, NEW d \in Int, Book(x, d), UNCHANGED jobs
  PROVE  InBalance'
<1>1. moved \in [Ref -> Int] /\ x \in Ref /\ moved[x] + d \in Int
  BY RefSplit DEF Typed, TypeOK
<1>2. moved' = [moved EXCEPT ![x] = moved[x] + d] /\ balance' = balance + d
  BY DEF Book
<1>3. PICK v : v = moved'
  OBVIOUS
<1>4. /\ v[x] = moved[x] + d /\ \A y \in TopUps : y # x => v[y] = moved[y]
      /\ \A y \in TopUps : moved[y] \in Int /\ v[y] \in Int
  BY <1>1, <1>2, <1>3, RefSplit
<1>5. Total(v, TopUps) = Total(moved, TopUps) + v[x] - moved[x]
  <2>1. PICK w : w = moved
    OBVIOUS
  <2>2. IsFiniteSet(TopUps)
    BY RefSplit
  <2>3. /\ \A y \in TopUps : w[y] \in Int /\ v[y] \in Int
        /\ \A y \in TopUps : y # x => v[y] = w[y]
    BY <1>4, <2>1
  <2>4. Total(v, TopUps) = Total(w, TopUps) + v[x] - w[x]
    BY <2>2, <2>3, TotalUpdate
  <2> QED BY <2>1, <2>4
<1>6. Total(moved, TopUps) \in Int
  BY <1>4, RefSplit, TotalInt
<1>7. Total(v, TopUps) = Total(moved, TopUps) + d
  BY <1>1, <1>4, <1>5, <1>6
<1>8. ChargedOf' = ChargedOf /\ Total(ChargedOf, Job) \in Int
  BY RefSplit, TotalInt, MoneyAmounts DEF ChargedOf
<1> QED BY <1>2, <1>3, <1>6, <1>7, <1>8 DEF InBalance

\* A request that ends is charged to its chapter.
LEMMA BalanceCharged ==
  ASSUME MoneyInv, NEW c \in Call, NEW spent \in Nat, AddCost(c, spent)
  PROVE  MoneyInv'
<1> USE DEF MoneyInv
<1>t. Typed'
  BY AddCostTyped
<1>1. PICK j \in Job : j = calls[c].job
  BY DEF AddCost, Typed, Named
<1>2. PICK price \in Nat : price = Price(spent)
  BY PriceNat, WalletAssumption
<1>3. jobs \in [Job -> JobRecord] /\ jobs[j] \in JobRecord
  BY DEF Typed, TypeOK, JobRecord
<1>4. /\ jobs'[j].charged = jobs[j].charged + price
      /\ \A k \in Job : k # j => jobs'[k] = jobs[k]
      /\ \A k \in Job : jobs'[k].status = jobs[k].status
  BY <1>1, <1>2, <1>3 DEF AddCost, JobRecord
<1>5. balance' = balance - price /\ moved' = moved
  BY <1>2 DEF AddCost, ledger
<1>6. PICK v : v = ChargedOf'
  OBVIOUS
<1>7. /\ v[j] = ChargedOf[j] + price /\ \A k \in Job : k # j => v[k] = ChargedOf[k]
      /\ \A k \in Job : ChargedOf[k] \in Int /\ v[k] \in Int
  <2>1. \A k \in Job : jobs'[k].charged \in Nat
    BY <1>t DEF Typed, TypeOK
  <2> QED BY <1>4, <1>6, <2>1, MoneyAmounts DEF ChargedOf
<1>8. Total(v, Job) = Total(ChargedOf, Job) + v[j] - ChargedOf[j]
  <2>1. PICK w : w = ChargedOf
    OBVIOUS
  <2>2. IsFiniteSet(Job)
    BY RefSplit
  <2>3. /\ \A k \in Job : w[k] \in Int /\ v[k] \in Int
        /\ \A k \in Job : k # j => v[k] = w[k]
    BY <1>7, <2>1
  <2>4. Total(v, Job) = Total(w, Job) + v[j] - w[j]
    BY <2>2, <2>3, TotalUpdate
  <2> QED BY <2>1, <2>4
<1>9. Total(ChargedOf, Job) \in Int /\ Total(moved, TopUps) \in Int
  <2>1. \A x \in TopUps : moved[x] \in Int
    BY MoneyAmounts, RefSplit
  <2> QED BY <1>7, <2>1, RefSplit, TotalInt
<1>10. Total(v, Job) = Total(ChargedOf, Job) + price
  BY <1>7, <1>8, <1>9
<1>11. InBalance'
  BY <1>5, <1>6, <1>9, <1>10 DEF InBalance
<1>12. Opened'
  <2>1. calls' = [calls EXCEPT ![c].at = "over"] /\ calls \in [Call -> CallRecord]
    BY DEF AddCost, Typed, TypeOK, CallRecord
  <2>2. \A d \in Call : calls'[d].at = "flight" => calls[d].at = "flight" /\ calls'[d].job = calls[d].job
    BY <2>1 DEF CallRecord
  <2> QED BY <1>4, <2>2 DEF Opened, Typed, Named
<1>13. Uncharged'
  <2>1. jobs[j].status # "none"
    BY <1>1 DEF AddCost, Opened
  <2> QED BY <1>4, <2>1 DEF Uncharged
<1> QED BY <1>t, <1>11, <1>12, <1>13

LEMMA MoneyStep == MoneyInv /\ [Next]_vars => MoneyInv'
<1> SUFFICES ASSUME MoneyInv, [Next]_vars PROVE MoneyInv'
  OBVIOUS
<1> USE DEF MoneyInv
<1>1. Typed'
  BY TypedStep
<1>2. jobs \in [Job -> JobRecord] /\ calls \in [Call -> CallRecord]
  BY DEF Typed, TypeOK, JobRecord, CallRecord
<1>3. ASSUME NEW x \in TopUps, NEW d \in Int, Book(x, d), UNCHANGED <<jobs, calls>>
      PROVE  MoneyInv'
  BY <1>1, <1>3, BalanceBooked DEF Opened, Uncharged
<1>4. ASSUME UNCHANGED balance, \A x \in TopUps : moved'[x] = moved[x],
             \A j \in Job : /\ jobs'[j].charged = jobs[j].charged
                            /\ jobs'[j].status = "none" => jobs[j].status = "none",
             \A c \in Call : calls'[c].at = "flight" =>
                               jobs'[calls'[c].job].status # "none"
      PROVE  MoneyInv'
  BY <1>1, <1>4, BalanceKept DEF Opened, Uncharged
<1>5. ASSUME UNCHANGED <<balance, moved, jobs, calls>> PROVE MoneyInv'
  BY <1>4, <1>5 DEF Opened
<1>6. CASE Adjust
  <2>1. "adjust" \in TopUps /\ \A d \in AdjustAmount : d \in Int
    BY WalletAssumption DEF TopUps
  <2> QED BY <1>3, <1>6, <2>1 DEF Adjust
<1>7. ASSUME NEW p \in Payment, CreatePayment(p) PROVE MoneyInv'
  BY <1>5, <1>7 DEF CreatePayment, wallet, ledger
<1>8. ASSUME NEW p \in Payment, CompletePayment(p) PROVE MoneyInv'
  <2>1. p \in TopUps /\ Credit \in Int
    BY WalletAssumption DEF TopUps
  <2>2. Book(p, Credit) \/ UNCHANGED <<balance, moved>>
    BY <1>8 DEF CompletePayment, ledger
  <2> QED BY <1>3, <1>5, <1>8, <2>1, <2>2 DEF CompletePayment
<1>9. ASSUME NEW p \in Payment, RefundPayment(p) PROVE MoneyInv'
  <2>1. p \in TopUps /\ -Credit \in Int
    BY WalletAssumption DEF TopUps
  <2>2. Book(p, -Credit) \/ UNCHANGED <<balance, moved>>
    BY <1>9 DEF RefundPayment, ledger
  <2> QED BY <1>3, <1>5, <1>9, <2>1, <2>2 DEF RefundPayment
<1>10. ASSUME NEW j \in Job, ReserveJob(j) PROVE MoneyInv'
  <2>1. PICK cap : jobs' = [jobs EXCEPT ![j] = [NoJob EXCEPT !.status = "active", !.cap = cap]]
    BY <1>10 DEF ReserveJob
  <2>2. /\ jobs'[j].charged = 0 /\ jobs'[j].status = "active"
        /\ \A k \in Job \ {j} : jobs'[k] = jobs[k]
    BY <1>2, <2>1 DEF NoJob
  <2>3. jobs[j].charged = 0
    BY <1>10 DEF ReserveJob, Uncharged
  <2>4. UNCHANGED <<balance, moved, calls>>
    BY <1>10 DEF ReserveJob, wallet, ledger
  <2>5. \A k \in Job : /\ jobs'[k].charged = jobs[k].charged
                       /\ jobs'[k].status = "none" => jobs[k].status = "none"
    BY <2>2, <2>3
  <2>6. \A c \in Call : calls'[c].at = "flight" => jobs'[calls'[c].job].status # "none"
    BY <2>4, <2>5 DEF Opened, Typed, Named
  <2> QED BY <1>4, <2>4, <2>5, <2>6
<1>11. ASSUME NEW c \in Call, NEW j \in Job, BeginRequest(c, j) PROVE MoneyInv'
  <2>1. PICK h : Hold(c, j, h)
    BY <1>11 DEF BeginRequest
  <2>2. UNCHANGED <<balance, moved>>
    BY <2>1 DEF Hold, ledger
  <2>3. \A k \in Job : jobs'[k].charged = jobs[k].charged /\ jobs'[k].status = jobs[k].status
    BY <1>2, <2>1 DEF Hold, JobRecord
  <2>4. \A d \in Call : IF d = c THEN calls'[d].job = j ELSE calls'[d] = calls[d]
    BY <1>2, <2>1 DEF Hold
  <2>5. \A d \in Call : calls'[d].at = "flight" => jobs'[calls'[d].job].status # "none"
    BY <1>11, <2>3, <2>4 DEF BeginRequest, Opened, Typed, Named
  <2> QED BY <1>4, <2>2, <2>3, <2>5
<1>12. ASSUME NEW c \in Call, Answer(c) \/ Abandon(c) PROVE MoneyInv'
  <2>1. PICK spent \in Nat : AddCost(c, spent)
    BY <1>12, WalletAssumption DEF Answer, Abandon
  <2> QED BY <2>1, BalanceCharged
<1>u. ASSUME NEW c \in Call, AnswerUnread(c) PROVE MoneyInv'
  <2>1. calls' = [calls EXCEPT ![c].at = "unread"] /\ UNCHANGED <<balance, moved, jobs>>
    BY <1>u DEF AnswerUnread, wallet, ledger
  <2>2. \A d \in Call : calls'[d].at = "flight" => calls[d].at = "flight" /\ calls'[d].job = calls[d].job
    BY <1>2, <2>1 DEF CallRecord
  <2>3. \A d \in Call : calls'[d].at = "flight" => jobs'[calls'[d].job].status # "none"
    BY <2>1, <2>2 DEF Opened
  <2> QED BY <1>4, <2>1, <2>3
<1>13. ASSUME \A x \in TopUps : moved'[x] = moved[x], UNCHANGED <<balance, calls>>,
              \A j \in Job : /\ jobs'[j].charged = jobs[j].charged
                             /\ jobs'[j].status = "none" => jobs[j].status = "none"
       PROVE  MoneyInv'
  BY <1>4, <1>13 DEF Opened, Typed, Named
<1>14. ASSUME NEW S \in SUBSET Job, NEW end \in Closed, CloseJobs(S, end),
              UNCHANGED <<wallet, calls>>
       PROVE  MoneyInv'
  <2>1. \A j \in Job : /\ jobs'[j].charged = jobs[j].charged
                       /\ jobs'[j].status = "none" => jobs[j].status = "none"
    BY <1>2, <1>14 DEF CloseJobs, JobRecord, Closed
  <2>2. \A x \in TopUps : moved'[x] = moved[x]
    <3>1. ASSUME NEW x \in TopUps PROVE moved'[x] = moved[x]
      <4>1. x \in Ref /\ x \notin S /\ moved[x] \in Int
        BY RefSplit, MoneyAmounts
      <4>2. moved'[x] = moved[x] - 0
        BY <1>14, <4>1 DEF CloseJobs
      <4> QED BY <4>1, <4>2
    <3> QED BY <3>1
  <2> QED BY <1>13, <1>14, <2>1, <2>2 DEF wallet
<1>15. ASSUME NEW j \in Job, FinishJob(j) PROVE MoneyInv'
  BY <1>14, <1>15 DEF FinishJob, Closed
<1>16. CASE Purge
  BY <1>14, <1>16 DEF Purge, Closed
<1>17. CASE DeleteAccount
  <2>1. \A j \in Job : /\ jobs'[j].charged = jobs[j].charged
                       /\ jobs'[j].status = "none" => jobs[j].status = "none"
    BY <1>2, <1>17 DEF DeleteAccount, JobRecord
  <2> QED BY <1>13, <1>17, <2>1 DEF DeleteAccount, wallet, ledger
<1>18. CASE Restart \/ Backup
  <2>1. UNCHANGED <<balance, moved>> /\ \A j \in Job : jobs'[j] = [jobs[j] EXCEPT !.reserved = 0]
    BY <1>18 DEF Restart, Backup, OpenStore, ledger
  <2>2. ASSUME NEW j \in Job
        PROVE  jobs'[j].charged = jobs[j].charged /\ jobs'[j].status = jobs[j].status
    <3>1. PICK row \in JobRecord : row = jobs[j]
      BY <1>2
    <3>2. jobs'[j] = [row EXCEPT !.reserved = 0]
      BY <2>1, <3>1
    <3> QED BY <3>1, <3>2 DEF JobRecord
  <2>3. \A c \in Call : calls'[c].at = "flight" => calls[c].at = "flight" /\ calls'[c].job = calls[c].job
    <3>1. CASE Backup
      BY <3>1 DEF Backup
    <3>2. CASE Restart
      BY <1>2, <3>2 DEF Restart, Holding, CallRecord
    <3> QED BY <1>18, <3>1, <3>2
  <2>4. \A c \in Call : calls'[c].at = "flight" => jobs'[calls'[c].job].status # "none"
    BY <2>2, <2>3 DEF Opened, Typed, Named
  <2> QED BY <1>4, <2>1, <2>2, <2>4
<1>19. CASE UNCHANGED vars
  BY <1>5, <1>19 DEF vars, wallet, ledger
<1> QED BY <1>6, <1>7, <1>8, <1>9, <1>10, <1>11, <1>12, <1>u, <1>15, <1>16, <1>17, <1>18, <1>19
        DEF Next, NextNoBackup, Money, Chapters

\* Whatever is topped up, refunded, charged, booked, restarted and backed up, the balance is the
\* sum of the ledger less the charges of the chapters it has not booked (store.py:317-323, 446-464).
THEOREM BalanceIsLedger == Spec => []MoneyConserved
<1>1. MoneyInv => MoneyConserved
  <2> SUFFICES ASSUME MoneyInv PROVE MoneyConserved
    OBVIOUS
  <2>1. Typed /\ InBalance
    BY DEF MoneyInv
  <2> DEFINE both == [j \in Job |-> jobs[j].charged + moved[j]]
  <2>2. \A x \in Ref : moved[x] \in Int
    BY <2>1, MoneyAmounts
  <2>3. \A j \in Job : /\ ChargedOf[j] \in Int /\ moved[j] \in Int
                       /\ both[j] = ChargedOf[j] + moved[j]
    <3>1. \A j \in Job : ChargedOf[j] \in Int /\ moved[j] \in Int
      BY <2>1, <2>2, MoneyAmounts, RefSplit
    <3> QED BY <3>1 DEF ChargedOf
  <2>4. MoneyConserved = (balance = Total(moved, Ref) - Total(both, Job))
    BY DEF MoneyConserved
  <2> HIDE DEF both
  <2>5. Total(both, Job) = Total(ChargedOf, Job) + Total(moved, Job)
    <3>1. \A j \in Job : both[j] \in Int
      BY <2>3
    <3> QED BY <2>3, <3>1, RefSplit, TotalPlus
  <2>6. Total(moved, Ref) = Total(moved, TopUps) + Total(moved, Job)
    BY <2>2, RefSplit, TotalUnion
  <2>7. Total(moved, TopUps) \in Int /\ Total(moved, Job) \in Int /\ Total(ChargedOf, Job) \in Int
    BY <2>2, <2>3, RefSplit, TotalInt
  <2>8. PICK a \in Int, b \in Int, c \in Int :
          a = Total(moved, TopUps) /\ b = Total(moved, Job) /\ c = Total(ChargedOf, Job)
    BY <2>7
  <2>9. balance = a - c
    BY <2>1, <2>8 DEF InBalance
  <2>10. Total(moved, Ref) - Total(both, Job) = (a + b) - (c + b)
    BY <2>5, <2>6, <2>8
  <2>11. (a + b) - (c + b) = a - c
    BY <2>8
  <2> QED BY <2>4, <2>9, <2>10, <2>11
<1> QED BY <1>1, MoneyInit, MoneyStep, PTL DEF Spec

-----------------------------------------------------------------------------
(* A.I mode: the inductive invariant. *)

\* The chapter's job has not failed and was not cancelled.
Good == stage = "over" => status[worker] = "completed"

\* What the gateway was told of a request, and how far its job is.
RequestFits(r) ==
  LET kept == IF r \in Cloud THEN "open" ELSE "none"
  IN /\ request[r] \in {"idle", "reserving"} => reservation[r] = "none" /\ status[r] = "none"
     /\ request[r] = "reserving" => r \in Cloud
     /\ request[r] \in {"starting", "refused"} =>
          r \in Cloud /\ reservation[r] = "open" /\ status[r] = "none"
     /\ request[r] = "running" => reservation[r] = kept /\ status[r] = "running"
     /\ request[r] = "ending" => reservation[r] = kept /\ status[r] \in Outcomes
     /\ request[r] = "done" =>
          /\ status[r] # "running" /\ reservation[r] # "open"
          /\ reservation[r] \in Outcomes =>
               reservation[r] = IF status[r] = "none" THEN "cancelled" ELSE status[r]

RequestsFit ==
  /\ \A r \in Caller : RequestFits(r)
  /\ \A q, r \in Active : q = r

\* The stage is that of the first job.
StageFits ==
  /\ stage = "off" <=> worker = None
  /\ \A r \in Caller : status[r] # "none" => worker # None
  /\ worker # None => status[worker] # "none" /\ (stage = "over" <=> status[worker] # "running")

\* The slices are at rest before the translate stage and after it.
SlicesRest ==
  /\ stage \in {"off", "download", "scan", "clean", "review"} => \A p \in Page : slice[p].at = "off"
  /\ Good /\ stage \in {"polish", "render", "letter", "finish", "over"} =>
       \A p \in Page : slice[p].at = "done"

SliceFits(p) ==
  LET s == slice[p]
  IN /\ s.at \in {"off", "queued"} => s = [NoSlice EXCEPT !.at = s.at]
     /\ s.at = "asking" /\ s.first => s.todo = <<>>
     /\ s.at \in {"asking", "art"} => s.fruitless < Rounds /\ (~s.first => s.todo # <<>>)
     /\ s.at \in {"box", "retry", "restore"} => ~s.first
     /\ s.at \in {"retry", "restore"} => s.todo # <<>>
     /\ s.owed # 0 => s.at = "art" /\ s.first
     /\ s.blank \subseteq blanked

SlicesFit == \A p \in Page : SliceFits(p)

\* Objects of a slice that have come to nothing yet, ...
Open(p) ==
  {o \in On(p) \cap present : text[o] = "none" /\ o \notin preserved \cup blanked \cup passed \cup dropped}

\* ... and those it will still ask for or give their pixels back.
Pending(todo) == {o \in Object : \E i \in DOMAIN todo : o \in todo[i]}
Minded(s) ==
  IF s.at = "asking" /\ s.first THEN s.asked
  ELSE IF s.at = "restore" THEN s.asked \cup Pending(Tail(s.todo))
  ELSE IF s.at = "done" THEN {}
  ELSE Pending(s.todo)

Covered(p) ==
  \/ slice[p].at \in {"off", "queued"} \/ p \in skipped \/ p \in excused
  \/ Open(p) \subseteq Minded(slice[p]) \cup Copies

AllCovered == Good => \A p \in Page : Covered(p)

Evidence ==
  /\ attempted \subseteq blanked
  /\ \A o \in Object : disposition[o] = "non_story" => o \in attempted

\* Once the slices are translated, an object without a text has none for a reason, ...
Late == Good /\ stage \in {"polish", "render", "letter", "finish", "over"}
Explained == Late => \A o \in Shown \ preserved : text[o] = "none" => Excused(o)

\* ... and so has one that is marked.
Marked ==
  \A o \in Object : disposition[o] = "untranslated" => Excused(o) /\ stage \notin {"off", "download", "scan"}

\* What the calls under way may cost at most, with what has been spent.
Weight(s) == IF s.at = "asking" THEN MaxCost ELSE s.owed
WeightBy == [p \in Page |-> Weight(slice[p])]
Gate == {p \in Page : InGate(p)}

SpendingFits ==
  priced => \/ cost + Total(WeightBy, Page) = 0
            \/ early + cost + Total(WeightBy, Page) < Budget + Concurrency * MaxCost

BudgetFits ==
  /\ SpendingFits
  /\ stage \in {"off", "download", "scan", "clean", "review"} => cost = 0
  /\ Cardinality(Gate) <= Concurrency

AiInv ==
  /\ AiTypeOK /\ RequestsFit /\ StageFits /\ SlicesRest /\ SlicesFit
  /\ AllCovered /\ Evidence /\ Explained /\ Marked /\ BudgetFits

-----------------------------------------------------------------------------
(* Stages. *)

StageSet == {"download", "scan", "clean", "review", "translate", "polish", "render", "letter", "finish"}

LEMMA StagesAre ==
  /\ DOMAIN Stages = 1..9
  /\ Stages[1] = "download" /\ Stages[2] = "scan" /\ Stages[3] = "clean" /\ Stages[4] = "review"
  /\ Stages[5] = "translate" /\ Stages[6] = "polish" /\ Stages[7] = "render"
  /\ Stages[8] = "letter" /\ Stages[9] = "finish"
  BY DEF Stages

LEMMA StagesSet == {Stages[i] : i \in DOMAIN Stages} = StageSet
<1>1. \A s \in StageSet : \E i \in 1..9 : s = Stages[i]
  BY StagesAre DEF StageSet
<1>2. \A i \in 1..9 : Stages[i] \in StageSet
  <2> TAKE i \in 1..9
  <2>1. i = 1 \/ i = 2 \/ i = 3 \/ i = 4 \/ i = 5 \/ i = 6 \/ i = 7 \/ i = 8 \/ i = 9
    OBVIOUS
  <2> QED BY <2>1, StagesAre DEF StageSet
<1> QED BY <1>1, <1>2, StagesAre

\* What follows a stage that is not the last one.
LEMMA AfterIs ==
  /\ After("download") = "scan" /\ After("scan") = "clean" /\ After("clean") = "review"
  /\ After("review") = "translate" /\ After("translate") = "polish" /\ After("polish") = "render"
  /\ After("render") = "letter" /\ After("letter") = "finish"
<1>1. ASSUME NEW k \in 1..8
      PROVE  After(Stages[k]) = Stages[k + 1]
  <2>1. \A i \in 1..9 : Stages[i] = Stages[k] => i = k
    <3> TAKE i \in 1..9
    <3>1. i = 1 \/ i = 2 \/ i = 3 \/ i = 4 \/ i = 5 \/ i = 6 \/ i = 7 \/ i = 8 \/ i = 9
      OBVIOUS
    <3>2. k = 1 \/ k = 2 \/ k = 3 \/ k = 4 \/ k = 5 \/ k = 6 \/ k = 7 \/ k = 8
      OBVIOUS
    <3> QED BY <3>1, <3>2, StagesAre
  <2>2. (CHOOSE i \in DOMAIN Stages : Stages[i] = Stages[k]) = k
    BY <2>1, StagesAre
  <2> QED BY <2>2 DEF After
<1>2. /\ After(Stages[1]) = Stages[2] /\ After(Stages[2]) = Stages[3]
      /\ After(Stages[3]) = Stages[4] /\ After(Stages[4]) = Stages[5]
      /\ After(Stages[5]) = Stages[6] /\ After(Stages[6]) = Stages[7]
      /\ After(Stages[7]) = Stages[8] /\ After(Stages[8]) = Stages[9]
  <2>1. \A k \in 1..8 : After(Stages[k]) = Stages[k + 1]
    BY <1>1
  <2> QED BY <2>1
<1> QED BY <1>2, StagesAre

-----------------------------------------------------------------------------
(* Requests. *)

RequestsTyped ==
  /\ request \in [Caller -> {"idle", "reserving", "starting", "refused", "running", "ending", "done"}]
  /\ reservation \in [Caller -> {"none", "open", "lost"} \cup Outcomes]
  /\ status \in [Caller -> {"none", "running"} \cup Outcomes] /\ worker \in Caller \cup {None}
  /\ stage \in {"off", "over"} \cup StageSet

RequestsInv == RequestsTyped /\ RequestsFit /\ StageFits

\* A job is begun while none is active.
LEMMA BeginsFit ==
  ASSUME RequestsInv, NEW r \in Caller, Active = {},
         (r \notin Cloud /\ request[r] = "idle") \/ request[r] = "starting",
         Begins(r), UNCHANGED reservation
  PROVE  /\ RequestsInv' /\ (Good' => Good)
         /\ stage' = stage \/ (stage = "off" /\ stage' = "download")
<1> USE DEF RequestsInv, RequestsTyped, RequestsFit, StageFits, Begins, Good, Active
<1>1. status[r] = "none" /\ None \notin Caller
  BY AiModeAssumption DEF RequestFits
<1>2. RequestsTyped'
  BY DEF StageSet
<1>3. \A q \in Caller : RequestFits(q)'
  BY <1>1 DEF RequestFits, Outcomes
<1>4. (\A p, q \in Active : p = q)'
  BY <1>1
<1>5. StageFits' /\ (Good' => Good) /\ (stage' = stage \/ (stage = "off" /\ stage' = "download"))
  BY <1>1
<1> QED BY <1>2, <1>3, <1>4, <1>5

\* A job ends.
LEMMA EndsFit ==
  ASSUME RequestsInv, NEW r \in Caller, status[r] = "running", NEW outcome \in Outcomes,
         Ends(r, outcome), stage' = IF r = worker THEN "over" ELSE stage
  PROVE  RequestsInv' /\ (r # worker => (Good' => Good)) /\ (r = worker => stage \in StageSet /\ Good)
<1> USE DEF RequestsInv, RequestsTyped, RequestsFit, StageFits, Ends, Good, Active
<1>1. outcome # "running" /\ outcome # "none" /\ request[r] = "running"
  BY DEF Outcomes, RequestFits
<1>2. RequestsTyped'
  BY DEF Outcomes
<1>3. \A q \in Caller : RequestFits(q)'
  BY <1>1 DEF RequestFits, Outcomes
<1>4. (\A p, q \in Active : p = q)'
  BY <1>1
<1>5. StageFits'
  BY <1>1, AiModeAssumption
<1>6. (r # worker => (Good' => Good)) /\ (r = worker => stage \in StageSet /\ Good)
  BY <1>1, AiModeAssumption
<1> QED BY <1>2, <1>3, <1>4, <1>5, <1>6

\* A request goes on, and the jobs stay as they are.
LEMMA RequestGoesOn ==
  ASSUME RequestsInv, NEW r \in Caller, UNCHANGED <<status, worker, stage>>,
         Ask(r) \/ Reserve(r) \/ (Start(r) /\ Active # {}) \/ Settle(r)
  PROVE  RequestsInv' /\ (Good' => Good)
<1> USE DEF RequestsInv, RequestsTyped, RequestsFit, StageFits, Good, Active
<1>1. StageFits' /\ (Good' => Good) /\ (\A p, q \in Active : p = q)'
  OBVIOUS
<1>2. CASE Ask(r)
  BY <1>1, <1>2 DEF Ask, RequestFits, Outcomes
<1>3. CASE Reserve(r)
  <2>1. /\ r \in Cloud /\ status[r] = "none" /\ request[r] = "reserving" /\ reservation[r] = "none"
        /\ \A q \in Caller : RequestFits(q)
    BY <1>3, AiModeAssumption DEF Reserve, RequestFits
  <2>2. CASE request' = [request EXCEPT ![r] = "done"] /\ UNCHANGED reservation
    BY <1>1, <2>1, <2>2 DEF RequestFits, Outcomes
  <2>3. CASE /\ reservation' = [reservation EXCEPT ![r] = "open"]
             /\ request' = [request EXCEPT ![r] = "starting"]
    BY <1>1, <2>1, <2>3 DEF RequestFits, Outcomes
  <2> QED BY <1>3, <2>2, <2>3 DEF Reserve
<1>4. CASE Start(r) /\ Active # {}
  BY <1>1, <1>4 DEF Start, RequestFits, Outcomes
<1>5. CASE Settle(r)
  BY <1>1, <1>5, AiModeAssumption DEF Settle, RequestFits, Outcomes
<1> QED BY <1>2, <1>3, <1>4, <1>5

-----------------------------------------------------------------------------
\* A stage ends, or the job does.
LEMMA StageEnds ==
  ASSUME RequestsInv, Running, Advance \/ Fails
  PROVE  /\ RequestsInv' /\ Good /\ stage \in StageSet
         /\ \/ stage # "finish" /\ stage' = After(stage) /\ UNCHANGED requests
            \/ stage' = "over" /\ (Good' => stage = "finish")
<1>1. /\ worker \in Caller /\ status[worker] = "running" /\ stage \in StageSet /\ Good
      /\ status \in [Caller -> {"none", "running"} \cup Outcomes]
  BY DEF Running, RequestsInv, RequestsTyped, StageFits, Good
<1>2. ASSUME NEW outcome \in Outcomes, Ends(worker, outcome), stage' = "over",
             outcome = "completed" => stage = "finish"
      PROVE  RequestsInv' /\ (Good' => stage = "finish")
  <2>1. RequestsInv'
    BY <1>1, <1>2, EndsFit
  <2>2. status'[worker'] = outcome
    BY <1>1, <1>2 DEF Ends
  <2> QED BY <1>2, <2>1, <2>2 DEF Good
<1>3. ASSUME stage # "finish", stage' = After(stage), UNCHANGED requests
      PROVE  RequestsInv'
  <2>1. stage' \in StageSet
    BY <1>1, <1>3, AfterIs DEF StageSet
  <2> QED BY <1>1, <1>3, <2>1
           DEF requests, RequestsInv, RequestsTyped, RequestsFit, RequestFits, StageFits, Active, StageSet
<1>4. CASE Fails
  BY <1>1, <1>2, <1>4 DEF Fails, Outcomes
<1>5. CASE Advance
  BY <1>1, <1>2, <1>3, <1>5 DEF Advance, Outcomes
<1> QED BY <1>4, <1>5

-----------------------------------------------------------------------------
(* What the variables of the chapter hold. *)

SlicesTyped ==
  /\ slice \in [Page -> SliceRecord]
  /\ \A p \in Page :
       /\ slice[p].at = "retry" => slice[p].todo # <<>>
       /\ slice[p].asked \cup slice[p].art \cup slice[p].fresh \cup slice[p].blank \subseteq On(p)

OwnersTyped ==
  owner \in [Object -> Object \cup {None}] /\ \A o \in Object : owner[o] # None => owner[owner[o]] = None

PenTyped ==
  /\ pen \in [next : 1..Pages + 1, out : BOOLEAN, sent : SUBSET Object, old : SUBSET Object]
  /\ pen.out => pen.next \in Page

ObjectsTyped ==
  /\ skipped \subseteq Page /\ present \subseteq Object /\ text \in [Object -> {"none", "ai", "typed"}]
  /\ UNION {preserved, attempted, dropped, polishing, blanked, passed} \subseteq Object /\ excused \subseteq Page
  /\ disposition \in [Object -> {"none", "non_story", "untranslated"}]

CountsTyped ==
  /\ cancelled \in BOOLEAN /\ outOfBudget \in BOOLEAN /\ left \in [Ops -> Nat]
  /\ early \in Nat /\ cost \in Nat /\ priced \in BOOLEAN

HandsTyped == OwnersTyped /\ PenTyped

LEMMA TypesAre == AiTypeOK <=> RequestsTyped /\ CountsTyped /\ SlicesTyped /\ ObjectsTyped /\ HandsTyped
  BY StagesSet DEF AiTypeOK, RequestsTyped, CountsTyped, SlicesTyped, ObjectsTyped, HandsTyped, OwnersTyped,
                   PenTyped

LEMMA TypesNext ==
  AiTypeOK' <=> RequestsTyped' /\ CountsTyped' /\ SlicesTyped' /\ ObjectsTyped' /\ HandsTyped'
  BY StagesSet DEF AiTypeOK, RequestsTyped, CountsTyped, SlicesTyped, ObjectsTyped, HandsTyped, OwnersTyped,
                   PenTyped

LEMMA HandsStay == ASSUME HandsTyped, UNCHANGED <<owner, pen>> PROVE HandsTyped'
  BY DEF HandsTyped, OwnersTyped, PenTyped

LEMMA UsedTyped ==
  ASSUME left \in [Ops -> Nat], NEW op \in Ops, Used(op)
  PROVE  left' \in [Ops -> Nat]
  BY DEF Used

LEMMA NoSliceTyped ==
  /\ NoSlice \in SliceRecord
  /\ \A a \in {"off", "queued", "done"} : [NoSlice EXCEPT !.at = a] \in SliceRecord
<1>1. <<>> \in Seq(SUBSET Object) /\ 0 \in 0..Rounds /\ 0 \in 0..MaxCost
  BY AiModeAssumption, EmptySeq
<1> QED BY <1>1 DEF NoSlice, SliceRecord

-----------------------------------------------------------------------------
(* The budget. *)

LEMMA PageFinite == IsFiniteSet(Page) /\ Page \subseteq Nat
<1>1. Pages \in Int /\ 1 \in Int
  BY AiModeAssumption
<1>2. IsFiniteSet(1..Pages)
  BY <1>1, FS_Interval
<1> QED BY <1>1, <1>2 DEF Page

\* A sum of weights up to M of which only those of G count.
LEMMA TotalAtMost ==
  ASSUME NEW S, IsFiniteSet(S), NEW G \in SUBSET S, NEW M \in Nat, NEW w,
         \A x \in S : w[x] \in 0..M, \A x \in S \ G : w[x] = 0
  PROVE  Total(w, S) <= M * Cardinality(G)
<1> DEFINE T == {s \in SUBSET S : ~(Total(w, s) <= M * Cardinality(s \cap G))}
<1>1. ASSUME T # {} PROVE FALSE
  <2>0. T \in SUBSET SUBSET S
    OBVIOUS
  <2>1. PICK t \in T : \A u \in SUBSET t : u # t => u \notin T
    <3> HIDE DEF T
    <3> QED BY <1>1, <2>0, SmallestPart
  <2>2. Total(w, t) = IF t = {} THEN 0 ELSE w[Pick(t)] + Total(w, t \ {Pick(t)})
    BY TotalDef, FS_Subset
  <2>3. t # {}
    <3>1. t = {} => Total(w, t) = 0 /\ t \cap G = {} /\ Cardinality({}) = 0
      BY <2>2, FS_EmptySet
    <3>2. 0 <= M * 0
      OBVIOUS
    <3>3. ASSUME t = {} PROVE FALSE
      <4>1. Total(w, t) = 0 /\ t \cap G = {}
        BY <3>1, <3>3
      <4>2. Cardinality(t \cap G) = 0
        BY <3>1, <3>3, <4>1
      <4> QED BY <2>1, <3>2, <4>1, <4>2
    <3> QED BY <3>3
  <2>4. PICK p : p = Pick(t)
    OBVIOUS
  <2>5. p \in t /\ Total(w, t) = w[p] + Total(w, t \ {p})
    BY <2>2, <2>3, <2>4, PickIn
  <2> DEFINE r == t \ {p}
  <2>6. Total(w, r) <= M * Cardinality(r \cap G)
    BY <2>1, <2>5
  <2>7. IsFiniteSet(r \cap G) /\ Cardinality(r \cap G) \in Nat /\ Total(w, r) \in Nat
    <3>1. IsFiniteSet(r) /\ IsFiniteSet(r \cap G)
      BY FS_Subset
    <3>2. \A x \in r : w[x] \in Nat
      OBVIOUS
    <3> QED BY <3>1, <3>2, FS_CardinalityType, TotalNat
  <2>8. PICK k \in Nat, n \in Nat, d \in 0..M :
          k = Cardinality(r \cap G) /\ n = Total(w, r) /\ d = w[p]
    BY <2>5, <2>7
  <2>9. CASE p \in G
    <3>1. t \cap G = (r \cap G) \cup {p} /\ p \notin r \cap G
      BY <2>5, <2>9
    <3>2. Cardinality(t \cap G) = k + 1
      BY <2>7, <2>8, <3>1, FS_AddElement
    <3>3. d + n <= M * (k + 1)
      <4>1. n <= M * k
        BY <2>6, <2>8
      <4>2. M * (k + 1) = M * k + M /\ M * k \in Nat
        OBVIOUS
      <4> QED BY <4>1, <4>2
    <3> QED BY <2>1, <2>5, <2>8, <3>2, <3>3
  <2>10. CASE p \notin G
    <3>1. t \cap G = r \cap G /\ w[p] = 0
      BY <2>5, <2>10
    <3>2. Total(w, t) = n
      BY <2>5, <2>8, <3>1
    <3> QED BY <2>1, <2>6, <2>8, <3>1, <3>2
  <2> QED BY <2>9, <2>10
<1>2. S \notin T
  BY <1>1
<1>3. S \cap G = G
  OBVIOUS
<1> QED BY <1>2, <1>3

LEMMA WeightTyped == \A s \in SliceRecord : Weight(s) \in 0..MaxCost
  BY AiModeAssumption DEF SliceRecord, Weight

-----------------------------------------------------------------------------
(* What the operators of a slice make of its record. *)

LEMMA SliceIs ==
  ASSUME SlicesTyped, NEW p \in Page
  PROVE  slice[p] \in SliceRecord
  BY DEF SlicesTyped

\* The record with names for the sets of its fields, which the provers need not open.
ObjectSets == SUBSET Object
ToDo == Seq(ObjectSets)
Tries == 0..Rounds
Costs == 0..MaxCost

Slices ==
  [at : {"off", "queued", "asking", "art", "box", "retry", "restore", "done"}, first : BOOLEAN,
   asked : ObjectSets, stale : ObjectSets, changed : BOOLEAN, art : ObjectSets, fresh : ObjectSets,
   todo : ToDo, blank : ObjectSets, fruitless : Tries, owed : Costs]

LEMMA SliceRecordIs == SliceRecord = Slices
  BY DEF SliceRecord, Slices, ObjectSets, ToDo, Tries, Costs

\* A slice asks for a batch.
LEMMA AsksShape ==
  ASSUME SlicesTyped, NEW p \in Page, NEW batch \in SUBSET Object
  PROVE  LET s == Asks(p, batch)
         IN  /\ s \in SliceRecord
             /\ s.at = "asking" /\ s.asked = batch /\ s.first = slice[p].first
             /\ s.todo = slice[p].todo /\ s.blank = slice[p].blank /\ s.owed = slice[p].owed
             /\ s.art = slice[p].art /\ s.fresh = slice[p].fresh /\ s.fruitless = slice[p].fruitless
<1>1. PICK r : r = slice[p]
  OBVIOUS
<1>2. r \in Slices /\ batch \in ObjectSets /\ {} \in ObjectSets
  BY <1>1, SliceIs, SliceRecordIs DEF ObjectSets
<1> DEFINE s == [r EXCEPT !.at = "asking", !.asked = batch, !.stale = {}, !.changed = FALSE]
<1>3. s \in Slices
  BY <1>2 DEF Slices
<1>4. /\ s.at = "asking" /\ s.asked = batch /\ s.first = r.first /\ s.todo = r.todo
      /\ s.blank = r.blank /\ s.owed = r.owed /\ s.art = r.art /\ s.fresh = r.fresh
      /\ s.fruitless = r.fruitless
  BY <1>2, Zenon DEF Slices
<1>5. Asks(p, batch) = s
  BY <1>1 DEF Asks
<1> HIDE DEF s
<1> QED BY <1>1, <1>3, <1>4, <1>5, SliceRecordIs

\* Its call fails.
LEMMA UnansweredShape ==
  ASSUME SlicesTyped, NEW p \in Page, slice[p].fruitless < Rounds
  PROVE  LET s == Unanswered(p)
         IN  /\ s \in SliceRecord
             /\ s.at = "retry" /\ s.asked = {} /\ ~s.first
             /\ s.todo = IF slice[p].first THEN <<On(p)>> ELSE slice[p].todo
             /\ s.blank = slice[p].blank /\ s.owed = slice[p].owed
             /\ s.art = slice[p].art /\ s.fresh = slice[p].fresh
<1>1. PICK r : r = slice[p]
  OBVIOUS
<1>2. r \in Slices /\ {} \in ObjectSets /\ <<On(p)>> \in ToDo
  BY <1>1, SliceIs, SliceRecordIs DEF On, ObjectSets, ToDo
<1>3. CASE r.first
  <2>1. PICK todo \in ToDo : todo = <<On(p)>>
    BY <1>2
  <2>2. todo \in ToDo
    BY <2>1
  <2> DEFINE s == [r EXCEPT !.at = "retry", !.first = FALSE, !.asked = {}, !.stale = {}, !.todo = todo]
  <2>3. s \in Slices
    BY <1>2, <2>2 DEF Slices
  <2>4. /\ s.at = "retry" /\ s.asked = {} /\ ~s.first /\ s.todo = todo
        /\ s.blank = r.blank /\ s.owed = r.owed /\ s.art = r.art /\ s.fresh = r.fresh
    BY <1>2, Zenon DEF Slices
  <2>5. Unanswered(p) = s
    BY <1>1, <1>3, <2>1 DEF Unanswered
  <2> HIDE DEF s
  <2> QED BY <1>1, <1>3, <2>1, <2>3, <2>4, <2>5, SliceRecordIs
<1>4. CASE ~r.first
  <2>1. PICK n : n = r.fruitless + 1
    OBVIOUS
  <2>2. n \in Tries
    <3>1. r.fruitless \in Tries
      BY <1>2 DEF Slices
    <3> QED BY <1>1, <2>1, <3>1, AiModeAssumption DEF Tries
  <2> DEFINE s == [r EXCEPT !.at = "retry", !.asked = {}, !.stale = {}, !.fruitless = n]
  <2>3. s \in Slices
    BY <1>2, <2>2 DEF Slices
  <2>4. /\ s.at = "retry" /\ s.asked = {} /\ s.first = r.first /\ s.todo = r.todo
        /\ s.blank = r.blank /\ s.owed = r.owed /\ s.art = r.art /\ s.fresh = r.fresh
    BY <1>2, Zenon DEF Slices
  <2>5. Unanswered(p) = s
    <3>1. Unanswered(p) = [r EXCEPT !.at = "retry", !.asked = {}, !.stale = {}, !.fruitless = @ + 1]
      BY <1>1, <1>4 DEF Unanswered
    <3> QED BY <1>2, <2>1, <3>1 DEF Slices
  <2> HIDE DEF s
  <2> QED BY <1>1, <1>4, <2>3, <2>4, <2>5, SliceRecordIs
<1> QED BY <1>3, <1>4

\* Its answer is there, with drawn sounds.
Drawn(p, answer) == {o \in Valid(p) : answer[o] = "art"}

AnsweredAs(s, p, answer, c, fresh) ==
  LET first == slice[p].first
      missing == Missing(p, answer)
  IN  /\ s.at = "art" /\ s.asked = slice[p].asked /\ s.first = first
      /\ s.art = Drawn(p, answer) /\ s.fresh = fresh
      /\ s.todo = IF first /\ missing # {} THEN <<missing>> ELSE slice[p].todo
      /\ s.blank = IF first THEN {} ELSE slice[p].blank \cup LeftBlank(p, answer)
      /\ s.owed = (IF first THEN c ELSE 0) /\ s.fruitless = slice[p].fruitless

LEMMA AnsweredShape ==
  ASSUME SlicesTyped, NEW p \in Page, NEW answer, NEW c \in 0..MaxCost, NEW fresh \in SUBSET Object
  PROVE  \E s \in SliceRecord :
           s = Answered(p, answer, c, fresh) /\ AnsweredAs(s, p, answer, c, fresh)
<1>1. PICK r : r = slice[p]
  OBVIOUS
<1>2. r \in Slices
  BY <1>1, SliceIs, SliceRecordIs
<1>3. /\ r.asked \in SUBSET Object /\ r.blank \in SUBSET Object /\ r.todo \in ToDo
      /\ fresh \in ObjectSets /\ {} \in ObjectSets /\ Valid(p) \in SUBSET Object
  BY <1>1, <1>2 DEF Slices, ObjectSets, Valid
<1>4. PICK missing : missing = Missing(p, answer)
  OBVIOUS
<1>5. PICK todo : todo = IF r.first /\ missing # {} THEN <<missing>> ELSE r.todo
  OBVIOUS
<1>6. todo \in ToDo
  <2>1. missing \in ObjectSets
    BY <1>1, <1>3, <1>4 DEF Missing, ObjectSets
  <2>2. <<missing>> \in ToDo
    BY <2>1 DEF ToDo
  <2> QED BY <1>3, <1>5, <2>2
<1>7. PICK art, blank, owed :
        /\ art = Drawn(p, answer) /\ owed = IF r.first THEN c ELSE 0
        /\ blank = IF r.first THEN {} ELSE r.blank \cup LeftBlank(p, answer)
  OBVIOUS
<1>8. art \in ObjectSets /\ blank \in ObjectSets /\ owed \in Costs
  BY <1>3, <1>7, AiModeAssumption DEF Drawn, LeftBlank, ObjectSets, Costs
<1> DEFINE s == [r EXCEPT !.at = "art", !.stale = {}, !.art = art, !.fresh = fresh, !.owed = owed,
                          !.todo = todo, !.blank = blank]
<1>9. s \in Slices
  BY <1>2, <1>3, <1>6, <1>8 DEF Slices
<1>10. /\ s.at = "art" /\ s.asked = r.asked /\ s.first = r.first /\ s.art = art /\ s.fresh = fresh
       /\ s.todo = todo /\ s.blank = blank /\ s.owed = owed /\ s.fruitless = r.fruitless
  BY <1>2, Zenon DEF Slices
<1>11. Answered(p, answer, c, fresh) = s
  BY <1>1, <1>2, <1>4, <1>5, <1>7 DEF Answered, Slices, Drawn
<1> HIDE DEF s
<1>12. AnsweredAs(s, p, answer, c, fresh)
  BY <1>1, <1>4, <1>5, <1>7, <1>10 DEF AnsweredAs
<1> QED BY <1>9, <1>11, <1>12, SliceRecordIs

\* Its drawn sounds are looked after.
LEMMA JudgedShape ==
  ASSUME SlicesTyped, NEW p \in Page, slice[p].fruitless < Rounds
  PROVE  LET s == Judged(p)
         IN  /\ s \in SliceRecord
             /\ s.at = IF slice[p].first
                       THEN IF slice[p].fresh # {} THEN "box" ELSE AtRetry(slice[p].todo)
                       ELSE "retry"
             /\ ~s.first /\ s.asked = {} /\ s.art = {}
             /\ s.fresh = slice[p].fresh /\ s.blank = slice[p].blank /\ s.todo = slice[p].todo
             /\ s.owed = IF slice[p].first THEN 0 ELSE slice[p].owed
<1>1. PICK r : r = slice[p]
  OBVIOUS
<1>2. r \in Slices /\ {} \in ObjectSets /\ 0 \in Costs
  BY <1>1, SliceIs, SliceRecordIs, AiModeAssumption DEF ObjectSets, Costs
<1>3. CASE r.first
  <2>1. PICK at : at = IF r.fresh # {} THEN "box" ELSE AtRetry(r.todo)
    OBVIOUS
  <2>2. at \in {"box", "retry", "done"}
    BY <2>1 DEF AtRetry
  <2> DEFINE s == [r EXCEPT !.at = at, !.first = FALSE, !.asked = {}, !.art = {}, !.owed = 0]
  <2>3. s \in Slices
    BY <1>2, <2>2 DEF Slices
  <2>4. /\ s.at = at /\ ~s.first /\ s.asked = {} /\ s.art = {}
        /\ s.fresh = r.fresh /\ s.blank = r.blank /\ s.todo = r.todo /\ s.owed = 0
    BY <1>2, Zenon DEF Slices
  <2>5. Judged(p) = s
    BY <1>1, <1>3, <2>1 DEF Judged
  <2> HIDE DEF s
  <2> QED BY <1>1, <1>3, <2>1, <2>3, <2>4, <2>5, SliceRecordIs
<1>4. CASE ~r.first
  <2>1. PICK n : n = IF r.asked \subseteq Untranslated(p, Head(r.todo), r.blank)
                     THEN r.fruitless + 1 ELSE r.fruitless
    OBVIOUS
  <2>2. n \in Tries
    <3>1. r.fruitless \in Tries
      BY <1>2 DEF Slices
    <3>2. n = r.fruitless \/ n = r.fruitless + 1
      BY <2>1
    <3> QED BY <1>1, <3>1, <3>2, AiModeAssumption DEF Tries
  <2> DEFINE s == [r EXCEPT !.at = "retry", !.asked = {}, !.art = {}, !.fruitless = n]
  <2>3. s \in Slices
    BY <1>2, <2>2 DEF Slices
  <2>4. /\ s.at = "retry" /\ s.first = r.first /\ s.asked = {} /\ s.art = {}
        /\ s.fresh = r.fresh /\ s.blank = r.blank /\ s.todo = r.todo /\ s.owed = r.owed
    BY <1>2, Zenon DEF Slices
  <2>5. Judged(p) = s
    BY <1>1, <1>2, <1>4, <2>1 DEF Judged, Slices
  <2> HIDE DEF s
  <2> QED BY <1>1, <1>4, <2>3, <2>4, <2>5, SliceRecordIs
<1> QED BY <1>3, <1>4

\* Its lines outside every box are boxed.
LEMMA BoxedShape ==
  ASSUME SlicesTyped, NEW p \in Page, NEW todo \in Seq(SUBSET Object)
  PROVE  LET s == Boxed(p, todo)
         IN  /\ s \in SliceRecord
             /\ s.at = AtRetry(todo) /\ s.fresh = {} /\ s.todo = todo /\ s.first = slice[p].first
             /\ s.asked = slice[p].asked /\ s.art = slice[p].art /\ s.blank = slice[p].blank
             /\ s.owed = slice[p].owed
<1>1. PICK r, at : r = slice[p] /\ at = AtRetry(todo)
  OBVIOUS
<1>2. r \in Slices /\ at \in {"retry", "done"} /\ todo \in ToDo /\ {} \in ObjectSets
  BY <1>1, SliceIs, SliceRecordIs DEF ObjectSets, ToDo, AtRetry
<1> DEFINE s == [r EXCEPT !.at = at, !.fresh = {}, !.todo = todo]
<1>3. s \in Slices
  BY <1>2 DEF Slices
<1>4. /\ s.at = at /\ s.fresh = {} /\ s.todo = todo /\ s.first = r.first
      /\ s.asked = r.asked /\ s.art = r.art /\ s.blank = r.blank /\ s.owed = r.owed
  BY <1>2, Zenon DEF Slices
<1>5. Boxed(p, todo) = s
  BY <1>1 DEF Boxed
<1> HIDE DEF s
<1> QED BY <1>1, <1>3, <1>4, <1>5, SliceRecordIs

\* Its first targets are dealt with.
LEMMA PoppedShape ==
  ASSUME SlicesTyped, NEW p \in Page, slice[p].todo # <<>>
  PROVE  LET s == Popped(p)
             todo == Tail(slice[p].todo)
         IN  /\ s \in SliceRecord
             /\ s.at = AtRetry(todo) /\ s.first = (todo = <<>>) /\ s.todo = todo
             /\ s.asked = {} /\ s.art = {} /\ s.fresh = {} /\ s.blank = {} /\ s.owed = 0
             /\ s.fruitless = 0
<1>1. PICK todo, at, first, off :
        /\ todo = Tail(slice[p].todo) /\ at = AtRetry(todo) /\ first = (todo = <<>>) /\ off = NoSlice
  OBVIOUS
<1>2. off \in Slices /\ at \in {"retry", "done"} /\ first \in BOOLEAN
  BY <1>1, NoSliceTyped, SliceRecordIs DEF AtRetry
<1>3. todo \in ToDo
  <2>1. slice[p].todo \in ToDo
    BY SliceIs, SliceRecordIs DEF Slices
  <2> QED BY <1>1, <2>1, HeadTailProperties DEF ToDo
<1>4. /\ off.asked = {} /\ off.art = {} /\ off.fresh = {} /\ off.blank = {}
      /\ off.owed = 0 /\ off.fruitless = 0
  BY <1>1 DEF NoSlice
<1> DEFINE s == [off EXCEPT !.at = at, !.first = first, !.todo = todo]
<1>5. s \in Slices
  BY <1>2, <1>3 DEF Slices
<1>6. /\ s.at = at /\ s.first = first /\ s.todo = todo /\ s.asked = off.asked /\ s.art = off.art
      /\ s.fresh = off.fresh /\ s.blank = off.blank /\ s.owed = off.owed
      /\ s.fruitless = off.fruitless
  BY <1>2, Zenon DEF Slices
<1>7. Popped(p) = s
  BY <1>1 DEF Popped
<1> HIDE DEF s
<1> QED BY <1>1, <1>4, <1>5, <1>6, <1>7, SliceRecordIs

\* The targets of its retries are given up.
LEMMA GivenUpShape ==
  ASSUME SlicesTyped, NEW p \in Page, NEW targets \in SUBSET Object
  PROVE  LET s == GivenUp(p, targets)
         IN  /\ s \in SliceRecord
             /\ s.at = "restore" /\ s.asked = targets /\ s.first = slice[p].first
             /\ s.todo = slice[p].todo /\ s.blank = slice[p].blank /\ s.owed = slice[p].owed
             /\ s.art = slice[p].art /\ s.fresh = slice[p].fresh
<1>1. PICK r : r = slice[p]
  OBVIOUS
<1>2. r \in Slices /\ targets \in ObjectSets
  BY <1>1, SliceIs, SliceRecordIs DEF ObjectSets
<1> DEFINE s == [r EXCEPT !.at = "restore", !.asked = targets]
<1>3. s \in Slices
  BY <1>2 DEF Slices
<1>4. /\ s.at = "restore" /\ s.asked = targets /\ s.first = r.first /\ s.todo = r.todo
      /\ s.blank = r.blank /\ s.owed = r.owed /\ s.art = r.art /\ s.fresh = r.fresh
  BY <1>2, Zenon DEF Slices
<1>5. GivenUp(p, targets) = s
  BY <1>1 DEF GivenUp
<1> HIDE DEF s
<1> QED BY <1>1, <1>3, <1>4, <1>5, SliceRecordIs

\* A slice that is at rest.
LEMMA AtRest ==
  ASSUME NEW a \in {"off", "queued", "done"}
  PROVE  LET s == [NoSlice EXCEPT !.at = a]
         IN  /\ s \in SliceRecord /\ s.at = a /\ s.first /\ s.todo = <<>>
             /\ s.asked = {} /\ s.art = {} /\ s.fresh = {} /\ s.blank = {}
             /\ s.owed = 0 /\ s.fruitless = 0
  BY NoSliceTyped DEF NoSlice

-----------------------------------------------------------------------------
(* Steps that leave the slices alone. *)

\* What is settled stays settled.
Grows ==
  /\ preserved \subseteq preserved' /\ blanked \subseteq blanked' /\ excused \subseteq excused'
  /\ passed \subseteq passed' /\ dropped \subseteq dropped'
  /\ present \subseteq present' /\ owner' = owner
  /\ \A o \in Object : text'[o] = "none" => text[o] = "none" \/ o \in dropped'

\* An object that is open was open before, unless it was boxed since.
LEMMA OpenBefore ==
  ASSUME Grows, NEW p \in Page, NEW o \in Open(p)'
  PROVE  o \in present => o \in Open(p)
  BY DEF Open, Grows, On

LEMMA CopiesKept == ASSUME Grows, skipped' = skipped PROVE Copies \subseteq Copies'
  BY DEF Grows, Copies

\* A slice that stays as it is.
LEMMA CoveredKept ==
  ASSUME NEW p \in Page, Covered(p), slice'[p] = slice[p], skipped' = skipped, Grows,
         On(p) \cap present' \subseteq present
  PROVE  Covered(p)'
<1>1. Open(p)' \subseteq Open(p)
  BY OpenBefore DEF Open
<1>2. Minded(slice[p])' = Minded(slice[p])
  BY DEF Minded
<1>3. p \in excused => p \in excused'
  BY DEF Grows
<1> QED BY <1>1, <1>2, <1>3, CopiesKept DEF Covered

\* A reason lasts.
LEMMA ExcusedKept ==
  ASSUME Grows, skipped' = skipped
  PROVE  \A o \in Object : Excused(o) => Excused(o)'
<1>1. \A o : Given(o) => Given(o)'
  BY DEF Given, Grows
<1>2. \A o : o \in preserved => o \in preserved'
  BY DEF Grows
<1>3. owner' = owner
  BY DEF Grows
<1> QED BY <1>1, <1>2, <1>3, CopiesKept DEF Excused

\* And so does what needs one, while no object appears, ...
LEMMA ExplainedKept ==
  ASSUME Explained, ObjectsTyped, Grows, skipped' = skipped, Late' => Late /\ present' = present
  PROVE  Explained'
<1> SUFFICES ASSUME Late', NEW o \in Shown', o \notin preserved', text'[o] = "none" PROVE Excused(o)'
  BY DEF Explained
<1>1. o \in Shown /\ o \notin preserved /\ o \in Object /\ Late
  BY DEF Shown, Grows, ObjectsTyped
<1>2. CASE o \in dropped'
  BY <1>2 DEF Excused, Given
<1>3. CASE text[o] = "none"
  BY <1>1, <1>3, ExcusedKept DEF Explained
<1> QED BY <1>1, <1>2, <1>3 DEF Grows

\* ... and while nothing is marked.
LEMMA ReasonsKept ==
  ASSUME Explained, Marked, ObjectsTyped, Grows, skipped' = skipped, disposition' = disposition,
         Late' => Late /\ present' = present,
         stage' \in {"off", "download", "scan"} => stage \in {"off", "download", "scan"}
  PROVE  Explained' /\ Marked'
<1>1. \A o \in Object : Excused(o) => Excused(o)'
  BY ExcusedKept
<1>2. Marked'
  BY <1>1 DEF Marked
<1> QED BY <1>2, ExplainedKept

LEMMA SliceFitsKept ==
  ASSUME NEW p \in Page, SliceFits(p), slice'[p] = slice[p], Grows
  PROVE  SliceFits(p)'
  BY DEF SliceFits, Grows

\* What has been spent, while the slices stay as they are.
LEMMA WeightsKept ==
  ASSUME \A p \in Page : Weight(slice'[p]) = Weight(slice[p])
  PROVE  Total(WeightBy', Page) = Total(WeightBy, Page)
<1>1. \A p \in Page : WeightBy'[p] = WeightBy[p]
  BY DEF WeightBy
<1> QED BY <1>1, PageFinite, TotalSame

LEMMA SlicesStay ==
  ASSUME SlicesTyped, SlicesFit, slice' = slice, Grows
  PROVE  /\ SlicesTyped' /\ SlicesFit' /\ Gate' = Gate
         /\ Total(WeightBy', Page) = Total(WeightBy, Page)
<1>1. SlicesTyped'
  BY DEF SlicesTyped, On
<1>2. SlicesFit'
  BY SliceFitsKept DEF SlicesFit
<1>3. Gate' = Gate
  BY DEF Gate, InGate
<1> QED BY <1>1, <1>2, <1>3, WeightsKept

\* Requests, the user, and a stage that goes on.
LEMMA ChapterKept ==
  ASSUME AiInv, RequestsInv', CountsTyped', ObjectsTyped', HandsTyped', Good' => Good,
         stage' = stage \/ (stage = "off" /\ stage' = "download"),
         UNCHANGED <<slice, early, cost, priced, skipped, present, attempted, disposition>>, Grows
  PROVE  AiInv'
<1>1. SlicesTyped' /\ SlicesFit' /\ Gate' = Gate /\ Total(WeightBy', Page) = Total(WeightBy, Page)
  BY SlicesStay, TypesAre DEF AiInv
<1>2. AiTypeOK'
  BY <1>1, TypesNext DEF RequestsInv
<1>3. SlicesRest'
  BY DEF AiInv, SlicesRest, Good
<1>4. AllCovered'
  BY CoveredKept DEF AiInv, AllCovered
<1>5. Evidence'
  BY DEF AiInv, Evidence, Grows
<1>6. BudgetFits'
  BY <1>1 DEF AiInv, BudgetFits, SpendingFits
<1>7. Explained' /\ Marked'
  <2>1. Late' => Late
    BY DEF Late
  <2> QED BY <2>1, ReasonsKept, TypesAre DEF AiInv
<1> QED BY <1>1, <1>2, <1>3, <1>4, <1>5, <1>6, <1>7 DEF AiInv, RequestsInv

LEMMA AiInvParts ==
  ASSUME AiInv
  PROVE  RequestsInv /\ CountsTyped /\ SlicesTyped /\ ObjectsTyped /\ HandsTyped
  BY TypesAre DEF AiInv, RequestsInv

LEMMA Unmoved == ASSUME RequestsInv, UNCHANGED <<requests, stage>> PROVE RequestsInv' /\ Good' = Good
  BY DEF requests, RequestsInv, RequestsTyped, RequestsFit, RequestFits, StageFits, Active, Good

LEMMA StutterKeeps == ASSUME AiInv, UNCHANGED aiVars PROVE AiInv'
<1> USE DEF aiVars, requests, run, money, cuts, objects, marks, hands, seen
<1>1. RequestsInv' /\ Good' = Good
  BY AiInvParts, Unmoved
<1>2. CountsTyped' /\ ObjectsTyped' /\ HandsTyped'
  BY AiInvParts, HandsStay DEF CountsTyped, ObjectsTyped
<1>3. Grows
  BY DEF Grows
<1> QED BY <1>1, <1>2, <1>3, ChapterKept

\* The requests of a step that leaves the chapter as it is, but for its stage.
LEMMA RequestsKeep ==
  ASSUME AiInv, NEW r \in Caller, StartLocal(r) \/ Ask(r) \/ RequestStep(r)
  PROVE  AiInv'
<1> USE AiInvParts DEF chapter, run, money, cuts, objects, marks, hands, seen
<1>1. CountsTyped'
  <2>1. CASE UNCHANGED left
    BY <2>1 DEF StartLocal, Ask, RequestStep, Reserve, Start, Settle, OtherEnds, CountsTyped
  <2>2. CASE StartLocal(r) \/ Ask(r)
    <3>1. left' \in [Ops -> Nat]
      BY <2>2, UsedTyped DEF StartLocal, Ask, CountsTyped, Ops
    <3> QED BY <2>2, <3>1 DEF StartLocal, Ask, CountsTyped
  <2> QED BY <2>1, <2>2 DEF RequestStep, Reserve, Start, Settle, OtherEnds
<1>2. UNCHANGED <<slice, early, cost, priced, skipped, owner, present, text, preserved, attempted, disposition,
                  dropped, polishing, pen, blanked, passed, excused>>
  BY DEF StartLocal, Ask, RequestStep, Reserve, Start, Settle, OtherEnds
<1>3. ObjectsTyped' /\ HandsTyped' /\ Grows
  BY <1>2, HandsStay DEF ObjectsTyped, Grows
<1>4. /\ RequestsInv' /\ (Good' => Good)
      /\ stage' = stage \/ (stage = "off" /\ stage' = "download")
  <2>1. CASE StartLocal(r)
    BY <2>1, BeginsFit DEF StartLocal
  <2>2. CASE Start(r) /\ Active = {}
    BY <2>2, BeginsFit DEF Start
  <2>3. CASE Ask(r) \/ Reserve(r) \/ (Start(r) /\ Active # {}) \/ Settle(r)
    <3>1. UNCHANGED <<status, worker, stage>>
      BY <2>3 DEF Ask, Reserve, Start, Settle
    <3> QED BY <2>3, <3>1, RequestGoesOn
  <2>4. CASE OtherEnds(r)
    <3>1. PICK outcome \in Outcomes : Ends(r, outcome)
      BY <2>4 DEF OtherEnds
    <3> QED BY <2>4, <3>1, EndsFit DEF OtherEnds
  <2> QED BY <2>1, <2>2, <2>3, <2>4 DEF RequestStep
<1> QED BY <1>1, <1>2, <1>3, <1>4, ChapterKept

\* The user cancels the job or types a translation.
LEMMA CancelKeeps == ASSUME AiInv, Cancel PROVE AiInv'
<1> USE AiInvParts DEF Cancel, requests, money, cuts, objects, marks, hands, seen
<1>1. RequestsInv' /\ Good' = Good
  BY Unmoved
<1>2. CountsTyped' /\ ObjectsTyped' /\ HandsTyped'
  BY UsedTyped, HandsStay DEF CountsTyped, ObjectsTyped, Ops
<1>3. Grows
  BY DEF Grows
<1> QED BY <1>1, <1>2, <1>3, ChapterKept

LEMMA TypesKeeps == ASSUME AiInv, NEW o \in Object, Types(o) PROVE AiInv'
<1> USE AiInvParts DEF Types, requests, run, money, cuts, marks, seen
<1>1. RequestsInv' /\ Good' = Good
  BY Unmoved
<1>2. CountsTyped' /\ ObjectsTyped'
  BY UsedTyped DEF CountsTyped, ObjectsTyped, Ops
<1>4. HandsTyped'
  <2>1. OwnersTyped'
    BY DEF HandsTyped, OwnersTyped
  <2>2. PenTyped'
    <3>1. PICK q \in [next : 1..Pages + 1, out : BOOLEAN, sent : SUBSET Object, old : SUBSET Object] : q = pen
      BY DEF HandsTyped, PenTyped
    <3>2. PICK old \in SUBSET Object : old = q.old \cup ({o} \cap q.sent)
      BY <3>1
    <3>3. PICK r : r = [q EXCEPT !.old = old]
      OBVIOUS
    <3>4. /\ r \in [next : 1..Pages + 1, out : BOOLEAN, sent : SUBSET Object, old : SUBSET Object]
          /\ r.out = q.out /\ r.next = q.next
      BY <3>1, <3>2, <3>3
    <3>5. pen' = r
      BY <3>1, <3>2, <3>3
    <3>6. q.out => q.next \in Page
      BY <3>1 DEF HandsTyped, PenTyped
    <3> QED BY <3>4, <3>5, <3>6 DEF PenTyped, Page
  <2> QED BY <2>1, <2>2 DEF HandsTyped
<1>3. Grows
  BY DEF Grows, ObjectsTyped
<1> QED BY <1>1, <1>2, <1>3, <1>4, ChapterKept

-----------------------------------------------------------------------------
(* Stages of the job. *)

\* What is paid is counted while every cost is known.
LEMMA PaysTyped ==
  ASSUME CountsTyped, NEW e \in Nat, NEW c \in Nat, Pays(e, c)
  PROVE  /\ early' \in Nat /\ cost' \in Nat /\ priced' \in BOOLEAN /\ left' \in [Ops -> Nat]
         /\ priced' => priced /\ early' = early + e /\ cost' = cost + c
         /\ c = 0 => cost' = cost
<1>1. left' \in [Ops -> Nat]
  BY UsedTyped DEF Pays, CountsTyped, Ops
<1>2. early \in Nat /\ cost \in Nat /\ priced \in BOOLEAN
  BY DEF CountsTyped
<1>3. \/ /\ early' = (IF priced THEN early + e ELSE early) /\ cost' = (IF priced THEN cost + c ELSE cost)
         /\ priced' = priced
      \/ priced' = FALSE /\ early' = early /\ cost' = cost
  BY DEF Pays
<1>4. /\ early' = early \/ early' = early + e
      /\ cost' = cost \/ cost' = cost + c
      /\ priced' = priced \/ priced' = FALSE
  BY <1>3, Zenon
<1>5. priced' => priced /\ early' = early + e /\ cost' = cost + c
  BY <1>3, Zenon
<1>6. early + e \in Nat /\ cost + c \in Nat /\ (c = 0 => cost + c = cost)
  BY <1>2
<1>7. priced' \in BOOLEAN
  BY <1>2, <1>4, Zenon
<1>8. early' \in Nat /\ cost' \in Nat /\ (c = 0 => cost' = cost)
  BY <1>2, <1>4, <1>6
<1> QED BY <1>1, <1>5, <1>7, <1>8, Zenon

\* The seams: a copy takes the text of its owner, and one text may be dropped.
LEMMA SeamsSynced ==
  ASSUME ObjectsTyped, CountsTyped, HandsTyped, NEW t \in [Object -> {"none", "ai", "typed"}], SyncSeams(t)
  PROVE  /\ left' \in [Ops -> Nat] /\ text' \in [Object -> {"none", "ai", "typed"}]
         /\ dropped \subseteq dropped' /\ dropped' \subseteq Object
         /\ \A o \in Object : text'[o] = "none" => t[o] = "none" \/ o \in dropped'
         /\ \A o \in Copies \cap Shown :
              t[owner[o]] # "none" => text'[o] # "none" \/ o \in dropped' \/ owner[o] \in dropped'
         /\ \A o \in Object : t[o] = "typed" /\ text'[o] # "typed" =>
              o \in dropped' \/ (o \in Copies /\ text'[owner[o]] # "none")
<1>1. PICK gone \in Overlapped(t) :
        /\ (gone = {} /\ UNCHANGED left) \/ (gone # {} /\ Used("overlap"))
        /\ dropped' = dropped \cup gone
        /\ text' = [o \in Object |->
             IF o \in gone THEN "none"
             ELSE IF o \in (Copies \cap Shown) \ dropped' /\ owner[o] \notin gone /\ t[owner[o]] # "none" THEN "ai"
             ELSE t[o]]
  BY DEF SyncSeams
<1>2. gone \subseteq Object
  BY <1>1 DEF Overlapped, ObjectsTyped
<1>3. left' \in [Ops -> Nat]
  BY <1>1, UsedTyped DEF CountsTyped, Ops
<1>4. Copies \subseteq Object
  BY DEF Copies, ObjectsTyped
<1>5. text' \in [Object -> {"none", "ai", "typed"}]
  BY <1>1
<1>6. dropped \subseteq dropped' /\ dropped' \subseteq Object /\ gone \subseteq dropped'
  BY <1>1, <1>2 DEF ObjectsTyped
<1>7. \A o \in Object : text'[o] = IF o \in gone THEN "none"
             ELSE IF o \in (Copies \cap Shown) \ dropped' /\ owner[o] \notin gone /\ t[owner[o]] # "none" THEN "ai"
             ELSE t[o]
  BY <1>1
<1>8. \A o \in Copies : owner[o] \in Object /\ owner[o] \notin Copies
  <2>1. \A o \in Copies : owner[o] \in Object /\ owner[o] # None
    BY <1>4, AiModeAssumption DEF Copies, ObjectsTyped
  <2> QED BY <1>4, <2>1, AiModeAssumption DEF Copies, HandsTyped, OwnersTyped, ObjectsTyped
<1>9. \A o \in Object : t[o] = "typed" /\ text'[o] # "typed" =>
        o \in dropped' \/ (o \in Copies /\ text'[owner[o]] # "none")
  BY <1>4, <1>6, <1>7, <1>8
<1> QED BY <1>3, <1>4, <1>5, <1>6, <1>7, <1>9

\* What the steps of the stages have in common.
LEMMA StageFrame ==
  ASSUME StageStep
  PROVE  /\ Running /\ stage \in StageSet
         /\ UNCHANGED <<cancelled, outOfBudget, present, attempted, blanked, passed, excused, owner>>
         /\ stage # "review" => slice' = slice
         /\ stage # "scan" => skipped' = skipped
         /\ IF stage \in {"scan", "review"} THEN \E e \in Earlier : Pays(e, 0) ELSE UNCHANGED money
         /\ stage # "render" => disposition' = disposition
         /\ Advance \/ Fails \/ (stage = "letter" /\ UNCHANGED <<requests, stage>>)
<1> USE DEF run, cuts, objects, marks, seen, StageSet
<1>1. CASE PlainStage \/ Scan \/ Review \/ SettleBlanks
  BY <1>1 DEF PlainStage, Scan, Review, SettleBlanks
<1>2. CASE Translated \/ Polish
  BY <1>2 DEF Translated, Polish
<1>3. CASE Letter \/ Lettered \/ \E p \in Page : ReadTexts(p)
  BY <1>3 DEF Letter, Lettered, ReadTexts
<1> QED BY <1>1, <1>2, <1>3 DEF StageStep

\* None of them counts the cost of a slice.
LEMMA StageMoney ==
  ASSUME AiInv, StageStep
  PROVE  /\ early' \in Nat /\ priced' \in BOOLEAN /\ cost' = cost
         /\ stage \in {"scan", "review"} => left' \in [Ops -> Nat] /\ (priced' => priced)
         /\ stage \notin {"scan", "review"} => UNCHANGED <<early, priced>>
<1>1. CountsTyped
  BY AiInvParts
<1>2. CASE stage \in {"scan", "review"}
  <2>1. PICK e \in Earlier : Pays(e, 0)
    BY <1>2, StageFrame
  <2>2. e \in Nat
    BY AiModeAssumption
  <2> QED BY <1>1, <1>2, <2>1, <2>2, PaysTyped
<1>3. CASE stage \notin {"scan", "review"}
  BY <1>1, <1>3, StageFrame DEF money, CountsTyped
<1> QED BY <1>2, <1>3

\* The lettering goes from slice to slice.
LEMMA PenMoves ==
  ASSUME HandsTyped, ObjectsTyped, Letter \/ Lettered \/ \E p \in Page : ReadTexts(p)
  PROVE  PenTyped'
<1> DEFINE Pens == [next : 1..Pages + 1, out : BOOLEAN, sent : SUBSET Object, old : SUBSET Object]
<1>1. PICK q \in Pens : q = pen
  BY DEF HandsTyped, PenTyped
<1>2. Pages \in Nat
  BY AiModeAssumption
<1>3. ASSUME NEW n \in 1..Pages + 1, pen' = [NoPen EXCEPT !.next = n] PROVE PenTyped'
  <2>1. PICK r : r = [NoPen EXCEPT !.next = n]
    OBVIOUS
  <2>2. r \in Pens /\ ~r.out
    BY <2>1 DEF NoPen
  <2> QED BY <1>3, <2>1, <2>2 DEF PenTyped
<1>4. CASE Lettered
  <2>1. 1 \in 1..Pages + 1 /\ NoPen = [NoPen EXCEPT !.next = 1]
    BY <1>2 DEF NoPen
  <2> QED BY <1>3, <1>4, <2>1 DEF Lettered
<1>5. ASSUME NEW p \in Page, ReadTexts(p) PROVE PenTyped'
  <2>1. p \in 1..Pages + 1 /\ Texts(p, preserved) \in SUBSET Object
    BY <1>2 DEF Page, Texts, On
  <2>2. pen' = [next |-> p, out |-> TRUE, sent |-> Texts(p, preserved), old |-> {}]
    BY <1>5 DEF ReadTexts
  <2> QED BY <2>1, <2>2 DEF PenTyped, Page
<1>6. CASE Letter
  <2>1. q.out /\ q.next \in Page
    BY <1>1, <1>6 DEF Letter, HandsTyped, PenTyped
  <2>2. q.next + 1 \in 1..Pages + 1
    BY <1>2, <2>1 DEF Page
  <2>3. CASE pen' = [NoPen EXCEPT !.next = pen.next + 1]
    BY <1>1, <1>3, <2>2, <2>3
  <2>4. CASE pen' = [pen EXCEPT !.sent = Texts(pen.next, preserved'), !.old = {}]
    <3>1. PICK sent \in SUBSET Object : sent = Texts(q.next, preserved')
      BY DEF Texts, On
    <3>2. PICK r : r = [q EXCEPT !.sent = sent, !.old = {}]
      OBVIOUS
    <3>3. r \in Pens /\ r.out = q.out /\ r.next = q.next
      BY <1>1, <3>1, <3>2
    <3>4. pen' = r
      BY <1>1, <2>4, <3>1, <3>2
    <3> QED BY <2>1, <3>3, <3>4 DEF PenTyped, Page
  <2> QED BY <1>6, <2>3, <2>4 DEF Letter
<1> QED BY <1>4, <1>5, <1>6

LEMMA StageTyped ==
  ASSUME AiInv, StageStep
  PROVE  CountsTyped' /\ ObjectsTyped' /\ HandsTyped' /\ Grows
<1>1. CountsTyped /\ ObjectsTyped /\ HandsTyped
  BY AiInvParts
<1>2. /\ UNCHANGED <<cancelled, outOfBudget, present, attempted, blanked, passed, excused, owner>>
      /\ early' \in Nat /\ priced' \in BOOLEAN /\ cost' = cost
      /\ stage \in {"scan", "review"} => left' \in [Ops -> Nat]
  BY StageFrame, StageMoney
\* It is enough to look at the texts, and at what is beside them.
<1>3. ASSUME left' \in [Ops -> Nat], text' \in [Object -> {"none", "ai", "typed"}], skipped' \subseteq Page,
             preserved \subseteq preserved', dropped \subseteq dropped',
             UNION {preserved', dropped', polishing'} \subseteq Object,
             disposition' \in [Object -> {"none", "non_story", "untranslated"}],
             \A o \in Object : text'[o] = "none" => text[o] = "none" \/ o \in dropped'
      PROVE  CountsTyped' /\ ObjectsTyped' /\ Grows
  <2>1. CountsTyped'
    BY <1>1, <1>2, <1>3 DEF CountsTyped
  <2>2. ObjectsTyped'
    BY <1>1, <1>2, <1>3 DEF ObjectsTyped
  <2>3. Grows
    BY <1>2, <1>3 DEF Grows
  <2> QED BY <2>1, <2>2, <2>3
<1>4. ASSUME pen' = pen PROVE HandsTyped'
  BY <1>1, <1>2, <1>4, HandsStay
<1>5. ASSUME PenTyped' PROVE HandsTyped'
  BY <1>1, <1>2, <1>5 DEF HandsTyped, OwnersTyped
<1>6. CASE PlainStage \/ Scan \/ Review \/ SettleBlanks
  <2>1. /\ UNCHANGED <<text, preserved, dropped, polishing, pen>>
        /\ skipped' \subseteq Page
        /\ disposition' \in [Object -> {"none", "non_story", "untranslated"}]
    BY <1>1, <1>6 DEF PlainStage, Scan, Review, SettleBlanks, cuts, objects, marks, hands, ObjectsTyped
  <2>2. left' \in [Ops -> Nat]
    BY <1>1, <1>2, <1>6 DEF PlainStage, Scan, Review, SettleBlanks, CountsTyped
  <2>3. UNION {preserved', dropped', polishing'} \subseteq Object /\ text' \in [Object -> {"none", "ai", "typed"}]
    BY <1>1, <2>1 DEF ObjectsTyped
  <2> QED BY <1>3, <1>4, <2>1, <2>2, <2>3
<1>7. CASE Translated
  <2>1. UNCHANGED <<skipped, preserved, disposition, pen>>
    BY <1>7 DEF Translated, cuts
  <2>2. /\ left' \in [Ops -> Nat] /\ text' \in [Object -> {"none", "ai", "typed"}]
        /\ dropped \subseteq dropped' /\ dropped' \subseteq Object
        /\ \A o \in Object : text'[o] = "none" => text[o] = "none" \/ o \in dropped'
    <3>1. CASE SyncSeams(text)
      <4>1. text \in [Object -> {"none", "ai", "typed"}]
        BY <1>1 DEF ObjectsTyped
      <4> QED BY <1>1, <3>1, <4>1, SeamsSynced
    <3>2. CASE UNCHANGED <<text, dropped, left>>
      BY <1>1, <3>2 DEF ObjectsTyped, CountsTyped
    <3> QED BY <1>7, <3>1, <3>2 DEF Translated
  <2>3. polishing' \subseteq Object
    BY <1>1, <1>7 DEF Translated, Shown, ObjectsTyped
  <2>4. UNION {preserved', dropped', polishing'} \subseteq Object
    BY <1>1, <2>1, <2>2, <2>3 DEF ObjectsTyped
  <2>5. skipped' \subseteq Page /\ disposition' \in [Object -> {"none", "non_story", "untranslated"}]
    BY <1>1, <2>1 DEF ObjectsTyped
  <2> QED BY <1>3, <1>4, <2>1, <2>2, <2>4, <2>5
<1>8. CASE Polish
  <2>1. UNCHANGED <<skipped, preserved, disposition, pen>> /\ polishing' = {}
    BY <1>8 DEF Polish, cuts
  <2>2. /\ left' \in [Ops -> Nat] /\ text' \in [Object -> {"none", "ai", "typed"}]
        /\ dropped \subseteq dropped' /\ dropped' \subseteq Object
        /\ \A o \in Object : text'[o] = "none" => text[o] = "none" \/ o \in dropped'
    <3>1. ASSUME NEW kept \in SUBSET polishing, SyncSeams([o \in Object |-> IF o \in kept THEN "ai" ELSE text[o]])
          PROVE  <2>2
      <4>1. PICK t : t = [o \in Object |-> IF o \in kept THEN "ai" ELSE text[o]]
        OBVIOUS
      <4>2. t \in [Object -> {"none", "ai", "typed"}] /\ \A o \in Object : t[o] = "none" => text[o] = "none"
        BY <1>1, <4>1 DEF ObjectsTyped
      <4> QED BY <1>1, <3>1, <4>1, <4>2, SeamsSynced
    <3>2. CASE UNCHANGED <<text, dropped, left>>
      BY <1>1, <3>2 DEF ObjectsTyped, CountsTyped
    <3> QED BY <1>8, <3>1, <3>2 DEF Polish
  <2>3. UNION {preserved', dropped', polishing'} \subseteq Object
    BY <1>1, <2>1, <2>2 DEF ObjectsTyped
  <2>4. skipped' \subseteq Page /\ disposition' \in [Object -> {"none", "non_story", "untranslated"}]
    BY <1>1, <2>1 DEF ObjectsTyped
  <2> QED BY <1>3, <1>4, <2>1, <2>2, <2>3, <2>4
<1>9. CASE Letter \/ Lettered \/ \E p \in Page : ReadTexts(p)
  <2>1. UNCHANGED <<skipped, dropped, disposition, polishing, left>>
    BY <1>9 DEF Letter, Lettered, ReadTexts, cuts, objects, marks
  <2>2. /\ preserved \subseteq preserved' /\ preserved' \subseteq Object
        /\ text' \in [Object -> {"none", "ai", "typed"}]
        /\ \A o \in Object : text'[o] = "none" => text[o] = "none"
    <3>1. CASE UNCHANGED <<text, preserved>>
      BY <1>1, <3>1 DEF ObjectsTyped
    <3>2. CASE Letter
      <4>1. pen.sent \subseteq Object
        BY <1>1 DEF HandsTyped, PenTyped
      <4> QED BY <1>1, <3>2, <4>1 DEF Letter, ObjectsTyped
    <3> QED BY <1>9, <3>1, <3>2 DEF Lettered, ReadTexts, objects
  <2>3. UNION {preserved', dropped', polishing'} \subseteq Object
    BY <1>1, <2>1, <2>2 DEF ObjectsTyped
  <2>4. /\ skipped' \subseteq Page /\ disposition' \in [Object -> {"none", "non_story", "untranslated"}]
        /\ left' \in [Ops -> Nat]
    BY <1>1, <2>1 DEF ObjectsTyped, CountsTyped
  <2>5. CountsTyped' /\ ObjectsTyped' /\ Grows
    BY <1>3, <2>1, <2>2, <2>3, <2>4
  <2>6. PenTyped'
    BY <1>1, <1>9, PenMoves
  <2> QED BY <1>5, <2>5, <2>6
<1> QED BY <1>6, <1>7, <1>8, <1>9 DEF StageStep

\* A blank is dismissed when it was tried, and what was tried was left blank.
LEMMA EvidenceKept ==
  ASSUME AiInv, StageStep
  PROVE  Evidence'
<1>1. Evidence /\ ObjectsTyped /\ UNCHANGED <<attempted, blanked>>
  BY StageFrame, AiInvParts DEF AiInv
<1>2. CASE disposition' = disposition
  BY <1>1, <1>2 DEF Evidence
<1>3. CASE SettleBlanks
  BY <1>1, <1>3 DEF SettleBlanks, Evidence, ObjectsTyped
<1>4. stage = "render" => SettleBlanks
  BY DEF StageStep, PlainStage, Scan, Review, Translated, Polish, SettleBlanks, ReadTexts, Letter, Lettered
<1> QED BY <1>2, <1>3, <1>4, StageFrame

\* Slices at rest owe nothing.
LEMMA RestIsFree ==
  ASSUME NEW p \in Page, SliceFits(p), slice[p].at \in {"off", "queued", "done"}
  PROVE  Weight(slice[p]) = 0
  BY DEF SliceFits, Weight

\* Before the translate stage nothing is owed.
LEMMA NothingOwedYet ==
  ASSUME SlicesFit, \A p \in Page : slice[p].at = "off"
  PROVE  Total(WeightBy, Page) = 0
<1>1. \A p \in Page : WeightBy[p] \in 0..0
  BY RestIsFree DEF WeightBy, SlicesFit
<1>2. Total(WeightBy, Page) <= 0 * Cardinality({}) /\ Total(WeightBy, Page) \in Nat
  <2>1. {} \in SUBSET Page /\ 0 \in Nat /\ \A p \in Page : WeightBy[p] = 0
    BY <1>1
  <2>2. Total(WeightBy, Page) <= 0 * Cardinality({})
    BY <1>1, <2>1, PageFinite, TotalAtMost
  <2>3. \A p \in Page : WeightBy[p] \in Nat
    BY <2>1
  <2>4. Total(WeightBy, Page) \in Nat
    BY <2>3, PageFinite, TotalNat
  <2> QED BY <2>2, <2>4
<1>3. 0 * Cardinality({}) = 0
  <2>1. Cardinality({}) = 0
    BY FS_EmptySet
  <2> QED BY <2>1
<1> QED BY <1>2, <1>3

\* Before the translate stage nothing is spent on slices.
LEMMA NothingSpentYet ==
  ASSUME AiInv, stage \in {"off", "download", "scan", "clean", "review"}
  PROVE  cost + Total(WeightBy, Page) = 0
<1>1. Total(WeightBy, Page) = 0
  BY NothingOwedYet DEF AiInv, SlicesRest
<1>2. cost = 0
  BY DEF AiInv, BudgetFits
<1> QED BY <1>1, <1>2

LEMMA StageSpendingKept ==
  ASSUME AiInv, StageStep, Total(WeightBy', Page) = Total(WeightBy, Page)
  PROVE  SpendingFits'
<1>1. CASE stage \in {"scan", "review"}
  <2>1. cost + Total(WeightBy, Page) = 0
    BY <1>1, NothingSpentYet
  <2> QED BY <2>1, StageMoney DEF SpendingFits
<1>2. CASE stage \notin {"scan", "review"}
  BY <1>2, StageMoney DEF SpendingFits, AiInv, BudgetFits
<1> QED BY <1>1, <1>2

\* A slice that is done has nothing open but copies, unless it was dropped.
LEMMA DoneIsSettled ==
  ASSUME NEW p \in Page, Covered(p), slice[p].at = "done", p \notin skipped, p \notin excused
  PROVE  Open(p) \subseteq Copies
  BY DEF Covered, Minded

\* Once all slices are done and the seams synced, whoever has no text has a reason.
LEMMA TranslatedExplains ==
  ASSUME AiInv, Translated, Good, stage' # "over"
  PROVE  Explained'
<1>1. ObjectsTyped /\ CountsTyped /\ HandsTyped /\ Grows
  BY AiInvParts, StageTyped DEF StageStep
<1>2. SyncSeams(text)
  BY DEF Translated, Advance
<1>3. UNCHANGED <<present, preserved, skipped, owner, blanked, passed, excused>>
  BY DEF Translated, cuts, seen
<1>4. \A p \in Page : slice[p].at = "done" /\ Covered(p)
  BY DEF Translated, AiInv, AllCovered
<1>5. /\ \A o \in Object : text'[o] = "none" => text[o] = "none" \/ o \in dropped'
      /\ \A o \in Copies \cap Shown :
           text[owner[o]] # "none" => text'[o] # "none" \/ o \in dropped' \/ owner[o] \in dropped'
      /\ dropped \subseteq dropped'
  <2>1. text \in [Object -> {"none", "ai", "typed"}]
    BY <1>1 DEF ObjectsTyped
  <2> QED BY <1>1, <1>2, <2>1, SeamsSynced
<1>6. \A o \in Object : PageOf[o] \in Page
  BY AiModeAssumption DEF Page
\* An object with no text that is no copy.
<1>7. ASSUME NEW o \in Shown, o \notin Copies, text[o] = "none"
      PROVE  o \in preserved \/ Given(o)
  <2>1. o \in Object /\ o \in present /\ PageOf[o] \in Page /\ PageOf[o] \notin skipped
    BY <1>1, <1>6 DEF Shown, ObjectsTyped
  <2>2. PageOf[o] \in excused \/ o \notin Open(PageOf[o])
    BY <1>4, <1>7, <2>1, DoneIsSettled
  <2> QED BY <1>7, <2>1, <2>2 DEF Open, On, Given
<1>8. \A o : Given(o) => Given(o)'
  BY <1>3, <1>5 DEF Given
<1>9. Copies' = Copies /\ Shown' = Shown
  BY <1>3 DEF Copies, Shown
<1> SUFFICES ASSUME NEW o \in Shown, o \notin preserved, text'[o] = "none" PROVE Excused(o)'
  BY <1>3, <1>9 DEF Explained
<1>10. o \in Object
  BY <1>1 DEF Shown, ObjectsTyped
<1>11. CASE o \in dropped'
  BY <1>11 DEF Excused, Given
<1>12. CASE o \notin dropped' /\ o \notin Copies
  BY <1>5, <1>7, <1>8, <1>10, <1>12 DEF Excused
<1>13. CASE o \notin dropped' /\ o \in Copies
  <2>1. PICK q : q = owner[o]
    OBVIOUS
  <2>2. q \in present /\ q \in Object /\ q \in Shown /\ owner[q] \notin present
    BY <1>1, <1>10, <1>13, <2>1, AiModeAssumption DEF Copies, Shown, ObjectsTyped, HandsTyped, OwnersTyped
  <2>3. CASE text[q] = "none"
    <3>1. q \notin Copies
      BY <2>2 DEF Copies
    <3>2. q \in preserved \/ Given(q)'
      BY <1>7, <1>8, <2>2, <2>3, <3>1
    <3> QED BY <1>3, <1>9, <1>13, <2>1, <3>2 DEF Excused
  <2>4. CASE text[q] # "none"
    <3>1. q \in dropped'
      BY <1>5, <1>13, <2>1, <2>4
    <3>2. Given(q)'
      BY <3>1 DEF Given
    <3> QED BY <1>3, <1>9, <1>13, <2>1, <3>2 DEF Excused
  <2> QED BY <2>3, <2>4
<1> QED BY <1>11, <1>12, <1>13

\* The blanks that are marked for the export have a reason, too.
LEMMA BlanksHaveReasons ==
  ASSUME AiInv, SettleBlanks, Good, stage' \notin {"off", "download", "scan"}
  PROVE  Explained' /\ Marked'
<1>1. ObjectsTyped /\ Grows /\ stage = "render" /\ UNCHANGED <<skipped, present>>
  BY AiInvParts, StageTyped DEF StageStep, SettleBlanks, cuts
<1>2. Late /\ Explained /\ Marked
  BY <1>1 DEF Late, AiInv
<1>3. Explained'
  BY <1>1, <1>2, ExplainedKept
<1>4. \A o \in Object : Excused(o) => Excused(o)'
  BY <1>1, ExcusedKept
<1>5. ASSUME NEW o \in Object, disposition'[o] = "untranslated" PROVE Excused(o)
  <2>1. CASE o \in Blank
    BY <1>2, <2>1 DEF Blank, Explained
  <2>2. CASE o \notin Blank
    BY <1>2, <1>5, <2>2 DEF SettleBlanks, Marked
  <2> QED BY <2>1, <2>2
<1> QED BY <1>3, <1>4, <1>5 DEF Marked

\* Reasons, while a stage ends.
LEMMA StageReasons ==
  ASSUME AiInv, StageStep, Good,
         \/ stage # "finish" /\ stage' = After(stage) /\ UNCHANGED requests
         \/ stage' = "over" /\ (Good' => stage = "finish")
  PROVE  Explained' /\ Marked'
<1>1. /\ ObjectsTyped /\ Grows /\ stage \in StageSet /\ present' = present
      /\ stage # "scan" => skipped' = skipped
      /\ stage # "render" => disposition' = disposition
      /\ Explained /\ Marked
  BY StageTyped, StageFrame, AiInvParts DEF AiInv
<1>2. /\ stage' \in {"off", "download", "scan"} => stage = "download"
      /\ Late' => stage \in {"translate", "polish", "render", "letter", "finish"}
      /\ stage' = "over" \/ stage # "finish"
  BY <1>1, AfterIs DEF StageSet, Late
<1>3. stage \in {"polish", "render", "letter", "finish"} => Late
  BY DEF Late
<1>4. CASE stage = "scan"
  <2>1. ~Late' /\ \A o \in Object : disposition'[o] # "untranslated"
    BY <1>1, <1>2, <1>4 DEF Marked
  <2> QED BY <2>1 DEF Explained, Marked
<1>5. CASE stage = "render"
  <2>1. SettleBlanks
    BY <1>5 DEF StageStep, PlainStage, Scan, Review, Translated, Polish, SettleBlanks, ReadTexts, Letter, Lettered
  <2> QED BY <1>2, <1>5, <2>1, BlanksHaveReasons
<1>6. CASE stage \notin {"scan", "render", "translate"}
  <2>1. Late' => Late /\ present' = present
    BY <1>1, <1>2, <1>3, <1>6
  <2>2. stage' \in {"off", "download", "scan"} => stage \in {"off", "download", "scan"}
    BY <1>2
  <2> QED BY <1>1, <1>6, <2>1, <2>2, ReasonsKept
<1>7. CASE stage = "translate"
  <2>1. Marked'
    BY <1>1, <1>2, <1>7, ExcusedKept DEF Marked
  <2>2. Translated
    BY <1>7 DEF StageStep, PlainStage, Scan, Review, Translated, Polish, SettleBlanks, ReadTexts, Letter, Lettered
  <2>3. CASE stage' # "over"
    BY <2>1, <2>2, <2>3, TranslatedExplains
  <2>4. CASE stage' = "over"
    <3>1. ~Good'
      BY <1>7, <2>4, AfterIs
    <3> QED BY <2>1, <3>1 DEF Explained, Late
  <2> QED BY <2>3, <2>4
<1> QED BY <1>4, <1>5, <1>6, <1>7

\* A stage that ends while the slices stay as they are.
LEMMA StageMovesOn ==
  ASSUME AiInv, StageStep, Advance \/ Fails, slice' = slice,
         stage = "translate" => \A p \in Page : slice[p].at = "done",
         stage = "review" => stage' = "over" /\ ~Good'
  PROVE  AiInv'
<1>1. RequestsInv /\ CountsTyped /\ SlicesTyped /\ ObjectsTyped
  BY AiInvParts
<1>2. CountsTyped' /\ ObjectsTyped' /\ HandsTyped' /\ Grows /\ cost' = cost
  BY StageTyped, StageMoney
<1>3. /\ RequestsInv' /\ Good /\ stage \in StageSet
      /\ \/ stage # "finish" /\ stage' = After(stage) /\ UNCHANGED requests
         \/ stage' = "over" /\ (Good' => stage = "finish")
  BY <1>1, StageEnds, StageFrame
<1>4. SlicesTyped' /\ SlicesFit' /\ Gate' = Gate /\ Total(WeightBy', Page) = Total(WeightBy, Page)
  BY <1>1, <1>2, SlicesStay DEF AiInv
<1>5. AiTypeOK'
  BY <1>2, <1>3, <1>4, TypesNext DEF RequestsInv
<1>6. SlicesRest'
  <2>1. /\ stage' \in {"off", "download", "scan", "clean", "review"} =>
             stage \in {"download", "scan", "clean"}
        /\ Good' /\ stage' \in {"polish", "render", "letter", "finish", "over"} =>
             stage \in {"translate", "polish", "render", "letter", "finish"}
    BY <1>3, AfterIs DEF StageSet
  <2> QED BY <1>3, <2>1 DEF AiInv, SlicesRest
<1>7. AllCovered'
  <2> SUFFICES ASSUME NEW p \in Page PROVE Covered(p)'
    BY DEF AllCovered
  <2>1. Covered(p)
    BY <1>3 DEF AiInv, AllCovered
  <2>2. CASE stage = "scan"
    <3>1. slice[p].at = "off"
      BY <2>2 DEF AiInv, SlicesRest
    <3> QED BY <3>1 DEF Covered
  <2>3. CASE stage # "scan"
    <3>1. On(p) \cap present' \subseteq present
      BY StageFrame
    <3> QED BY <1>2, <2>1, <2>3, <3>1, StageFrame, CoveredKept
  <2> QED BY <2>2, <2>3
<1>8. Evidence'
  BY EvidenceKept
<1>9. BudgetFits'
  <2>1. BudgetFits
    BY DEF AiInv
  <2>2. stage' \in {"off", "download", "scan", "clean", "review"} =>
          stage \in {"off", "download", "scan", "clean", "review"}
    BY <1>3, AfterIs DEF StageSet
  <2>3. SpendingFits'
    BY <1>4, StageSpendingKept
  <2> QED BY <1>2, <1>4, <2>1, <2>2, <2>3 DEF BudgetFits
<1>10. Explained' /\ Marked'
  BY <1>3, StageReasons
<1> QED BY <1>3, <1>4, <1>5, <1>6, <1>7, <1>8, <1>9, <1>10 DEF AiInv, RequestsInv

\* The slices are lined up.
LEMMA LinedUp ==
  ASSUME AiInv, Review, stage' = "translate"
  PROVE  AiInv'
<1>0. StageStep /\ (Advance \/ Fails) /\ stage = "review"
  BY DEF Review, StageStep
<1>1. RequestsInv /\ CountsTyped /\ SlicesTyped /\ ObjectsTyped
  BY AiInvParts
<1>2. CountsTyped' /\ ObjectsTyped' /\ HandsTyped' /\ Grows /\ UNCHANGED <<cost, skipped>>
  BY <1>0, StageTyped, StageMoney, StageFrame
<1>3. /\ RequestsInv' /\ Good
      /\ \/ stage # "finish" /\ stage' = After(stage) /\ UNCHANGED requests
         \/ stage' = "over" /\ (Good' => stage = "finish")
  BY <1>0, <1>1, StageEnds, StageFrame
<1>4. \A p \in Page : slice'[p] = [NoSlice EXCEPT !.at = IF p \in skipped THEN "done" ELSE "queued"]
  BY DEF Review
<1>5. SlicesTyped'
  <2>1. slice' = [p \in Page |-> [NoSlice EXCEPT !.at = IF p \in skipped THEN "done" ELSE "queued"]]
    BY DEF Review
  <2>2. \A p \in Page : slice'[p] \in SliceRecord
    BY <1>4, AtRest
  <2>3. slice' \in [Page -> SliceRecord]
    BY <2>1, <2>2
  <2>4. \A p \in Page :
          /\ slice'[p].at # "retry"
          /\ slice'[p].asked \cup slice'[p].art \cup slice'[p].fresh \cup slice'[p].blank \subseteq On(p)
    BY <1>4, AtRest
  <2> QED BY <2>3, <2>4 DEF SlicesTyped, On
<1>6. AiTypeOK'
  BY <1>2, <1>3, <1>5, TypesNext DEF RequestsInv
<1>7. SlicesRest'
  BY DEF SlicesRest
<1>8. SlicesFit'
  <2> SUFFICES ASSUME NEW p \in Page PROVE SliceFits(p)'
    BY DEF SlicesFit
  <2>1. PICK a \in {"queued", "done"} : slice'[p] = [NoSlice EXCEPT !.at = a]
    BY <1>4
  <2> QED BY <2>1, AtRest DEF SliceFits
<1>9. AllCovered'
  BY <1>2, <1>4, AtRest DEF AllCovered, Covered
<1>10. Evidence'
  BY <1>0, EvidenceKept
<1>11. BudgetFits'
  <2>1. \A p \in Page : slice[p].at = "off"
    BY <1>0 DEF AiInv, SlicesRest
  <2>2. \A p \in Page : Weight(slice'[p]) = 0 /\ Weight(slice[p]) = 0
    BY <1>4, <2>1, AtRest, RestIsFree DEF Weight, AiInv, SlicesFit
  <2>3. Total(WeightBy', Page) = Total(WeightBy, Page)
    BY <2>2, WeightsKept
  <2>4. Gate' = {}
    BY <1>4, AtRest DEF Gate, InGate
  <2>5. Cardinality(Gate') <= Concurrency
    BY <2>4, FS_EmptySet, AiModeAssumption
  <2>6. SpendingFits'
    BY <1>0, <2>3, StageSpendingKept
  <2> QED BY <2>5, <2>6 DEF BudgetFits
<1>12. Explained' /\ Marked'
  BY <1>0, <1>3, StageReasons
<1> QED BY <1>3, <1>6, <1>7, <1>8, <1>9, <1>10, <1>11, <1>12 DEF AiInv, RequestsInv

LEMMA StagesKeep == ASSUME AiInv, StageStep PROVE AiInv'
<1>1. CASE Advance \/ Fails
  <2>1. CASE Review /\ stage' = "translate"
    BY <2>1, LinedUp
  <2>2. CASE ~(Review /\ stage' = "translate")
    <3>0. /\ stage = "translate" => \A p \in Page : slice[p].at = "done"
          /\ stage = "review" => Review
      BY DEF StageStep, PlainStage, Scan, Review, Translated, Polish, SettleBlanks, ReadTexts, Letter, Lettered
    <3>1. slice' = slice
      BY <2>2, <3>0, StageFrame DEF Review
    <3>2. stage = "review" => stage' = "over" /\ ~Good'
      BY <1>1, <2>2, <3>0, StageEnds, AiInvParts, StageFrame, AfterIs
    <3> QED BY <1>1, <3>0, <3>1, <3>2, StageMovesOn
  <2> QED BY <2>1, <2>2
<1>2. CASE UNCHANGED <<requests, stage>> /\ stage = "letter"
  <2>1. RequestsInv' /\ Good' = Good
    BY <1>2, AiInvParts, Unmoved
  <2>2. CountsTyped' /\ ObjectsTyped' /\ HandsTyped' /\ Grows
    BY StageTyped
  <2>3. UNCHANGED <<slice, early, cost, priced, skipped, present, attempted, disposition>>
    BY <1>2, StageFrame DEF money
  <2> QED BY <1>2, <2>1, <2>2, <2>3, ChapterKept
<1> QED BY <1>1, <1>2, StageFrame

-----------------------------------------------------------------------------
(* Steps of one slice. *)

\* The slice becomes s, and the others stay as they are.
SliceFrame(p, s) ==
  /\ slice' = [slice EXCEPT ![p] = s]
  /\ slice[p].at \notin {"off", "done"} /\ s.at \notin {"off", "queued"}
  /\ s.at = "retry" => s.todo # <<>>
  /\ s.asked \cup s.art \cup s.fresh \cup s.blank \subseteq On(p)
  /\ skipped' = skipped /\ present' \subseteq present \cup On(p) /\ disposition' = disposition
  /\ stage' \in {stage, "over"} /\ (Good' => Good /\ stage' = stage)
  /\ Grows

\* It costs no more than it was counted with, or it is asked for while the budget lasts.
Cheaper(p, s) ==
  /\ InGate(p) \/ s.at = "done"
  /\ priced' => /\ priced /\ early' = early
                /\ cost' + Weight(s) <= cost + Weight(slice[p])

Affordable == UNCHANGED <<early, cost, priced>> /\ HasBudget /\ Cardinality(Gate') <= Concurrency

LEMMA FrameSlices ==
  ASSUME AiInv, NEW p \in Page, NEW s \in SliceRecord, SliceFrame(p, s), SliceFits(p)'
  PROVE  /\ slice'[p] = s /\ \A q \in Page \ {p} : slice'[q] = slice[q]
         /\ SlicesTyped' /\ SlicesRest' /\ SlicesFit'
         /\ stage \notin {"off", "download", "scan", "clean", "review"}
<1>1. SlicesTyped /\ slice \in [Page -> SliceRecord]
  BY AiInvParts DEF SlicesTyped
<1>2. slice'[p] = s /\ \A q \in Page \ {p} : slice'[q] = slice[q]
  BY <1>1 DEF SliceFrame
<1>3. SlicesTyped'
  <2>1. slice' \in [Page -> SliceRecord]
    BY <1>1 DEF SliceFrame
  <2> QED BY <1>1, <1>2, <2>1 DEF SlicesTyped, SliceFrame, On
<1>4. stage \notin {"off", "download", "scan", "clean", "review"}
  BY DEF SliceFrame, AiInv, SlicesRest
<1>5. SlicesRest'
  <2>1. stage' \notin {"off", "download", "scan", "clean", "review"}
    BY <1>4 DEF SliceFrame
  <2>2. Good' => stage' \notin {"polish", "render", "letter", "finish", "over"}
    BY DEF SliceFrame, AiInv, SlicesRest
  <2> QED BY <2>1, <2>2 DEF SlicesRest
<1>6. SlicesFit'
  BY <1>2, SliceFitsKept DEF SlicesFit, SliceFrame, AiInv
<1> QED BY <1>2, <1>3, <1>4, <1>5, <1>6

LEMMA FrameCovered ==
  ASSUME AiInv, NEW p \in Page, NEW s \in SliceRecord, SliceFrame(p, s), SliceFits(p)',
         Good' => Covered(p)'
  PROVE  AllCovered'
<1> SUFFICES ASSUME Good', NEW q \in Page, q # p PROVE Covered(q)'
  BY DEF AllCovered
<1>1. slice'[q] = slice[q]
  BY FrameSlices
<1>2. On(q) \cap present' \subseteq present
  BY DEF SliceFrame, On
<1>3. Covered(q)
  BY DEF SliceFrame, AiInv, AllCovered
<1> QED BY <1>1, <1>2, <1>3, CoveredKept DEF SliceFrame

\* The slice pays what it was counted with.
LEMMA FrameCheaper ==
  ASSUME AiInv, NEW p \in Page, NEW s \in SliceRecord, SliceFrame(p, s), SliceFits(p)',
         cost' \in Nat, Cheaper(p, s)
  PROVE  BudgetFits'
<1>1. /\ slice'[p] = s /\ \A q \in Page \ {p} : slice'[q] = slice[q]
      /\ stage' \notin {"off", "download", "scan", "clean", "review"}
  BY FrameSlices DEF SliceFrame
<1>2. Gate' \subseteq Gate
  BY <1>1 DEF Gate, InGate, Cheaper, SliceFrame
<1>3. Cardinality(Gate') <= Concurrency
  <2>1. IsFiniteSet(Gate) /\ Gate \subseteq Page
    BY PageFinite, FS_Subset DEF Gate
  <2>2. Cardinality(Gate') <= Cardinality(Gate) /\ Cardinality(Gate) \in Nat /\ Cardinality(Gate') \in Nat
    BY <1>2, <2>1, FS_Subset, FS_CardinalityType
  <2>3. Cardinality(Gate) <= Concurrency /\ Concurrency \in Nat
    BY AiModeAssumption DEF AiInv, BudgetFits
  <2> QED BY <2>2, <2>3
<1>4. PICK w : w = WeightBy
  OBVIOUS
<1>5. PICK v : v = WeightBy'
  OBVIOUS
<1>6. /\ \A q \in Page : w[q] \in Nat /\ v[q] \in Nat
      /\ w[p] = Weight(slice[p]) /\ v[p] = Weight(s)
      /\ \A q \in Page : q # p => v[q] = w[q]
  <2>1. \A q \in Page : w[q] = Weight(slice[q]) /\ v[q] = Weight(slice'[q])
    BY <1>4, <1>5 DEF WeightBy
  <2>2. \A q \in Page : slice[q] \in SliceRecord /\ slice'[q] \in SliceRecord
    BY FrameSlices, AiInvParts DEF SlicesTyped
  <2>3. \A q \in Page : w[q] \in 0..MaxCost /\ v[q] \in 0..MaxCost
    BY <2>1, <2>2, WeightTyped
  <2> QED BY <1>1, <2>1, <2>3, AiModeAssumption
<1>7. Total(v, Page) = Total(w, Page) + v[p] - w[p]
  <2>1. \A q \in Page : w[q] \in Int /\ v[q] \in Int
    BY <1>6
  <2>2. IsFiniteSet(Page) /\ \A q \in Page : q # p => v[q] = w[q]
    BY <1>6, PageFinite
  <2> QED BY <2>1, <2>2, TotalUpdate
<1>8. PICK n \in Nat : n = Total(w, Page)
  BY <1>6, PageFinite, TotalNat
<1>9. PICK m \in Nat : m = Budget + Concurrency * MaxCost
  BY AiModeAssumption
<1>10. ASSUME priced'
       PROVE  \/ cost' + Total(v, Page) = 0
              \/ early' + cost' + Total(v, Page) < m
  <2>1. /\ cost \in Nat /\ early \in Nat /\ early' = early
        /\ cost + n = 0 \/ early + cost + n < m
        /\ cost' + v[p] <= cost + w[p]
    BY <1>4, <1>6, <1>8, <1>9, <1>10, AiInvParts DEF AiInv, BudgetFits, SpendingFits, CountsTyped, Cheaper
  <2>2. PICK k \in Nat : k = Total(v, Page)
    BY <1>6, PageFinite, TotalNat
  <2>3. k = n + v[p] - w[p]
    BY <1>7, <1>8, <2>2
  <2>4. cost' + k <= cost + n
    BY <1>6, <2>1, <2>3
  <2> QED BY <2>1, <2>2, <2>4
<1> QED BY <1>1, <1>3, <1>5, <1>9, <1>10 DEF BudgetFits, SpendingFits

\* The slice asks while there is money left.
LEMMA FrameAffordable ==
  ASSUME AiInv, NEW p \in Page, NEW s \in SliceRecord, SliceFrame(p, s), SliceFits(p)',
         Affordable
  PROVE  BudgetFits'
<1>1. SlicesTyped' /\ SlicesFit' /\ stage' \notin {"off", "download", "scan", "clean", "review"}
  BY FrameSlices DEF SliceFrame
<1>2. PICK v : v = WeightBy'
  OBVIOUS
<1>3. \A q \in Page : v[q] = Weight(slice'[q])
  BY <1>2 DEF WeightBy
<1>4. \A q \in Page : v[q] \in 0..MaxCost
  BY <1>1, <1>3, WeightTyped DEF SlicesTyped
<1>5. \A q \in Page \ Gate' : v[q] = 0
  BY <1>1, <1>3 DEF Gate, InGate, SlicesFit, SliceFits, Weight
<1>6. Total(v, Page) <= MaxCost * Cardinality(Gate')
  <2>1. Gate' \in SUBSET Page /\ MaxCost \in Nat
    BY AiModeAssumption DEF Gate
  <2> HIDE DEF Gate
  <2> QED BY <1>4, <1>5, <2>1, PageFinite, TotalAtMost
<1>7. Cardinality(Gate') \in Nat
  BY PageFinite, FS_Subset, FS_CardinalityType DEF Gate
<1>8. Total(v, Page) \in Nat
  <2>1. \A q \in Page : v[q] \in Nat
    BY <1>4, AiModeAssumption
  <2> QED BY <2>1, PageFinite, TotalNat
<1>9. \A a, b, c \in Nat : a <= b => c * a <= b * c
  <2> TAKE a, b, c \in Nat
  <2> HAVE a <= b
  <2>1. PICK d \in Nat : b = a + d
    <3>1. b - a \in Nat /\ b = a + (b - a)
      OBVIOUS
    <3> QED BY <3>1
  <2>2. b * c = a * c + d * c /\ d * c \in Nat /\ a * c \in Nat /\ c * a = a * c
    BY <2>1
  <2> QED BY <2>2
<1>10. MaxCost * Cardinality(Gate') <= Concurrency * MaxCost
  <2>1. MaxCost \in Nat /\ Concurrency \in Nat /\ Cardinality(Gate') <= Concurrency
    BY AiModeAssumption DEF Affordable
  <2> QED BY <1>7, <1>9, <2>1
<1>11. PICK k \in Int, n \in Int : k = MaxCost * Cardinality(Gate') /\ n = Concurrency * MaxCost
  BY <1>7, AiModeAssumption
<1>12. ASSUME priced' PROVE early' + cost' + Total(v, Page) < Budget + n
  <2>1. early \in Nat /\ cost \in Nat /\ early + cost < Budget /\ Budget \in Nat
    BY <1>12, AiInvParts, AiModeAssumption DEF Affordable, HasBudget, CountsTyped
  <2>2. early' = early /\ cost' = cost
    BY DEF Affordable
  <2> QED BY <1>6, <1>8, <1>10, <1>11, <2>1, <2>2
<1> QED BY <1>1, <1>2, <1>11, <1>12 DEF BudgetFits, SpendingFits, Affordable

LEMMA SliceKeeps ==
  ASSUME AiInv, NEW p \in Page, NEW s \in SliceRecord, SliceFrame(p, s),
         RequestsInv', CountsTyped', ObjectsTyped', HandsTyped', Evidence',
         SliceFits(p)', Good' => Covered(p)', Cheaper(p, s) \/ Affordable
  PROVE  AiInv'
<1>1. SlicesTyped' /\ SlicesRest' /\ SlicesFit'
  BY FrameSlices
<1>2. AiTypeOK'
  BY <1>1, TypesNext DEF RequestsInv
<1>3. AllCovered'
  BY FrameCovered
<1>4. BudgetFits'
  BY FrameCheaper, FrameAffordable DEF CountsTyped
<1>5. Explained' /\ Marked'
  <2>1. ~Late'
    BY DEF Late, SliceFrame, AiInv, SlicesRest
  <2>2. stage' \notin {"off", "download", "scan"}
    BY FrameSlices DEF SliceFrame
  <2>3. Explained /\ Marked /\ ObjectsTyped /\ Grows /\ skipped' = skipped /\ disposition' = disposition
    BY AiInvParts DEF AiInv, SliceFrame
  <2> QED BY <2>1, <2>2, <2>3, ReasonsKept
<1> QED BY <1>1, <1>2, <1>3, <1>4, <1>5 DEF AiInv, RequestsInv

-----------------------------------------------------------------------------
(* What is still to do for a slice. *)

LEMMA PendingOne == \A S \in SUBSET Object : Pending(<<S>>) = S
  BY DEF Pending

LEMMA PendingNone == Pending(<<>>) = {}
  BY DEF Pending

LEMMA PendingPopped ==
  ASSUME NEW todo \in Seq(SUBSET Object), todo # <<>>
  PROVE  Pending(todo) \subseteq Head(todo) \cup Pending(Tail(todo))
<1> SUFFICES ASSUME NEW o \in Object, NEW i \in 1..Len(todo), o \in todo[i], i # 1
             PROVE  o \in Pending(Tail(todo))
  <2>1. Head(todo) = todo[1] /\ DOMAIN todo = 1..Len(todo)
    BY HeadTailProperties
  <2> QED BY <2>1 DEF Pending
<1>1. Tail(todo) \in Seq(SUBSET Object) /\ Len(Tail(todo)) = Len(todo) - 1
  BY HeadTailProperties
<1>2. DOMAIN Tail(todo) = 1..Len(Tail(todo))
  BY <1>1
<1>3. i - 1 \in DOMAIN Tail(todo) /\ Tail(todo)[i - 1] = todo[i]
  <2>1. i - 1 \in 1..Len(todo) - 1 /\ i = (i - 1) + 1 /\ Len(todo) \in Nat
    OBVIOUS
  <2> QED BY <1>1, <1>2, <2>1, HeadTailProperties
<1> QED BY <1>3 DEF Pending

LEMMA PendingAdded ==
  ASSUME NEW S \in SUBSET Object, NEW todo \in Seq(SUBSET Object)
  PROVE  /\ <<S>> \o todo \in Seq(SUBSET Object) /\ <<S>> \o todo # <<>>
         /\ S \cup Pending(todo) \subseteq Pending(<<S>> \o todo)
<1> DEFINE t == <<S>> \o todo
<1>1. <<S>> \in Seq(SUBSET Object) /\ Len(<<S>>) = 1
  OBVIOUS
<1>2. t \in Seq(SUBSET Object) /\ Len(t) = 1 + Len(todo) /\ Len(todo) \in Nat
  BY <1>1
<1>3. t[1] = S /\ \A i \in 1..Len(todo) : t[i + 1] = todo[i]
  <2>1. t[1] = S
    BY <1>1, <1>2
  <2>2. \A i \in 1..Len(todo) : i + 1 \in 1..(1 + Len(todo)) /\ ~(i + 1 <= 1) /\ (i + 1) - 1 = i
    BY <1>2
  <2> QED BY <1>1, <2>1, <2>2
<1>4. DOMAIN t = 1..(1 + Len(todo)) /\ DOMAIN todo = 1..Len(todo) /\ t # <<>>
  BY <1>2
<1> HIDE DEF t
<1>5. S \subseteq Pending(t)
  BY <1>2, <1>3, <1>4 DEF Pending
<1>6. Pending(todo) \subseteq Pending(t)
  <2> SUFFICES ASSUME NEW o \in Object, NEW i \in 1..Len(todo), o \in todo[i]
               PROVE  o \in Pending(t)
    BY <1>4 DEF Pending
  <2>1. i + 1 \in DOMAIN t /\ t[i + 1] = todo[i]
    BY <1>2, <1>3, <1>4
  <2> QED BY <2>1 DEF Pending
<1> QED BY <1>2, <1>4, <1>5, <1>6 DEF t

-----------------------------------------------------------------------------
(* The steps of a slice, one by one. *)

\* What holds of a slice of which a step begins.
LEMMA SliceHas ==
  ASSUME AiInv, NEW p \in Page
  PROVE  /\ slice[p] \in SliceRecord /\ SliceFits(p) /\ (Good => Covered(p))
         /\ slice[p].at = "retry" => slice[p].todo # <<>>
         /\ slice[p].asked \cup slice[p].art \cup slice[p].fresh \cup slice[p].blank \subseteq On(p)
         /\ slice[p].todo \in Seq(SUBSET Object) /\ Weight(slice[p]) \in 0..MaxCost
<1>1. slice[p] \in SliceRecord /\ slice[p].todo \in Seq(SUBSET Object)
  BY AiInvParts DEF SlicesTyped, SliceRecord
<1>2. Weight(slice[p]) \in 0..MaxCost
  BY <1>1, WeightTyped
<1> QED BY <1>1, <1>2, AiInvParts DEF SlicesTyped, AiInv, SlicesFit, AllCovered

\* A step that leaves the requests and the stage alone.
LEMMA QuietFrame ==
  ASSUME AiInv, UNCHANGED translating
  PROVE  /\ RequestsInv' /\ Good' = Good /\ stage' = stage /\ HandsTyped'
         /\ UNCHANGED <<skipped, owner, polishing>>
         /\ early' \in Nat /\ cost' \in Nat /\ priced' \in BOOLEAN /\ left' \in [Ops -> Nat] => CountsTyped'
<1>1. UNCHANGED <<requests, stage, cancelled, outOfBudget, skipped, owner, polishing, pen>>
  BY DEF translating, run, cuts, hands
<1>2. RequestsInv' /\ Good' = Good
  BY <1>1, AiInvParts, Unmoved
<1>3. HandsTyped'
  BY <1>1, AiInvParts, HandsStay
<1> QED BY <1>1, <1>2, <1>3, AiInvParts DEF CountsTyped

\* What the user changes under a call is noted in its slice.
LEMMA TouchKeeps ==
  ASSUME AiInv, NEW p \in Page, slice[p].at = "asking", Used("edit"), NEW s \in SliceRecord,
         slice' = [slice EXCEPT ![p] = s], UNCHANGED <<requests, run, money, cuts, objects, hands, seen>>,
         LET r == slice[p]
         IN  /\ s.at = r.at /\ s.first = r.first /\ s.asked = r.asked /\ s.art = r.art /\ s.fresh = r.fresh
             /\ s.todo = r.todo /\ s.blank = r.blank /\ s.owed = r.owed /\ s.fruitless = r.fruitless
  PROVE  AiInv'
<1>1. slice'[p] = s
  BY AiInvParts DEF SlicesTyped
<1>2. UNCHANGED <<requests, stage, cancelled, outOfBudget, early, cost, priced, skipped, owner, present, text,
                  preserved, attempted, disposition, dropped, polishing, pen, blanked, passed, excused>>
  BY DEF run, money, cuts, objects, marks, hands, seen
<1>3. RequestsInv' /\ Good' = Good
  BY <1>2, AiInvParts, Unmoved
<1>4. CountsTyped' /\ ObjectsTyped' /\ HandsTyped' /\ Evidence' /\ Grows
  <2>1. left' \in [Ops -> Nat]
    BY AiInvParts, UsedTyped DEF CountsTyped, Ops
  <2>2. CountsTyped' /\ ObjectsTyped' /\ Grows
    BY <1>2, <2>1, AiInvParts DEF CountsTyped, ObjectsTyped, Grows
  <2>3. HandsTyped'
    BY <1>2, AiInvParts, HandsStay
  <2> QED BY <1>2, <2>2, <2>3 DEF Evidence, AiInv
<1>5. SliceFrame(p, s)
  BY <1>2, <1>3, <1>4, SliceHas DEF SliceFrame
<1>6. SliceFits(p)'
  <2>1. SliceFits(p)
    BY SliceHas
  <2>2. /\ slice[p].fruitless < Rounds /\ (slice[p].first => slice[p].todo = <<>>)
        /\ (~slice[p].first => slice[p].todo # <<>>) /\ slice[p].owed = 0
        /\ slice[p].blank \subseteq blanked
    BY <2>1 DEF SliceFits
  <2> QED BY <1>1, <1>2, <2>2 DEF SliceFits
<1>7. Good' => Covered(p)'
  <2>1. Open(p)' = Open(p) /\ Copies' = Copies
    BY <1>2 DEF Open, Copies, On
  <2> QED BY <1>1, <1>2, <1>3, <2>1, SliceHas DEF Covered, Minded
<1>8. Cheaper(p, s)
  BY <1>2, SliceHas, AiInvParts DEF Cheaper, InGate, Weight, CountsTyped
<1> QED BY <1>3, <1>4, <1>5, <1>6, <1>7, <1>8, SliceKeeps

LEMMA RepaintsKeep == ASSUME AiInv, NEW p \in Page, Repaints(p) PROVE AiInv'
<1>1. PICK r \in SliceRecord : r = slice[p]
  BY SliceHas
<1>2. PICK s : s = [r EXCEPT !.changed = TRUE]
  OBVIOUS
<1>3. /\ s \in SliceRecord /\ s.at = r.at /\ s.first = r.first /\ s.asked = r.asked /\ s.art = r.art
      /\ s.fresh = r.fresh /\ s.todo = r.todo /\ s.blank = r.blank /\ s.owed = r.owed
      /\ s.fruitless = r.fruitless
  BY <1>2 DEF SliceRecord
<1>4. slice' = [slice EXCEPT ![p] = s]
  BY <1>1, <1>2, AiInvParts DEF Repaints, SlicesTyped
<1> QED BY <1>1, <1>3, <1>4, TouchKeeps DEF Repaints

LEMMA MovesKeep == ASSUME AiInv, NEW o \in Object, Moves(o) PROVE AiInv'
<1>0. PICK p \in Page : p = PageOf[o]
  BY AiModeAssumption DEF Page
<1>1. PICK r \in SliceRecord : r = slice[p]
  BY SliceHas
<1>2. PICK s : s = [r EXCEPT !.stale = r.stale \cup {o}]
  OBVIOUS
<1>3. /\ s \in SliceRecord /\ s.at = r.at /\ s.first = r.first /\ s.asked = r.asked /\ s.art = r.art
      /\ s.fresh = r.fresh /\ s.todo = r.todo /\ s.blank = r.blank /\ s.owed = r.owed
      /\ s.fruitless = r.fruitless
  BY <1>2 DEF SliceRecord
<1>4. slice' = [slice EXCEPT ![p] = s]
  BY <1>0, <1>1, <1>2, AiInvParts DEF Moves, SlicesTyped
<1> QED BY <1>0, <1>1, <1>3, <1>4, TouchKeeps DEF Moves

LEMMA AdmitKeeps == ASSUME AiInv, NEW p \in Page, Admit(p) PROVE AiInv'
<1>0. /\ slice[p].at = "queued"
      /\ UNCHANGED <<requests, stage, cancelled, early, cost, priced, skipped, owner, present, text, preserved,
                     attempted, disposition, dropped, polishing, pen, left, blanked, passed>>
      /\ outOfBudget' \in BOOLEAN /\ excused \subseteq excused' /\ excused' \subseteq Page
  BY AiInvParts DEF Admit, money, cuts, objects, marks, hands, CountsTyped, ObjectsTyped
<1>1. RequestsInv' /\ Good' = Good
  BY <1>0, AiInvParts, Unmoved
<1>2. CountsTyped' /\ ObjectsTyped' /\ HandsTyped' /\ Evidence' /\ Grows
  <2>1. CountsTyped' /\ ObjectsTyped' /\ Grows
    BY <1>0, AiInvParts DEF CountsTyped, ObjectsTyped, Grows
  <2>2. HandsTyped'
    BY <1>0, AiInvParts, HandsStay
  <2> QED BY <1>0, <2>1, <2>2 DEF Evidence, AiInv
<1>3. slice[p] = [NoSlice EXCEPT !.at = "queued"] /\ slice \in [Page -> SliceRecord]
  BY <1>0, SliceHas, AiInvParts DEF SliceFits, SlicesTyped
<1>4. CASE cancelled \/ outOfBudget \/ ~HasBudget
  <2>0. PICK s \in SliceRecord : s = [NoSlice EXCEPT !.at = "done"]
    BY AtRest
  <2>1. /\ s.at = "done" /\ s.first /\ s.todo = <<>> /\ s.asked = {} /\ s.art = {}
        /\ s.fresh = {} /\ s.blank = {} /\ s.owed = 0
    BY <2>0, AtRest
  <2>2. slice' = [slice EXCEPT ![p] = s] /\ slice'[p] = s /\ p \in excused'
    BY <1>3, <1>4, <2>0 DEF Admit
  <2>3. SliceFrame(p, s)
    BY <1>0, <1>1, <1>2, <2>1, <2>2 DEF SliceFrame
  <2>4. SliceFits(p)' /\ Covered(p)'
    BY <2>1, <2>2 DEF SliceFits, Covered
  <2>5. Cheaper(p, s)
    BY <1>0, <2>1, SliceHas, AiInvParts, AiModeAssumption DEF Cheaper, Weight, CountsTyped
  <2> QED BY <1>1, <1>2, <2>3, <2>4, <2>5, SliceKeeps
<1>5. CASE ~(cancelled \/ outOfBudget \/ ~HasBudget)
  <2>a. PICK batch \in SUBSET On(p) : batch = Untranslated(p, Object, {})
    BY DEF Untranslated
  <2>0. batch \in SUBSET Object
    BY DEF On
  <2>b. PICK s \in SliceRecord : s = Asks(p, batch)
    BY <2>0, AsksShape, AiInvParts
  <2>1. /\ s.at = "asking" /\ s.asked = batch /\ s.first /\ s.todo = <<>> /\ s.art = {}
        /\ s.fresh = {} /\ s.blank = {} /\ s.owed = 0 /\ s.fruitless = 0
    <3>1. LET q == slice[p]
          IN  /\ q.first /\ q.todo = <<>> /\ q.art = {} /\ q.fresh = {} /\ q.blank = {}
              /\ q.owed = 0 /\ q.fruitless = 0
      BY <1>3, AtRest
    <3> QED BY <2>0, <2>b, <3>1, AsksShape, AiInvParts
  <2>2. slice' = [slice EXCEPT ![p] = s] /\ slice'[p] = s
    BY <1>3, <1>5, <2>a, <2>b DEF Admit
  <2>3. SliceFrame(p, s)
    BY <1>0, <1>1, <1>2, <2>1, <2>2 DEF SliceFrame
  <2>4. SliceFits(p)'
    BY <2>1, <2>2, AiModeAssumption DEF SliceFits
  <2>5. Covered(p)'
    <3>1. Open(p)' \subseteq batch \cup Copies
      <4>1. present \subseteq Object
        BY AiInvParts DEF ObjectsTyped
      <4> QED BY <1>0, <2>a, <4>1 DEF Open, Untranslated, On
    <3>2. Minded(s) = batch /\ Copies' = Copies
      BY <1>0, <2>1 DEF Minded, Copies
    <3> QED BY <2>2, <3>1, <3>2 DEF Covered
  <2>6. Affordable
    <3>2. Gate' = Gate \cup {p}
      BY <1>3, <2>1, <2>2 DEF Gate, InGate
    <3>3. p \notin Gate /\ IsFiniteSet(Gate) /\ Cardinality(Gate) < Concurrency
      BY <1>0, PageFinite, FS_Subset DEF Gate, InGate, Admit
    <3>4. Cardinality(Gate') = Cardinality(Gate) + 1 /\ Cardinality(Gate) \in Nat
      BY <3>2, <3>3, FS_AddElement, FS_CardinalityType
    <3>5. Cardinality(Gate') <= Concurrency
      BY <3>3, <3>4, AiModeAssumption
    <3> QED BY <1>0, <1>5, <3>5 DEF Affordable
  <2> QED BY <1>1, <1>2, <2>3, <2>4, <2>5, <2>6, SliceKeeps
<1> QED BY <1>4, <1>5

LEMMA CallFailsKeeps == ASSUME AiInv, NEW p \in Page, CallFails(p) PROVE AiInv'
<1> USE AiInvParts DEF CallFails
<1>0. UNCHANGED <<early, cost, priced, left, present, text, preserved, attempted, disposition, dropped, blanked,
                  passed, excused>>
  BY DEF money, objects, marks, seen
<1>1. /\ RequestsInv' /\ Good' = Good /\ CountsTyped' /\ HandsTyped' /\ stage' = stage
      /\ UNCHANGED <<skipped, owner, polishing>>
  BY <1>0, QuietFrame DEF CountsTyped
<1>2. ObjectsTyped' /\ Evidence' /\ Grows
  BY <1>0, <1>1 DEF ObjectsTyped, Evidence, AiInv, Grows
<1>3. slice[p].fruitless < Rounds
  BY SliceHas DEF SliceFits
<1> PICK s \in SliceRecord : s = Unanswered(p)
  BY <1>3, UnansweredShape
<1>4. /\ s.at = "retry" /\ s.asked = {} /\ ~s.first
      /\ s.todo = IF slice[p].first THEN <<On(p)>> ELSE slice[p].todo
      /\ s.blank = slice[p].blank /\ s.owed = slice[p].owed
      /\ s.art = slice[p].art /\ s.fresh = slice[p].fresh
  BY <1>3, UnansweredShape
<1>5. slice' = [slice EXCEPT ![p] = s] /\ slice'[p] = s
  BY DEF SlicesTyped
<1>6. s.todo # <<>> /\ s.owed = 0
  <2>1. SliceFits(p) /\ <<On(p)>> # <<>>
    BY SliceHas
  <2>2. slice[p].owed = 0 /\ (~slice[p].first => slice[p].todo # <<>>)
    BY <2>1 DEF SliceFits
  <2> QED BY <1>4, <2>1, <2>2
<1>7. SliceFrame(p, s)
  BY <1>0, <1>1, <1>2, <1>4, <1>5, <1>6, SliceHas DEF SliceFrame
<1>8. SliceFits(p)'
  BY <1>0, <1>4, <1>5, <1>6, SliceHas DEF SliceFits
<1>9. Good' => Covered(p)'
  <2>1. Pending(<<On(p)>>) = On(p)
    BY PendingOne DEF On
  <2>2. Open(p)' = Open(p) /\ Open(p) \subseteq On(p) /\ Copies' = Copies
    BY <1>0, <1>1 DEF Open, Copies, On
  <2> QED BY <1>0, <1>1, <1>4, <1>5, <2>1, <2>2, SliceHas DEF Covered, Minded
<1>10. Cheaper(p, s)
  BY <1>0, <1>4, <1>6, AiModeAssumption DEF Cheaper, InGate, Weight, CountsTyped
<1> QED BY <1>1, <1>2, <1>7, <1>8, <1>9, <1>10, SliceKeeps

LEMMA CommitAnswerKeeps == ASSUME AiInv, NEW p \in Page, CommitAnswer(p) PROVE AiInv'
<1>0. /\ slice[p].at = "asking" /\ slice[p].asked \subseteq On(p) /\ On(p) \subseteq Object
      /\ slice[p].stale \subseteq Object
      /\ UNCHANGED <<translating, present, preserved, disposition, dropped, excused>>
  BY SliceHas DEF CommitAnswer, On, SliceRecord
<1>a. PICK answer \in [slice[p].asked -> {"text", "blank", "art", "missing"}], c \in 0..MaxCost,
         fresh \in SUBSET (On(p) \ present) :
       LET done == {o \in Valid(p) : answer[o] = "text"}
       IN  /\ text' = [o \in Object |-> IF o \in done THEN "ai" ELSE text[o]]
           /\ attempted' = IF done = {} THEN attempted ELSE attempted \cup LeftBlank(p, answer)
           /\ blanked' = blanked \cup {o \in Valid(p) : answer[o] \in {"blank", "art"}}
           /\ passed' = IF slice[p].first THEN passed \cup (slice[p].stale \ Missing(p, answer)) ELSE passed
           /\ IF slice[p].first THEN UNCHANGED <<money, left>> ELSE Pays(0, c)
           /\ slice' = [slice EXCEPT ![p] = Answered(p, answer, c, fresh)]
  BY DEF CommitAnswer
<1>1. /\ Valid(p) \subseteq On(p) /\ LeftBlank(p, answer) \subseteq On(p)
      /\ blanked' = blanked \cup LeftBlank(p, answer)
      /\ \A o \in Object : text'[o] = IF o \in Valid(p) /\ answer[o] = "text" THEN "ai" ELSE text[o]
  BY <1>0, <1>a DEF Valid, LeftBlank
<1>c. c \in Nat /\ RequestsInv' /\ Good' = Good /\ HandsTyped' /\ stage' = stage
      /\ UNCHANGED <<skipped, owner, polishing>>
  BY <1>0, <1>a, QuietFrame, AiModeAssumption
<1>2. Grows
  <2>1. passed \subseteq passed'
    BY <1>a
  <2> QED BY <1>0, <1>1, <1>c, <2>1, AiInvParts DEF Grows, ObjectsTyped
<1>3. ObjectsTyped' /\ Evidence'
  <2>1. text' \in [Object -> {"none", "ai", "typed"}]
    BY <1>a, AiInvParts DEF ObjectsTyped
  <2>2. attempted' \subseteq attempted \cup LeftBlank(p, answer) /\ attempted \subseteq attempted'
    BY <1>a
  <2>3. passed' \subseteq passed \cup slice[p].stale
    BY <1>a
  <2>4. ObjectsTyped'
    BY <1>0, <1>1, <1>c, <2>1, <2>2, <2>3, AiInvParts DEF ObjectsTyped
  <2> QED BY <1>0, <1>1, <2>2, <2>4 DEF Evidence, AiInv
<1>4. /\ CountsTyped' /\ cost \in Nat
      /\ priced' => /\ priced /\ early' = early
                    /\ cost' = IF slice[p].first THEN cost ELSE cost + c
  <2>1. CountsTyped
    BY AiInvParts
  <2>2. early \in Nat /\ cost \in Nat /\ priced \in BOOLEAN /\ left \in [Ops -> Nat]
    BY <2>1 DEF CountsTyped
  <2>3. CASE slice[p].first
    <3>1. UNCHANGED <<early, cost, priced, left>>
      BY <1>a, <2>3 DEF money
    <3> QED BY <1>0, <2>2, <2>3, <3>1, QuietFrame
  <2>4. CASE ~slice[p].first
    <3>1. Pays(0, c)
      BY <1>a, <2>4
    <3>2. /\ early' \in Nat /\ cost' \in Nat /\ priced' \in BOOLEAN /\ left' \in [Ops -> Nat]
          /\ priced' => priced /\ early' = early + 0 /\ cost' = cost + c
      BY <1>c, <2>1, <3>1, PaysTyped
    <3> QED BY <1>0, <2>2, <2>4, <3>2, QuietFrame
  <2> QED BY <2>3, <2>4
<1>6. fresh \in SUBSET Object /\ c \in 0..MaxCost /\ SlicesTyped
  BY <1>0, <1>a, AiInvParts
<1> DEFINE missing == Missing(p, answer)
<1>b. PICK s \in SliceRecord :
        s = Answered(p, answer, c, fresh) /\ AnsweredAs(s, p, answer, c, fresh)
  BY <1>6, AnsweredShape
<1>7. /\ s.at = "art" /\ s.asked = slice[p].asked /\ s.first = slice[p].first
      /\ s.art = Drawn(p, answer) /\ s.fresh = fresh
      /\ s.todo = IF slice[p].first /\ missing # {} THEN <<missing>> ELSE slice[p].todo
      /\ s.blank = IF slice[p].first THEN {} ELSE slice[p].blank \cup LeftBlank(p, answer)
      /\ s.owed = (IF slice[p].first THEN c ELSE 0) /\ s.fruitless = slice[p].fruitless
  BY <1>b DEF AnsweredAs
<1>8. slice' = [slice EXCEPT ![p] = s] /\ slice'[p] = s
  BY <1>6, <1>a, <1>b DEF SlicesTyped
<1>9. SliceFrame(p, s)
  <2>1. s.art \subseteq On(p) /\ s.fresh \subseteq On(p) /\ s.blank \subseteq On(p)
    BY <1>1, <1>7, SliceHas DEF Drawn
  <2> QED BY <1>0, <1>2, <1>c, <1>7, <1>8, <2>1 DEF SliceFrame
<1>10. SliceFits(p)'
  <2>1. SliceFits(p)
    BY SliceHas
  <2>2. slice[p].fruitless < Rounds /\ (~slice[p].first => slice[p].todo # <<>>)
    BY <1>0, <2>1 DEF SliceFits
  <2>3. s.blank \subseteq blanked'
    BY <1>1, <1>7, <2>1 DEF SliceFits
  <2> QED BY <1>7, <1>8, <2>2, <2>3 DEF SliceFits
<1>11. Good' => Covered(p)'
  <2> SUFFICES ASSUME Good, Covered(p), p \notin skipped, p \notin excused
               PROVE  Open(p)' \subseteq Minded(s) \cup Copies'
    BY <1>0, <1>c, <1>8, SliceHas DEF Covered
  <2>0. Copies' = Copies
    BY <1>0, <1>c DEF Copies
  <2>1. Open(p) \subseteq Minded(slice[p]) \cup Copies
    BY <1>0 DEF Covered
  <2>2. Open(p)' \subseteq Open(p) \ {o \in Valid(p) : answer[o] # "missing"}
    <3>1. \A o \in Valid(p) : answer[o] \in {"text", "blank", "art", "missing"}
      BY <1>a DEF Valid
    <3> QED BY <1>0, <1>1, <1>2, <3>1 DEF Open, Grows, LeftBlank, On
  <2>3. CASE slice[p].first
    <3>0. Open(p)' \cap slice[p].stale \subseteq missing
      BY <1>a, <2>3 DEF Open
    <3>1. Open(p)' \subseteq missing \cup Copies
      BY <1>0, <2>1, <2>2, <2>3, <3>0 DEF Minded, Open, Valid, Missing
    <3>2. CASE missing = {}
      BY <2>0, <3>1, <3>2
    <3>3. CASE missing # {}
      <4>1. Minded(s) = Pending(<<missing>>)
        BY <1>7, <2>3, <3>3 DEF Minded
      <4>2. missing \in SUBSET Object
        BY <1>0 DEF Missing
      <4> QED BY <2>0, <3>1, <4>1, <4>2, PendingOne
    <3> QED BY <3>2, <3>3
  <2>4. CASE ~slice[p].first
    <3>1. Minded(s) = Minded(slice[p])
      BY <1>0, <1>7, <2>4 DEF Minded
    <3> QED BY <2>0, <2>1, <2>2, <3>1
  <2> QED BY <2>3, <2>4
<1>12. Cheaper(p, s)
  <2>1. Weight(slice[p]) = MaxCost /\ Weight(s) = s.owed /\ InGate(p)
    BY <1>0, <1>7 DEF Weight, InGate
  <2>2. s.owed = IF slice[p].first THEN c ELSE 0
    BY <1>7
  <2>3. ASSUME priced' PROVE priced /\ early' = early /\ cost' + Weight(s) <= cost + Weight(slice[p])
    <3>1. priced /\ early' = early /\ cost' = IF slice[p].first THEN cost ELSE cost + c
      BY <1>4, <2>3
    <3>2. cost' + s.owed = cost + c /\ c <= MaxCost
      <4> HIDE DEF missing
      <4> QED BY <1>4, <1>6, <2>2, <3>1, AiModeAssumption
    <3> QED BY <1>4, <2>1, <3>1, <3>2, AiModeAssumption
  <2> QED BY <2>1, <2>3 DEF Cheaper
<1> QED BY <1>3, <1>4, <1>9, <1>10, <1>11, <1>12, <1>c, SliceKeeps

LEMMA KeepArtKeeps == ASSUME AiInv, NEW p \in Page, KeepArt(p) PROVE AiInv'
<1> USE AiInvParts DEF KeepArt
<1>0. slice[p] \in SliceRecord /\ SliceFits(p) /\ slice[p].fruitless < Rounds
      /\ slice[p].owed \in Nat /\ slice[p].art \subseteq Object
  <2>1. slice[p] \in SliceRecord /\ SliceFits(p) /\ slice[p].art \subseteq Object
    BY SliceHas DEF On
  <2>2. slice[p].owed \in 0..MaxCost
    BY <2>1 DEF SliceRecord
  <2> QED BY <2>1, <2>2, AiModeAssumption DEF SliceFits
<1>a. /\ UNCHANGED <<present, text, attempted, disposition, dropped, blanked, passed, excused>>
      /\ RequestsInv' /\ Good' = Good /\ HandsTyped' /\ stage' = stage
      /\ UNCHANGED <<skipped, owner, polishing>>
  BY QuietFrame DEF marks, seen
<1>1. Grows /\ ObjectsTyped' /\ Evidence'
  BY <1>0, <1>a DEF Grows, ObjectsTyped, Evidence, AiInv
<1>2. /\ CountsTyped' /\ cost \in Nat
      /\ priced' => priced /\ early' = early /\ cost' \in Nat /\ cost' <= cost + slice[p].owed
  <2>1. early \in Nat /\ cost \in Nat /\ priced \in BOOLEAN /\ left \in [Ops -> Nat]
    BY DEF CountsTyped
  <2>2. CASE Pays(0, slice[p].owed)
    <3>1. /\ early' \in Nat /\ cost' \in Nat /\ priced' \in BOOLEAN /\ left' \in [Ops -> Nat]
          /\ priced' => priced /\ early' = early + 0 /\ cost' = cost + slice[p].owed
      BY <1>0, <2>2, PaysTyped
    <3>2. CountsTyped'
      BY <3>1, QuietFrame
    <3> QED BY <1>0, <2>1, <3>1, <3>2
  <2>3. CASE UNCHANGED <<money, left>>
    <3>1. UNCHANGED <<early, cost, priced, left>>
      BY <2>3 DEF money
    <3>2. CountsTyped'
      BY <2>1, <3>1, QuietFrame
    <3> QED BY <1>0, <2>1, <3>1, <3>2
  <2> QED BY <2>2, <2>3
<1> PICK s \in SliceRecord : s = Judged(p)
  BY <1>0, JudgedShape
<1>4. /\ s.at = IF slice[p].first
                THEN IF slice[p].fresh # {} THEN "box" ELSE AtRetry(slice[p].todo)
                ELSE "retry"
      /\ ~s.first /\ s.asked = {} /\ s.art = {}
      /\ s.fresh = slice[p].fresh /\ s.blank = slice[p].blank /\ s.todo = slice[p].todo
      /\ s.owed = IF slice[p].first THEN 0 ELSE slice[p].owed
  BY <1>0, JudgedShape
<1>5. s.at \in {"box", "retry", "done"} /\ (s.at = "retry" => s.todo # <<>>)
      /\ (s.at = "done" => s.todo = <<>>) /\ s.owed = 0
  BY <1>0, <1>4 DEF SliceFits, AtRetry
<1>6. slice' = [slice EXCEPT ![p] = s] /\ slice'[p] = s
  BY DEF SlicesTyped
<1>7. SliceFrame(p, s)
  BY <1>1, <1>4, <1>5, <1>6, <1>a, SliceHas DEF SliceFrame
<1>8. SliceFits(p)'
  BY <1>0, <1>4, <1>5, <1>6, <1>a DEF SliceFits
<1>9. Good' => Covered(p)'
  <2> SUFFICES ASSUME Good, Covered(p), p \notin skipped, p \notin excused
               PROVE  Open(p)' \subseteq Minded(s) \cup Copies'
    BY <1>6, <1>a, SliceHas DEF Covered
  <2>0. Copies' = Copies
    BY <1>a DEF Copies
  <2>1. Open(p) \subseteq Pending(s.todo) \cup Copies
    BY <1>4 DEF Covered, Minded
  <2>2. Open(p)' \subseteq Open(p)
    BY <1>1, <1>a DEF Open, Grows, On
  <2>3. Minded(s) = Pending(s.todo)
    BY <1>5, PendingNone DEF Minded
  <2> QED BY <2>0, <2>1, <2>2, <2>3
<1>10. Cheaper(p, s)
  BY <1>0, <1>2, <1>5 DEF Cheaper, InGate, Weight
<1> QED BY <1>1, <1>2, <1>7, <1>8, <1>9, <1>10, <1>a, SliceKeeps

LEMMA AddUnboxedKeeps == ASSUME AiInv, NEW p \in Page, AddUnboxed(p) PROVE AiInv'
<1>a. /\ slice[p].at = "box" /\ present' \in {present, present \cup slice[p].fresh}
      /\ LET todo == IF present' = present THEN slice[p].todo ELSE <<slice[p].fresh>> \o slice[p].todo
         IN slice' = [slice EXCEPT ![p] = Boxed(p, todo)]
      /\ UNCHANGED <<translating, early, cost, priced, left, text, preserved, attempted, disposition, dropped,
                     blanked, passed, excused>>
  BY DEF AddUnboxed, money, marks, seen
<1>0. /\ slice[p] \in SliceRecord /\ SliceFits(p) /\ slice[p].fresh \subseteq On(p)
      /\ slice[p].fresh \in SUBSET Object /\ slice[p].todo \in Seq(SUBSET Object)
  BY SliceHas DEF On
<1>2. /\ RequestsInv' /\ Good' = Good /\ CountsTyped' /\ HandsTyped' /\ stage' = stage
      /\ UNCHANGED <<skipped, owner, polishing>>
  BY <1>a, QuietFrame, AiInvParts DEF CountsTyped
<1>1. Grows /\ ObjectsTyped' /\ Evidence' /\ present' \subseteq present \cup slice[p].fresh
  BY <1>0, <1>2, <1>a, AiInvParts DEF Grows, ObjectsTyped, Evidence, AiInv
<1>b. PICK todo \in Seq(SUBSET Object) :
        todo = IF present' = present THEN slice[p].todo ELSE <<slice[p].fresh>> \o slice[p].todo
  BY <1>0, PendingAdded
<1>3. Pending(slice[p].todo) \cup (present' \ present) \subseteq Pending(todo)
  BY <1>0, <1>1, <1>b, PendingAdded
<1>c. SlicesTyped /\ todo \in Seq(SUBSET Object)
  BY <1>b, AiInvParts
<1> PICK s \in SliceRecord : s = Boxed(p, todo)
  BY <1>c, BoxedShape
<1>4. /\ s.at = AtRetry(todo) /\ s.fresh = {} /\ s.todo = todo /\ s.first = slice[p].first
      /\ s.asked = slice[p].asked /\ s.art = slice[p].art /\ s.blank = slice[p].blank
      /\ s.owed = slice[p].owed
  BY <1>c, BoxedShape
<1>5. /\ s.at \in {"retry", "done"} /\ (s.at = "retry" => s.todo # <<>>)
      /\ (s.at = "done" => s.todo = <<>>) /\ s.owed = 0 /\ ~s.first
  BY <1>0, <1>4, <1>a DEF SliceFits, AtRetry
<1>6. slice' = [slice EXCEPT ![p] = s] /\ slice'[p] = s
  BY <1>a, <1>b, <1>c DEF SlicesTyped
<1>7. SliceFrame(p, s)
  BY <1>0, <1>1, <1>2, <1>4, <1>5, <1>6, <1>a, SliceHas DEF SliceFrame
<1>8. SliceFits(p)'
  BY <1>0, <1>1, <1>4, <1>5, <1>6 DEF SliceFits, Grows
<1>9. Good' => Covered(p)'
  <2> SUFFICES ASSUME Good, Covered(p), p \notin skipped, p \notin excused
               PROVE  Open(p)' \subseteq Minded(s) \cup Copies'
    BY <1>2, <1>6, <1>a, SliceHas DEF Covered
  <2>0. Copies \subseteq Copies'
    BY <1>1, <1>2, CopiesKept
  <2>1. Open(p) \subseteq Pending(slice[p].todo) \cup Copies
    BY <1>a DEF Covered, Minded
  <2>2. Open(p)' \subseteq Open(p) \cup (present' \ present)
    BY <1>1, <1>a DEF Open, Grows, On
  <2>3. Minded(s) = Pending(todo)
    BY <1>4, <1>5, PendingNone DEF Minded
  <2> QED BY <1>3, <2>0, <2>1, <2>2, <2>3
<1>10. Cheaper(p, s)
  BY <1>0, <1>4, <1>5, <1>a, AiInvParts DEF Cheaper, InGate, Weight, CountsTyped
<1> QED BY <1>1, <1>2, <1>7, <1>8, <1>9, <1>10, SliceKeeps

\* The targets of the retries are open objects, and all of the first batch.
LEMMA TargetsAre ==
  ASSUME NEW p \in Page, SliceFits(p), slice[p].todo # <<>>, slice[p].todo \in Seq(SUBSET Object)
  PROVE  LET targets == Untranslated(p, Head(slice[p].todo), slice[p].blank)
         IN  /\ targets \subseteq On(p) /\ targets \in SUBSET Object
             /\ Open(p) \cap Pending(slice[p].todo)
                  \subseteq targets \cup Pending(Tail(slice[p].todo)) \cup Copies
<1>1. Pending(slice[p].todo) \subseteq Head(slice[p].todo) \cup Pending(Tail(slice[p].todo))
  BY PendingPopped
<1>2. Open(p) \cap Head(slice[p].todo)
        \subseteq Untranslated(p, Head(slice[p].todo), slice[p].blank) \cup Copies
  BY DEF Open, Untranslated, SliceFits
<1> QED BY <1>1, <1>2 DEF Untranslated, On

\* Once the first targets are dealt with.
LEMMA PoppedKeeps ==
  ASSUME AiInv, NEW p \in Page, slice[p].at \in {"retry", "restore"},
         slice' = [slice EXCEPT ![p] = Popped(p)], UNCHANGED <<translating, early, cost, priced, left>>,
         UNCHANGED <<present, disposition>>, ObjectsTyped', Evidence', Grows,
         p \in excused' \/ Open(p)' \cap Minded(slice[p]) \subseteq Pending(Tail(slice[p].todo)) \cup Copies
  PROVE  AiInv'
<1> USE AiInvParts
<1>0. slice[p] \in SliceRecord /\ SliceFits(p) /\ slice[p].todo # <<>> /\ slice[p].owed = 0
  BY SliceHas DEF SliceFits
<1>1. /\ RequestsInv' /\ Good' = Good /\ CountsTyped' /\ HandsTyped' /\ stage' = stage
      /\ UNCHANGED <<skipped, owner, polishing>>
  BY QuietFrame DEF CountsTyped
<1> PICK todo : todo = Tail(slice[p].todo)
  OBVIOUS
<1> PICK s \in SliceRecord : s = Popped(p)
  BY <1>0, PoppedShape
<1>2. /\ s.at = AtRetry(todo) /\ s.first = (todo = <<>>) /\ s.todo = todo
      /\ s.asked = {} /\ s.art = {} /\ s.fresh = {} /\ s.blank = {} /\ s.owed = 0
  BY <1>0, PoppedShape
<1>3. /\ s.at \in {"retry", "done"} /\ (s.at = "retry" => s.todo # <<>> /\ ~s.first)
      /\ (s.at = "done" => s.todo = <<>>)
  BY <1>2 DEF AtRetry
<1>4. slice' = [slice EXCEPT ![p] = s] /\ slice'[p] = s
  BY DEF SlicesTyped
<1>5. SliceFrame(p, s)
  BY <1>1, <1>2, <1>3, <1>4 DEF SliceFrame
<1>6. SliceFits(p)'
  BY <1>2, <1>3, <1>4 DEF SliceFits
<1>7. Good' => Covered(p)'
  <2> SUFFICES ASSUME Good, Covered(p), p \notin skipped, p \notin excused'
               PROVE  Open(p)' \subseteq Minded(s) \cup Copies'
    BY <1>1, <1>4, SliceHas DEF Covered
  <2>0. Copies' = Copies
    BY <1>1 DEF Copies
  <2>1. Open(p) \subseteq Minded(slice[p]) \cup Copies
    BY DEF Covered, Grows
  <2>2. Open(p)' \subseteq Open(p)
    BY OpenBefore DEF Open
  <2>3. Minded(s) = Pending(todo)
    BY <1>2, <1>3, PendingNone DEF Minded
  <2> QED BY <2>0, <2>1, <2>2, <2>3
<1>8. Cheaper(p, s)
  <2>1. Weight(s) = 0 /\ Weight(slice[p]) = 0 /\ InGate(p)
    BY <1>0, <1>2, <1>3 DEF InGate, Weight
  <2> QED BY <2>1 DEF Cheaper, CountsTyped
<1> QED BY <1>1, <1>5, <1>6, <1>7, <1>8, SliceKeeps

LEMMA RetryKeeps == ASSUME AiInv, NEW p \in Page, Retry(p) PROVE AiInv'
<1> USE AiInvParts
<1>0. /\ slice[p].at = "retry" /\ ~slice[p].first /\ slice[p].todo # <<>> /\ slice[p].owed = 0
      /\ SliceFits(p) /\ slice[p] \in SliceRecord /\ slice[p].todo \in Seq(SUBSET Object)
      /\ UNCHANGED <<translating, early, cost, priced, left, present, text, preserved, attempted, disposition,
                     dropped, blanked, passed, excused>>
  BY SliceHas DEF Retry, SliceFits, money, objects, marks, seen
<1>1. /\ RequestsInv' /\ Good' = Good /\ CountsTyped' /\ HandsTyped' /\ stage' = stage
      /\ UNCHANGED <<skipped, owner, polishing>>
  BY <1>0, QuietFrame DEF CountsTyped
<1>2. ObjectsTyped' /\ Evidence' /\ Grows /\ present' = present /\ excused' = excused
      /\ Open(p)' = Open(p) /\ Copies' = Copies
  BY <1>0, <1>1 DEF ObjectsTyped, Evidence, AiInv, Grows, Open, Copies, On
<1> DEFINE targets == Untranslated(p, Head(slice[p].todo), slice[p].blank)
<1>3. /\ targets \subseteq On(p) /\ targets \in SUBSET Object
      /\ Open(p) \cap Pending(slice[p].todo) \subseteq targets \cup Pending(Tail(slice[p].todo)) \cup Copies
  BY <1>0, TargetsAre
<1>4. \/ /\ slice[p].fruitless < Rounds /\ HasBudget
         /\ \E batch \in SUBSET targets : slice' = [slice EXCEPT ![p] = Asks(p, batch)]
      \/ targets = {} /\ slice' = [slice EXCEPT ![p] = Popped(p)]
      \/ slice' = [slice EXCEPT ![p] = GivenUp(p, targets)]
  BY DEF Retry, kSubset
<1> HIDE DEF targets
<1>5. CASE targets = {} /\ slice' = [slice EXCEPT ![p] = Popped(p)]
  <2>1. Minded(slice[p]) = Pending(slice[p].todo)
    BY <1>0 DEF Minded
  <2> QED BY <1>0, <1>2, <1>3, <1>5, <2>1, PoppedKeeps
<1>6. ASSUME NEW s \in SliceRecord, slice' = [slice EXCEPT ![p] = s], s.todo = slice[p].todo,
             s.at \in {"asking", "restore"}, ~s.first, s.asked \subseteq On(p),
             s.owed = 0, s.blank = slice[p].blank, s.art = slice[p].art, s.fresh = slice[p].fresh,
             s.at = "asking" => s.fruitless < Rounds /\ HasBudget,
             s.at = "restore" => s.asked = targets
      PROVE  AiInv'
  <2>1. slice'[p] = s
    BY <1>6 DEF SlicesTyped
  <2>2. SliceFrame(p, s)
    BY <1>0, <1>1, <1>2, <1>6, SliceHas DEF SliceFrame
  <2>3. SliceFits(p)'
    BY <1>0, <1>2, <1>6, <2>1 DEF SliceFits, Grows
  <2>4. Good' => Covered(p)'
    <3> SUFFICES ASSUME Good, Covered(p), p \notin skipped, p \notin excused
                 PROVE  Open(p)' \subseteq Minded(s) \cup Copies'
      BY <1>1, <1>2, <2>1, SliceHas DEF Covered
    <3>1. Open(p) \subseteq Pending(slice[p].todo) \cup Copies
      BY <1>0 DEF Covered, Minded
    <3>2. CASE s.at = "asking"
      BY <1>2, <1>6, <3>1, <3>2 DEF Minded
    <3>3. CASE s.at = "restore"
      BY <1>2, <1>3, <1>6, <3>1, <3>3 DEF Minded
    <3> QED BY <1>6, <3>2, <3>3
  <2>5. CASE s.at = "asking"
    <3>1. UNCHANGED <<early, cost, priced>> /\ HasBudget
      BY <1>0, <1>6, <2>5
    <3>2. Gate' = Gate
      BY <1>0, <1>6, <2>1, <2>5 DEF Gate, InGate, SlicesTyped
    <3>3. Affordable
      BY <3>1, <3>2 DEF Affordable, AiInv, BudgetFits
    <3> QED BY <1>1, <1>2, <2>2, <2>3, <2>4, <3>3, SliceKeeps
  <2>6. CASE s.at = "restore"
    <3>1. Cheaper(p, s)
      BY <1>0, <1>6, <2>6 DEF Cheaper, InGate, Weight, CountsTyped
    <3> QED BY <1>1, <1>2, <2>2, <2>3, <2>4, <3>1, SliceKeeps
  <2> QED BY <1>6, <2>5, <2>6
<1>7. CASE slice' = [slice EXCEPT ![p] = GivenUp(p, targets)]
  <2> PICK s \in SliceRecord : s = GivenUp(p, targets)
    BY <1>3, GivenUpShape
  <2>1. /\ s.at = "restore" /\ s.asked = targets /\ s.first = slice[p].first
        /\ s.todo = slice[p].todo /\ s.blank = slice[p].blank /\ s.owed = slice[p].owed
        /\ s.art = slice[p].art /\ s.fresh = slice[p].fresh
    BY <1>3, GivenUpShape
  <2> QED BY <1>0, <1>3, <1>6, <1>7, <2>1
<1>8. ASSUME slice[p].fruitless < Rounds, HasBudget,
             NEW batch \in SUBSET targets, slice' = [slice EXCEPT ![p] = Asks(p, batch)]
      PROVE  AiInv'
  <2>1. batch \in SUBSET Object /\ batch \subseteq On(p)
    BY <1>3, <1>8
  <2> PICK s \in SliceRecord : s = Asks(p, batch)
    BY <2>1, AsksShape
  <2>2. /\ s.at = "asking" /\ s.asked = batch /\ s.first = slice[p].first
        /\ s.todo = slice[p].todo /\ s.blank = slice[p].blank /\ s.owed = slice[p].owed
        /\ s.art = slice[p].art /\ s.fresh = slice[p].fresh /\ s.fruitless = slice[p].fruitless
    BY <2>1, AsksShape
  <2> QED BY <1>0, <1>6, <1>8, <2>1, <2>2
<1> QED BY <1>4, <1>5, <1>7, <1>8

LEMMA RestoreKeeps == ASSUME AiInv, NEW p \in Page, Restore(p) PROVE AiInv'
<1>1. /\ slice[p].at = "restore" /\ slice' = [slice EXCEPT ![p] = Popped(p)]
      /\ UNCHANGED <<translating, early, cost, priced, left, present, text, attempted, disposition, dropped,
                     blanked, passed>>
      /\ \/ preserved' = preserved \cup slice[p].asked /\ UNCHANGED excused
         \/ excused' = excused \cup {p} /\ UNCHANGED preserved
  BY DEF Restore, money, marks
<1>2. slice[p].asked \subseteq Object
  BY SliceHas DEF On
<1>6. UNCHANGED <<skipped, owner, polishing>>
  BY <1>1, QuietFrame
<1>3. ObjectsTyped' /\ Evidence' /\ Grows
  BY <1>1, <1>2, <1>6, AiInvParts DEF ObjectsTyped, Evidence, AiInv, Grows
<1>4. Minded(slice[p]) = slice[p].asked \cup Pending(Tail(slice[p].todo))
  BY <1>1 DEF Minded
<1>5. p \in excused' \/ Open(p)' \cap Minded(slice[p]) \subseteq Pending(Tail(slice[p].todo)) \cup Copies
  BY <1>1, <1>4 DEF Open
<1> QED BY <1>1, <1>3, <1>5, PoppedKeeps

\* An error nobody catches: the job has ended, so that nothing is promised any more.
LEMMA EscapesKeep == ASSUME AiInv, NEW p \in Page, Escapes(p) PROVE AiInv'
<1> USE AiInvParts DEF Escapes, money, cuts, objects, marks, hands, seen
<1> PICK s \in SliceRecord : s = [NoSlice EXCEPT !.at = "done"]
  BY AtRest
<1>1. /\ s.at = "done" /\ s.first /\ s.todo = <<>> /\ s.asked = {} /\ s.art = {}
      /\ s.fresh = {} /\ s.blank = {} /\ s.owed = 0
  BY AtRest
<1>2. slice' = [slice EXCEPT ![p] = s] /\ slice'[p] = s
  BY DEF SlicesTyped
<1>3. RequestsInv' /\ ~Good' /\ stage' \in {stage, "over"}
  <2>1. CASE Running
    <3>1. Fails
      BY <2>1
    <3>2. RequestsInv'
      BY <2>1, <3>1, StageEnds
    <3>3. status'[worker'] = "failed"
      BY <2>1, <3>1 DEF Fails, Ends, Running, RequestsInv, RequestsTyped
    <3> QED BY <3>1, <3>2, <3>3 DEF Fails, Good
  <2>2. CASE ~Running
    <3>1. RequestsInv' /\ Good' = Good /\ stage' = stage
      BY <2>2, Unmoved
    <3>2. slice[p].at \notin {"off", "done"}
      BY DEF InGate
    <3>3. stage # "off"
      BY <3>2 DEF AiInv, SlicesRest
    <3>4. stage = "over"
      BY <2>2, <3>3 DEF Running, RequestsInv, StageFits
    <3>5. ~Good
      BY <3>2, <3>4 DEF AiInv, SlicesRest
    <3> QED BY <3>1, <3>5
  <2> QED BY <2>1, <2>2
<1>4. CountsTyped' /\ ObjectsTyped' /\ HandsTyped' /\ Evidence' /\ Grows
  BY UsedTyped, HandsStay DEF CountsTyped, ObjectsTyped, Ops, Evidence, AiInv, Grows
<1>5. SliceFrame(p, s)
  BY <1>1, <1>2, <1>3, <1>4 DEF SliceFrame, InGate
<1>6. SliceFits(p)'
  BY <1>1, <1>2 DEF SliceFits
<1>7. Cheaper(p, s)
  BY <1>1, SliceHas, AiModeAssumption DEF Cheaper, Weight, CountsTyped
<1> QED BY <1>3, <1>4, <1>5, <1>6, <1>7, SliceKeeps

-----------------------------------------------------------------------------
LEMMA AiInitHolds == AiInit => AiInv
<1> SUFFICES ASSUME AiInit PROVE AiInv
  OBVIOUS
<1> USE DEF AiInit
<1> PICK off \in SliceRecord : off = NoSlice
  BY NoSliceTyped
<1>1. /\ off.at = "off" /\ off.first /\ off.asked = {} /\ off.art = {} /\ off.fresh = {}
      /\ off.blank = {} /\ off.owed = 0 /\ off = [NoSlice EXCEPT !.at = off.at]
  BY DEF NoSlice
<1>2. \A p \in Page : slice[p] = off
  OBVIOUS
<1>3. RequestsTyped /\ RequestsFit /\ StageFits /\ Good
  BY AiModeAssumption DEF RequestsTyped, RequestsFit, RequestFits, StageFits, Good, Active, StageSet, Outcomes
<1>4. CountsTyped /\ OwnersTyped
  <2>1. PICK setup \in Setups : left = setup.left /\ owner = setup.owner
    OBVIOUS
  <2>2. setup \in [hidden : SUBSET Object, owner : [Object -> Object \cup {None}], left : [Ops -> Nat]]
    BY AiModeAssumption
  <2>3. \A o \in Object : setup.owner[o] # None => setup.owner[setup.owner[o]] = None
    BY AiModeAssumption
  <2> QED BY <2>1, <2>2, <2>3 DEF CountsTyped, OwnersTyped
<1>5. SlicesTyped
  BY <1>1, <1>2 DEF SlicesTyped, On
<1>6. ObjectsTyped /\ HandsTyped
  <2>1. PenTyped
    <3>1. 1 \in 1..Pages + 1
      BY AiModeAssumption
    <3> QED BY <3>1 DEF PenTyped, NoPen
  <2> QED BY <1>4, <2>1 DEF ObjectsTyped, HandsTyped
<1>7. SlicesRest /\ SlicesFit
  BY <1>1, <1>2 DEF SlicesRest, SlicesFit, SliceFits
<1>8. AllCovered /\ Evidence
  BY <1>1, <1>2 DEF AllCovered, Covered, Evidence
<1>9. BudgetFits
  <2>1. Total(WeightBy, Page) = 0
    BY <1>1, <1>2, <1>7, NothingOwedYet
  <2>2. Gate = {}
    BY <1>1, <1>2 DEF Gate, InGate
  <2>3. Cardinality(Gate) <= Concurrency
    BY <2>2, FS_EmptySet, AiModeAssumption
  <2> QED BY <2>1, <2>3 DEF BudgetFits, SpendingFits
<1>10. Explained /\ Marked
  BY DEF Explained, Late, Marked
<1> QED BY <1>3, <1>4, <1>5, <1>6, <1>7, <1>8, <1>9, <1>10, TypesAre DEF AiInv

LEMMA AiStepKeeps == ASSUME AiInv, [AiNext]_aiVars PROVE AiInv'
<1>1. CASE UNCHANGED aiVars
  BY <1>1, StutterKeeps
<1>2. ASSUME NEW r \in Caller, StartLocal(r) \/ Ask(r) \/ RequestStep(r) PROVE AiInv'
  BY <1>2, RequestsKeep
<1>3. CASE StageStep
  BY <1>3, StagesKeep
<1>4. ASSUME NEW p \in Page, SliceStep(p) PROVE AiInv'
  BY <1>4, AdmitKeeps, CallFailsKeeps, CommitAnswerKeeps, KeepArtKeeps, AddUnboxedKeeps, RetryKeeps,
     RestoreKeeps, EscapesKeep DEF SliceStep
<1>5. CASE Cancel
  BY <1>5, CancelKeeps
<1>6. ASSUME NEW o \in Object, Types(o) PROVE AiInv'
  BY <1>6, TypesKeeps
<1>7. ASSUME NEW p \in Page, Repaints(p) PROVE AiInv'
  BY <1>7, RepaintsKeep
<1>8. ASSUME NEW o \in Object, Moves(o) PROVE AiInv'
  BY <1>8, MovesKeep
<1> QED BY <1>1, <1>2, <1>3, <1>4, <1>5, <1>6, <1>7, <1>8 DEF AiNext

\* Every state of A.I mode satisfies the inductive invariant (ai_mode/job.py).
THEOREM AiInvariant == AiSpec => []AiInv
<1>1. AiInit => AiInv
  BY AiInitHolds
<1>2. AiInv /\ [AiNext]_aiVars => AiInv'
  BY AiStepKeeps
<1> QED BY <1>1, <1>2, PTL DEF AiSpec

-----------------------------------------------------------------------------
(* What follows from it. *)

\* One A.I mode job at a time, and a reserved one is settled as it ended: start_ai_mode
\* looks again at the running jobs when it has its reservation (routers/ai_mode.py).
THEOREM JobIsOK == AiSpec => []JobOK
<1>1. AiInv => JobOK
  <2> SUFFICES ASSUME AiInv PROVE JobOK
    OBVIOUS
  <2>1. OneJob
    <3>1. CASE Active = {}
      BY <3>1, FS_EmptySet DEF OneJob
    <3>2. CASE Active # {}
      <4>1. PICK r \in Active : TRUE
        BY <3>2
      <4>2. Active = {r}
        BY <4>1 DEF AiInv, RequestsFit
      <4>3. Cardinality({r}) = 1
        BY FS_Singleton
      <4> QED BY <4>2, <4>3 DEF OneJob
    <3> QED BY <3>1, <3>2
  <2>2. ReservationSettled
    <3> SUFFICES ASSUME NEW r \in Cloud
                 PROVE  /\ reservation[r] = "open" =>
                             request[r] \in {"starting", "refused", "running", "ending"}
                        /\ reservation[r] \in Outcomes =>
                             reservation[r] = IF status[r] = "none" THEN "cancelled" ELSE status[r]
      BY DEF ReservationSettled
    <3>1. r \in Caller
      BY AiModeAssumption
    <3>2. RequestFits(r) /\ RequestsTyped
      BY <3>1, AiInvParts DEF AiInv, RequestsFit, RequestsInv
    <3> QED BY <3>1, <3>2 DEF RequestFits, RequestsTyped, Outcomes
  <2> QED BY <2>1, <2>2 DEF JobOK, AiInv
<1> QED BY <1>1, AiInvariant, PTL

\* The calls in flight, which read the budget side by side, overdraw it by no more than what
\* they cost, retries included (_translate_slice in ai_mode/job.py).
THEOREM BudgetIsKept == AiSpec => []BudgetKept
<1>1. AiInv => BudgetKept
  <2> SUFFICES ASSUME AiInv PROVE BudgetKept
    OBVIOUS
  <2> PICK o : o = OwedBy
    OBVIOUS
  <2> PICK w : w = WeightBy
    OBVIOUS
  <2>1. \A p \in Page : o[p] \in Nat /\ w[p] \in Nat /\ o[p] <= w[p]
    <3> TAKE p \in Page
    <3>1. o[p] = slice[p].owed /\ w[p] = Weight(slice[p])
      BY DEF OwedBy, WeightBy
    <3>2. slice[p].owed \in 0..MaxCost
      BY SliceHas DEF SliceRecord
    <3>3. slice[p].at = "asking" => slice[p].owed = 0
      BY SliceHas DEF SliceFits
    <3> QED BY <3>1, <3>2, <3>3, AiModeAssumption DEF Weight
  <2> PICK d : d = [p \in Page |-> w[p] - o[p]]
    OBVIOUS
  <2>2. \A p \in Page : d[p] \in Nat /\ w[p] = d[p] + o[p]
    BY <2>1
  <2>3. Total(w, Page) = Total(d, Page) + Total(o, Page)
    <3>1. \A p \in Page : o[p] \in Int /\ d[p] \in Int /\ w[p] = d[p] + o[p]
      BY <2>1, <2>2
    <3> QED BY <3>1, PageFinite, TotalPlus
  <2>4. PICK a \in Nat, b \in Nat : a = Total(d, Page) /\ b = Total(o, Page)
    <3>1. \A p \in Page : o[p] \in Nat /\ d[p] \in Nat
      BY <2>1, <2>2
    <3>2. Total(d, Page) \in Nat /\ Total(o, Page) \in Nat
      BY <3>1, PageFinite, TotalNat
    <3> QED BY <3>2
  <2>5. PICK m \in Nat : m = Budget + Concurrency * MaxCost
    BY AiModeAssumption
  <2>6. cost \in Nat /\ early \in Nat
    BY AiInvParts DEF CountsTyped
  <2>7. priced => cost + (a + b) = 0 \/ early + cost + (a + b) < m
    BY <2>3, <2>4, <2>5 DEF AiInv, BudgetFits, SpendingFits
  <2>8. priced => cost + b = 0 \/ early + (cost + b) < m
    BY <2>4, <2>5, <2>6, <2>7
  <2>9. SpentOnSlices = cost + b
    BY <2>4 DEF SpentOnSlices, Total
  <2> QED BY <2>5, <2>8, <2>9 DEF BudgetKept
<1> QED BY <1>1, AiInvariant, PTL

\* An object blocks the export of a completed job only for a reason, copies, texts that were
\* dropped and objects edited under a call included (_run_job, _settle_blanks).
THEOREM NoneIsForgotten == AiSpec => []NoneForgotten
<1>1. AiInv => NoneForgotten
  <2> SUFFICES ASSUME AiInv, worker # None, status[worker] = "completed", NEW o \in Object, Blocks(o)
               PROVE  Excused(o)
    BY DEF NoneForgotten
  <2>1. Late
    BY DEF AiInv, StageFits, Good, Late
  <2>2. CASE disposition[o] = "untranslated"
    BY <2>2 DEF AiInv, Marked
  <2>3. CASE text[o] = "none"
    BY <2>1, <2>3 DEF AiInv, Explained, Blocks
  <2> QED BY <2>2, <2>3 DEF Blocks
<1> QED BY <1>1, AiInvariant, PTL

\* Text is dismissed as no story text only when the model saw it and left it blank.
THEOREM DismissalHasEvidence == AiSpec => []DismissedOnEvidence
<1>1. AiInv => DismissedOnEvidence
  BY DEF AiInv, Evidence, DismissedOnEvidence
<1> QED BY <1>1, AiInvariant, PTL

\* An answer is committed only where nothing was typed meanwhile; polish, the seams and the
\* lettering write over it where they say.
Rewritten(o) ==
  \/ stage = "polish" /\ o \in polishing
  \/ stage \in {"translate", "polish"} /\ stage' # stage
     /\ (o \in dropped' \/ (o \in Copies /\ text'[owner[o]] # "none"))
  \/ stage = "letter" /\ pen.out /\ o \in pen.old

KeepsTyped == \A o \in Object : text[o] = "typed" /\ text'[o] # "typed" => Rewritten(o)

\* Where the seams write.
LEMMA SeamsRewrite ==
  ASSUME AiInv, Translated \/ Polish
  PROVE  KeepsTyped
<1>1. /\ ObjectsTyped /\ CountsTyped /\ HandsTyped /\ RequestsInv
      /\ Running /\ stage \in {"translate", "polish"} /\ stage' # stage
  <2>1. RequestsInv /\ Running /\ stage \in {"translate", "polish"} /\ (Advance \/ Fails)
    BY AiInvParts DEF Translated, Polish
  <2>2. stage' # stage
    BY <2>1, StageEnds, AfterIs
  <2> QED BY <2>1, <2>2, AiInvParts
<1>2. text \in [Object -> {"none", "ai", "typed"}]
  BY <1>1 DEF ObjectsTyped
<1>3. CASE UNCHANGED text
  BY <1>3 DEF KeepsTyped
<1>4. CASE SyncSeams(text)
  <2>1. \A o \in Object : text[o] = "typed" /\ text'[o] # "typed" =>
          o \in dropped' \/ (o \in Copies /\ text'[owner[o]] # "none")
    BY <1>1, <1>2, <1>4, SeamsSynced
  <2> QED BY <1>1, <2>1 DEF KeepsTyped, Rewritten
<1>5. ASSUME NEW kept \in SUBSET polishing, stage = "polish",
             SyncSeams([o \in Object |-> IF o \in kept THEN "ai" ELSE text[o]])
      PROVE  KeepsTyped
  <2>1. PICK t : t = [o \in Object |-> IF o \in kept THEN "ai" ELSE text[o]]
    OBVIOUS
  <2>2. t \in [Object -> {"none", "ai", "typed"}]
    BY <1>2, <2>1
  <2>3. \A o \in Object : t[o] = "typed" /\ text'[o] # "typed" =>
          o \in dropped' \/ (o \in Copies /\ text'[owner[o]] # "none")
    BY <1>1, <1>5, <2>1, <2>2, SeamsSynced
  <2> SUFFICES ASSUME NEW o \in Object, text[o] = "typed", text'[o] # "typed" PROVE Rewritten(o)
    BY DEF KeepsTyped
  <2>4. CASE o \in kept
    BY <1>5, <2>4 DEF Rewritten
  <2>5. CASE o \notin kept
    <3>1. t[o] = "typed"
      BY <2>1, <2>5
    <3> QED BY <1>1, <2>3, <3>1 DEF Rewritten
  <2> QED BY <2>4, <2>5
<1> QED BY <1>3, <1>4, <1>5 DEF Translated, Polish

THEOREM TypedIsKept == AiSpec => TypedKept
<1>1. AiInv /\ [AiNext]_aiVars => [KeepsTyped]_aiVars
  <2> SUFFICES ASSUME AiInv, AiNext PROVE KeepsTyped
    OBVIOUS
  <2>1. text \in [Object -> {"none", "ai", "typed"}]
    BY AiInvParts DEF ObjectsTyped
  <2>2. CASE UNCHANGED text
    BY <2>2 DEF KeepsTyped
  <2>3. CASE Translated \/ Polish
    BY <2>3, SeamsRewrite
  <2>4. ASSUME NEW o \in Object, Types(o) PROVE KeepsTyped
    BY <2>1, <2>4 DEF Types, KeepsTyped
  <2>5. ASSUME NEW p \in Page, CommitAnswer(p) PROVE KeepsTyped
    <3>1. PICK done \in SUBSET Valid(p) :
            text' = [o \in Object |-> IF o \in done THEN "ai" ELSE text[o]]
      BY <2>5 DEF CommitAnswer
    <3>2. \A o \in done : text[o] = "none"
      BY <3>1 DEF Valid
    <3> QED BY <3>1, <3>2 DEF KeepsTyped
  <2>6. ASSUME NEW p \in Page, SliceStep(p), ~CommitAnswer(p) PROVE UNCHANGED text
    BY <2>6 DEF SliceStep, Admit, CallFails, KeepArt, AddUnboxed, Retry, Restore, Escapes, objects
  <2>7. CASE Letter
    BY <2>7 DEF Letter, KeepsTyped, Rewritten
  <2>8. StageStep /\ ~(Translated \/ Polish \/ Letter) => UNCHANGED text
    BY DEF StageStep, PlainStage, Scan, Review, SettleBlanks, ReadTexts, Lettered, objects
  <2>9. ASSUME NEW r \in Caller, StartLocal(r) \/ Ask(r) \/ RequestStep(r) PROVE UNCHANGED text
    BY <2>9 DEF StartLocal, Ask, RequestStep, Reserve, Start, Settle, OtherEnds, chapter, objects
  <2>10. ASSUME Cancel \/ (\E p \in Page : Repaints(p)) \/ (\E o \in Object : Moves(o)) PROVE UNCHANGED text
    BY <2>10 DEF Cancel, Repaints, Moves, objects
  <2> QED BY <2>2, <2>3, <2>4, <2>5, <2>6, <2>7, <2>8, <2>9, <2>10 DEF AiNext
<1>2. AiSpec => [][KeepsTyped]_aiVars
  BY <1>1, AiInvariant, PTL DEF AiSpec
<1> QED BY <1>2 DEF TypedKept, KeepsTyped, Rewritten
=============================================================================
