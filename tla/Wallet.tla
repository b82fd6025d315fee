------------------------------- MODULE Wallet -------------------------------
(***************************************************************************)
(* The prepaid wallet of the Manga Cloud gateway (gateway/store.py) and    *)
(* the handlers of gateway/app.py and gateway/billing.py that drive it,    *)
(* for one account: rows of different accounts never meet.                 *)
(*                                                                         *)
(* Every method of Store is one transaction (_write holds a lock and       *)
(* BEGIN IMMEDIATE), hence one action.  What interleaves is the handlers:  *)
(* a token is checked in one transaction and used in a later one, a chat   *)
(* request holds money, waits for the upstream and is charged afterwards,  *)
(* and the payment providers deliver their webhooks late, twice or in the  *)
(* wrong order.  A handler that passed its token check may be delayed      *)
(* until after the job was closed or the account deleted, so no action     *)
(* below that a checked handler takes asks for an active job again.        *)
(***************************************************************************)
EXTENDS Integers, FiniteSets, FiniteSetsExt

CONSTANTS
  Payment,       \* top-ups started
  Job,           \* chapters: one job each
  Call,          \* A.I requests (chat completions and judge questions)
  Credit,        \* what a top-up credits
  AdjustAmount,  \* what an admin may credit or debit
  HoldAmount,    \* what a request may be expected to cost (_held_usd)
  CostAmount,    \* what the upstream may report: _held_usd is an estimate
  MinBalance,    \* what reserve_job asks to be available
  Guard,         \* JOB_COST_GUARD_USD
  MaxRequests,   \* JOB_MAX_REQUESTS
  FeeNum, FeeDen,  \* fee_rate
  MaxAdjusts     \* bound of the model: admin adjustments made

ASSUME WalletAssumption ==
  /\ Payment \cap Job = {} /\ "adjust" \notin Payment \cup Job
  /\ Credit \in Nat /\ AdjustAmount \subseteq Int
  /\ HoldAmount \subseteq Nat /\ CostAmount \subseteq Nat
  /\ MinBalance \in Nat /\ Guard \in Nat /\ MaxRequests \in Nat /\ MaxAdjusts \in Nat
  /\ FeeNum \in Nat /\ FeeDen \in Nat \ {0}
  /\ IsFiniteSet(Payment) /\ IsFiniteSet(Job) /\ IsFiniteSet(Call)

VARIABLES
  balance,   \* accounts.balance_micros
  held,      \* accounts.held_micros
  payments,  \* payments.status, "none" before create_payment
  jobs,      \* the jobs table
  lines,     \* ledger: number of lines that refer to a payment, a job or an adjustment
  moved,     \* ledger: sum of their delta_micros
  calls,     \* requests from begin_request on; "unread" when their answer could not be read
  adjusts,   \* history: admin adjustments made
  forgiven,  \* history: what refunds, debits and costs beyond the estimate took
  overrun,   \* history: per job, cost beyond the estimates
  heard      \* history: webhooks the gateway has answered, per payment

wallet == <<balance, held>>
ledger == <<lines, moved>>
history == <<adjusts, forgiven, overrun, heard>>
vars == <<wallet, payments, jobs, ledger, calls, history>>

Ref == Payment \cup Job \cup {"adjust"}
Closed == {"completed", "expired", "cancelled"}
NoJob == [status |-> "none", cost |-> 0, cap |-> 0, reserved |-> 0, charged |-> 0, requests |-> 0]

TypeOK ==
  /\ balance \in Int
  /\ held \in Nat
  /\ payments \in [Payment -> {"none", "pending", "paid", "amount_mismatch", "refunded"}]
  /\ jobs \in [Job -> [status : {"none", "active"} \cup Closed, cost : Nat, cap : Nat,
                       reserved : Nat, charged : Nat, requests : Nat]]
  /\ lines \in [Ref -> Nat]
  /\ moved \in [Ref -> Int]
  /\ calls \in [Call -> [at : {"unsent", "flight", "unread", "over"}, job : Job \cup {"none"}, held : Nat]]
  /\ adjusts \in 0..MaxAdjusts
  /\ forgiven \in Nat
  /\ overrun \in [Job -> Nat]
  /\ heard \in [Payment -> SUBSET {"paid", "refunded"}]

Init ==
  /\ balance = 0 /\ held = 0
  /\ payments = [p \in Payment |-> "none"]
  /\ jobs = [j \in Job |-> NoJob]
  /\ lines = [x \in Ref |-> 0]
  /\ moved = [x \in Ref |-> 0]
  /\ calls = [c \in Call |-> [at |-> "unsent", job |-> "none", held |-> 0]]
  /\ adjusts = 0 /\ forgiven = 0
  /\ overrun = [j \in Job |-> 0]
  /\ heard = [p \in Payment |-> {}]
-----------------------------------------------------------------------------
(* Helpers. *)

\* int(round(cost * (1 + fee_rate))), and round() takes a half to the even neighbour.
Price(cost) ==
  LET n == cost * (FeeDen + FeeNum)
      q == n \div FeeDen
      twice == 2 * (n % FeeDen)
  IN  IF twice > FeeDen \/ (twice = FeeDen /\ q % 2 = 1) THEN q + 1 ELSE q

Available == balance - held

\* _book: the balance moves and the ledger gets a line, in one transaction.
Book(ref, delta) ==
  /\ balance' = balance + delta
  /\ lines' = [lines EXCEPT ![ref] = @ + 1]
  /\ moved' = [moved EXCEPT ![ref] = @ + delta]

\* _close_job for the jobs of S: the balance has moved already, the ledger gets a line
\* for each chapter that was charged.
CloseJobs(S, status) ==
  LET booked == {j \in S : jobs[j].charged # 0}
  IN  /\ jobs' = [j \in Job |-> IF j \in S THEN [jobs[j] EXCEPT !.status = status] ELSE jobs[j]]
      /\ lines' = [x \in Ref |-> lines[x] + (IF x \in booked THEN 1 ELSE 0)]
      /\ moved' = [x \in Ref |-> moved[x] - (IF x \in booked THEN jobs[x].charged ELSE 0)]

Flight == {c \in Call : calls[c].at = "flight"}

\* The requests whose hold has not been freed.
Holding == {c \in Call : calls[c].at \in {"flight", "unread"}}
HoldingOf(j) == {c \in Holding : calls[c].job = j}

\* What the members of S weigh together.
Total(weight, S) == MapThenSumSet(LAMBDA x : weight[x], S)

HeldOf == [c \in Call |-> calls[c].held]
PriceOf == [c \in Call |-> Price(calls[c].held)]
-----------------------------------------------------------------------------
(* Money in: admin adjustments, checkouts and the providers' webhooks.      *)

Adjust ==
  /\ adjusts < MaxAdjusts
  /\ \E d \in AdjustAmount :
       /\ Book("adjust", d)
       /\ forgiven' = forgiven + (IF d < 0 THEN -d ELSE 0)
  /\ adjusts' = adjusts + 1
  /\ UNCHANGED <<held, payments, jobs, calls, overrun, heard>>

\* checkout: the row is there before the provider is asked for a page.
CreatePayment(p) ==
  /\ payments[p] = "none"
  /\ payments' = [payments EXCEPT ![p] = "pending"]
  /\ UNCHANGED <<wallet, jobs, ledger, calls, history>>

\* Mutant: a top-up is credited unless it was credited before.
CompleteUnlessPaid(p) ==
  /\ payments[p] # "none"
  /\ heard' = [heard EXCEPT ![p] = @ \cup {"paid"}]
  /\ \/ /\ payments[p] # "paid"
        /\ Book(p, Credit)
        /\ payments' = [payments EXCEPT ![p] = "paid"]
     \/ /\ payments[p] = "paid"
        /\ UNCHANGED <<balance, ledger, payments>>
  /\ UNCHANGED <<held, jobs, calls, adjusts, forgiven, overrun>>

\* A "paid" webhook: a pending top-up is credited if the amount is the one asked for,
\* and refused for good if not; any other top-up is left alone.
CompletePayment(p) ==
  /\ payments[p] # "none"
  /\ \/ /\ payments[p] = "pending"
        /\ Book(p, Credit)
        /\ payments' = [payments EXCEPT ![p] = "paid"]
     \/ /\ payments[p] = "pending"
        /\ payments' = [payments EXCEPT ![p] = "amount_mismatch"]
        /\ UNCHANGED <<balance, ledger>>
     \/ /\ payments[p] # "pending"
        /\ UNCHANGED <<balance, ledger, payments>>
  /\ heard' = [heard EXCEPT ![p] = @ \cup {"paid"}]
  /\ UNCHANGED <<held, jobs, calls, adjusts, forgiven, overrun>>

\* An "order_refunded" webhook: only a credited top-up is taken back.
RefundPayment(p) ==
  /\ payments[p] # "none"
  /\ IF payments[p] = "paid"
     THEN /\ Book(p, -Credit)
          /\ payments' = [payments EXCEPT ![p] = "refunded"]
          /\ forgiven' = forgiven + Credit
     ELSE UNCHANGED <<balance, ledger, payments, forgiven>>
  /\ heard' = [heard EXCEPT ![p] = @ \cup {"refunded"}]
  /\ UNCHANGED <<held, jobs, calls, adjusts, overrun>>
-----------------------------------------------------------------------------
(* Chapters and their A.I requests. *)

\* The cap is what the available balance pays for.  Costs are whole numbers here, so
\* comparing one with the real quotient or with its floor is the same.
ReserveJob(j) ==
  /\ jobs[j].status = "none"
  /\ Available >= MinBalance
  /\ LET affordable == (Available * FeeDen) \div (FeeDen + FeeNum)
     IN  jobs' = [jobs EXCEPT ![j] =
           [NoJob EXCEPT !.status = "active",
                         !.cap = IF affordable < Guard THEN affordable ELSE Guard]]
  /\ UNCHANGED <<wallet, payments, ledger, calls, history>>

\* begin_request once its checks have passed.
Hold(c, j, h) ==
  /\ jobs' = [jobs EXCEPT ![j].requests = @ + 1, ![j].reserved = @ + h]
  /\ held' = held + Price(h)
  /\ calls' = [calls EXCEPT ![c] = [at |-> "flight", job |-> j, held |-> h]]
  /\ UNCHANGED <<balance, payments, ledger, history>>

\* Mutant: the money other requests hold is not counted.
BeginRequestIgnoringHolds(c, j) ==
  /\ calls[c].at = "unsent"
  /\ jobs[j].status # "none"
  /\ \E h \in HoldAmount :
       /\ jobs[j].cost + jobs[j].reserved + h <= jobs[j].cap
       /\ jobs[j].requests < MaxRequests
       /\ balance >= Price(h)
       /\ Hold(c, j, h)

BeginRequest(c, j) ==
  /\ calls[c].at = "unsent"
  /\ jobs[j].status # "none"
  /\ \E h \in HoldAmount :
       /\ jobs[j].cost + jobs[j].reserved + h <= jobs[j].cap
       /\ jobs[j].requests < MaxRequests
       /\ Available >= Price(h)
       /\ Hold(c, j, h)

\* Mutant: the charge is not added to the job.
AddCostUncharged(c, cost) ==
  LET j == calls[c].job
      h == calls[c].held
  IN  /\ calls[c].at = "flight"
      /\ jobs' = [jobs EXCEPT ![j].cost = @ + cost, ![j].reserved = IF @ > h THEN @ - h ELSE 0]
      /\ balance' = balance - Price(cost)
      /\ held' = IF held > Price(h) THEN held - Price(h) ELSE 0
      /\ forgiven' = forgiven + (IF Price(cost) > Price(h) THEN Price(cost) - Price(h) ELSE 0)
      /\ overrun' = [overrun EXCEPT ![j] = @ + (IF cost > h THEN cost - h ELSE 0)]
      /\ calls' = [calls EXCEPT ![c].at = "over"]
      /\ UNCHANGED <<payments, ledger, adjusts, heard>>

\* add_cost: charge the request at cost plus the fee, and free what it held.
AddCost(c, cost) ==
  LET j == calls[c].job
      h == calls[c].held
  IN  /\ calls[c].at = "flight"
      /\ jobs' = [jobs EXCEPT ![j].cost = @ + cost,
                              ![j].reserved = IF @ > h THEN @ - h ELSE 0,
                              ![j].charged = @ + Price(cost)]
      /\ balance' = balance - Price(cost)
      /\ held' = IF held > Price(h) THEN held - Price(h) ELSE 0
      /\ forgiven' = forgiven + (IF Price(cost) > Price(h) THEN Price(cost) - Price(h) ELSE 0)
      /\ overrun' = [overrun EXCEPT ![j] = @ + (IF cost > h THEN cost - h ELSE 0)]
      /\ calls' = [calls EXCEPT ![c].at = "over"]
      /\ UNCHANGED <<payments, ledger, adjusts, heard>>

\* The upstream answered, or every retry failed (no usage, so no cost).
Answer(c) == \E cost \in CostAmount \cup {0} : AddCost(c, cost)

\* int() of a count in the answer's usage raises, after the upstream answered and before
\* add_cost: the handler ends, nothing is charged and its hold stays.
AnswerUnread(c) ==
  /\ calls[c].at = "flight"
  /\ calls' = [calls EXCEPT ![c].at = "unread"]
  /\ UNCHANGED <<wallet, payments, jobs, ledger, history>>

\* Mutant: the handler ends without freeing its hold.
AbandonHeld(c) ==
  /\ calls[c].at = "flight"
  /\ calls' = [calls EXCEPT ![c].at = "over"]
  /\ UNCHANGED <<wallet, payments, jobs, ledger, history>>

\* The handler is cancelled while it waits (except BaseException).
Abandon(c) == AddCost(c, 0)

\* finish: the client's outcome; all three are one status here.
FinishJob(j) ==
  /\ jobs[j].status = "active"
  /\ CloseJobs({j}, "completed")
  /\ UNCHANGED <<wallet, payments, calls, history>>

\* purge, every six hours: any jobs may have reached expires_at.
Purge ==
  /\ \E S \in SUBSET {j \in Job : jobs[j].status = "active"} : S # {} /\ CloseJobs(S, "expired")
  /\ UNCHANGED <<wallet, payments, calls, history>>

\* delete_account cancels the active jobs; balance and payments stay for the next sign-in.
DeleteAccount ==
  /\ jobs' = [j \in Job |-> IF jobs[j].status = "active"
                            THEN [jobs[j] EXCEPT !.status = "cancelled"] ELSE jobs[j]]
  /\ UNCHANGED <<wallet, payments, ledger, calls, history>>
-----------------------------------------------------------------------------
(* Opening the store. *)

\* Store.__init__ clears every hold.
OpenStore ==
  /\ held' = 0
  /\ jobs' = [j \in Job |-> [jobs[j] EXCEPT !.reserved = 0]]
  /\ UNCHANGED <<balance, payments, ledger, history>>

\* The gateway dies, with the requests it was serving, and starts again.
Restart ==
  /\ OpenStore
  /\ calls' = [c \in Call |-> IF c \in Holding THEN [calls[c] EXCEPT !.at = "over"] ELSE calls[c]]

\* "python -m gateway backup" opens a Store of its own beside the running gateway.
Backup ==
  /\ OpenStore
  /\ UNCHANGED calls
-----------------------------------------------------------------------------
Money ==
  \/ Adjust
  \/ \E p \in Payment : CreatePayment(p)
  \/ \E p \in Payment : CompletePayment(p)
  \/ \E p \in Payment : RefundPayment(p)

Chapters ==
  \/ \E j \in Job : ReserveJob(j)
  \/ \E c \in Call, j \in Job : BeginRequest(c, j)
  \/ \E c \in Call : Answer(c)
  \/ \E c \in Call : AnswerUnread(c)
  \/ \E c \in Call : Abandon(c)
  \/ \E j \in Job : FinishJob(j)
  \/ Purge
  \/ DeleteAccount

NextNoBackup == Money \/ Chapters \/ Restart
Next == NextNoBackup \/ Backup

Spec == Init /\ [][Next]_vars

\* The gateway when no backup is taken while it serves.
SpecNoBackup == Init /\ [][NextNoBackup]_vars
-----------------------------------------------------------------------------
(* What must hold of the money. *)

\* The money held is exactly what the requests in flight hold, with the requests whose
\* answer could not be read since the last start, on the account and on each job: nothing
\* is freed twice, and no other way of ending leaks a hold (store.py:420-454, app.py:540-606).
HoldsExact ==
  /\ held = Total(PriceOf, Holding)
  /\ \A j \in Job : jobs[j].reserved = Total(HeldOf, HoldingOf(j))

\* With no request in flight no money is held.  It fails: an answer that cannot be read
\* keeps its hold until the gateway starts again (app.py:558-566, 604).
IdleHoldsNothing == Flight = {} => held = 0

\* Requests in flight together never spend money the account does not have: only a refund,
\* a debit or a request that cost more than its estimate can take it below zero
\* (begin_request's docstring, store.py:421).
NeverOverspent == Available + forgiven >= 0

\* A chapter's A.I cost, with what its requests in flight may still cost, stays within
\* the cap it was opened with, up to what single requests overran (store.py:427).
CapKept == \A j \in Job : jobs[j].cost + jobs[j].reserved <= jobs[j].cap + overrun[j]

\* Requests in flight together overspend neither the account nor their chapter, although each
\* of them looks before any has reported what it cost (begin_request, store.py:420-437).
NothingOverspent == NeverOverspent /\ CapKept

\* Every movement of the balance is in the ledger or is a charge of a job the ledger has
\* not booked, whatever jobs are finished, expired or cancelled meanwhile (store.py:317-323, 446-464).
MoneyConserved ==
  balance = Total(moved, Ref) - Total([j \in Job |-> jobs[j].charged + moved[j]], Job)

\* A top-up is in the balance exactly while it counts as paid, however often, late or out
\* of order the providers' webhooks arrive (complete_payment, store.py:351-376).
CreditedOnce ==
  \A p \in Payment :
    /\ moved[p] = IF payments[p] = "paid" THEN Credit ELSE 0
    /\ lines[p] = CASE payments[p] = "paid" -> 1 [] payments[p] = "refunded" -> 2 [] OTHER -> 0

\* A chapter never gets two ledger lines, although finish and purge may race (store.py:456-484).
ChapterBookedOnce == \A j \in Job : lines[j] <= 1 /\ (lines[j] = 1 => jobs[j].status \in Closed)

\* The tables are well formed, and the ledger has every top-up and every chapter once.
LedgerOK == TypeOK /\ CreditedOnce /\ ChapterBookedOnce

\* Once a chapter is closed and its requests are over, the ledger line accounts for all
\* that it was charged (_close_job's comment, store.py:459).
ClosedIsBooked ==
  \A j \in Job :
    jobs[j].status \in Closed /\ (\A c \in Flight : calls[c].job # j) =>
      moved[j] = -jobs[j].charged

\* A top-up whose payment and refund were both announced is not in the balance
\* (refund_payment's docstring, store.py:368).
RefundTakenBack ==
  \A p \in Payment : heard[p] = {"paid", "refunded"} => payments[p] # "paid"
=============================================================================
