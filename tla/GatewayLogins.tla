---------------------------- MODULE GatewayLogins ----------------------------
(***************************************************************************)
(* Accounts, emailed login codes and sessions of the gateway               *)
(* (gateway/store.py) and the handlers that use them (gateway/app.py).     *)
(*                                                                         *)
(* Every method of Store is one transaction, hence one action; a method    *)
(* that raises LoginRejected inside its transaction is rolled back and     *)
(* changes nothing, so a refusal is an action only where the code raises   *)
(* after the commit.  What interleaves: /v1/auth/start commits the code    *)
(* and mails it afterwards, and a handler that depends on account() checks *)
(* its session in one transaction and runs its own in a later one.         *)
(* All requests come from one network address; the clock is the actions    *)
(* ResendOpens, CodeExpires, SessionExpires and NewDay.                    *)
(***************************************************************************)
EXTENDS Naturals, Sequences

CONSTANTS
  Email,            \* addresses that sign in
  Request,          \* requests with a session token under way
  CodesPerDay,      \* LOGIN_CODES_PER_DAY
  AttemptsPerCode,  \* LOGIN_CODE_MAX_ATTEMPTS
  StartsPerNetwork, \* LOGIN_STARTS_PER_IP
  SignupsPerNetwork, \* SIGNUPS_PER_IP
  MaxCodes, MaxSessions, MaxDays  \* bounds of the model: codes, sessions and days that follow

ASSUME LoginsAssumption ==
  {CodesPerDay, AttemptsPerCode, StartsPerNetwork, SignupsPerNetwork,
   MaxCodes, MaxSessions, MaxDays} \subseteq Nat

VARIABLES
  accounts,  \* the accounts table; hashed counts how often tombstone() was applied to the email
  codes,     \* the login_codes table; its rows name a code by its index in mails
  sessions,  \* the sessions table: a row is valid, past its 90 days ("old") or deleted ("out")
  network,   \* today's rows of ip_counts
  mails,     \* /v1/auth/start requests, and what became of the mail
  checked,   \* requests that passed account() and have not run yet
  days,      \* history: days that followed the first
  today,     \* history: per email, codes asked for today, and whether its row was deleted today
  wrong,     \* history: wrong entries compared with each code
  signups,   \* history: accounts made today by signing in
  forgotten  \* history: per email, codes issued when its account was last deleted

tables == <<accounts, codes, sessions, network>>
history == <<days, today, wrong, signups, forgotten>>
vars == <<tables, mails, checked, history>>

Row == [code : 0..MaxCodes, live : BOOLEAN, recent : BOOLEAN, attempts : Nat, sent : Nat, age : 0..2]

\* No row counts as a row whose code is spent and that belongs to no day.
NoRow == [code |-> 0, live |-> FALSE, recent |-> FALSE, attempts |-> 0, sent |-> 0, age |-> 2]

TypeOK ==
  /\ accounts \in Seq([email : Email, hashed : Nat])
  /\ codes \in [Email -> Row]
  /\ sessions \in Seq([account : 1..Len(accounts), code : 0..Len(mails), fresh : BOOLEAN,
                       state : {"valid", "old", "out"}])
  /\ network \in [starts : 0..StartsPerNetwork, signups : 0..SignupsPerNetwork]
  /\ mails \in Seq([email : Email, state : {"sending", "sent", "failed"}])
  /\ checked \in [Request -> [op : {"none", "logout_all", "delete"}, account : 0..Len(accounts)]]
  /\ days \in 0..MaxDays
  /\ today \in [Email -> [asked : Nat, dropped : BOOLEAN]]
  /\ wrong \in Seq(Nat) /\ Len(wrong) = Len(mails)
  /\ signups \in Nat
  /\ forgotten \in [Email -> 0..Len(mails)]

Unchecked == [op |-> "none", account |-> 0]

Init ==
  /\ accounts = <<>> /\ sessions = <<>> /\ mails = <<>> /\ wrong = <<>>
  /\ codes = [e \in Email |-> NoRow]
  /\ network = [starts |-> 0, signups |-> 0]
  /\ checked = [r \in Request |-> Unchecked]
  /\ days = 0 /\ signups = 0
  /\ today = [e \in Email |-> [asked |-> 0, dropped |-> FALSE]]
  /\ forgotten = [e \in Email |-> 0]
-----------------------------------------------------------------------------
(* Accounts and sessions. *)

Named(e, hashed) == {a \in 1..Len(accounts) : accounts[a] = [email |-> e, hashed |-> hashed]}
Known(e) == Named(e, 0) \cup Named(e, 1) # {}

\* Mutant: an email that was deleted is not looked for under its hash.
SignInAfresh(e, code) ==
  /\ Len(sessions) < MaxSessions
  /\ \E a \in 1..Len(accounts) + 1 :
       /\ IF Named(e, 0) # {} THEN a \in Named(e, 0) /\ UNCHANGED accounts
          ELSE a = Len(accounts) + 1 /\ accounts' = Append(accounts, [email |-> e, hashed |-> 0])
       /\ sessions' = Append(sessions, [account |-> a, code |-> code, fresh |-> code > forgotten[e],
                                        state |-> "valid"])

\* _account_id_for_email and _new_session: the account of the email, a deleted one that comes
\* back, or a new one; and a session for it.
SignIn(e, code) ==
  /\ Len(sessions) < MaxSessions
  /\ \E a \in 1..Len(accounts) + 1 :
       /\ IF Named(e, 0) # {} THEN a \in Named(e, 0) /\ UNCHANGED accounts
          ELSE IF Named(e, 1) # {} THEN a \in Named(e, 1) /\ accounts' = [accounts EXCEPT ![a].hashed = 0]
          ELSE a = Len(accounts) + 1 /\ accounts' = Append(accounts, [email |-> e, hashed |-> 0])
       /\ sessions' = Append(sessions, [account |-> a, code |-> code, fresh |-> code > forgotten[e],
                                        state |-> "valid"])

\* DELETE FROM sessions WHERE account_id = ?
SignedOut(account) ==
  [s \in 1..Len(sessions) |->
     IF sessions[s].account = account THEN [sessions[s] EXCEPT !.state = "out"] ELSE sessions[s]]

\* An admin makes an account, or finds the one there is, and gets a session of it.
CreateAccount(e) ==
  /\ SignIn(e, 0)
  /\ UNCHANGED <<codes, network, mails, checked, history>>
-----------------------------------------------------------------------------
(* Login codes. *)

\* start_login: a new code replaces the one before it.
StartLogin(e) ==
  /\ Len(mails) < MaxCodes
  /\ network.starts < StartsPerNetwork
  /\ ~codes[e].recent
  /\ LET sentToday == IF codes[e].age = 0 THEN codes[e].sent ELSE 0
     IN /\ sentToday < CodesPerDay
        /\ codes' = [codes EXCEPT ![e] = [code |-> Len(mails) + 1, live |-> TRUE, recent |-> TRUE,
                                          attempts |-> 0, sent |-> sentToday + 1, age |-> 0]]
  /\ network' = [network EXCEPT !.starts = @ + 1]
  /\ mails' = Append(mails, [email |-> e, state |-> "sending"])
  /\ wrong' = Append(wrong, 0)
  /\ today' = [today EXCEPT ![e].asked = @ + 1]
  /\ UNCHANGED <<accounts, sessions, checked, days, signups, forgotten>>

MailSent(m) ==
  /\ mails[m].state = "sending"
  /\ mails' = [mails EXCEPT ![m].state = "sent"]
  /\ UNCHANGED <<tables, checked, history>>

\* Mutant: the unsent code is forgotten with the day's count.
MailFailsUncounted(m) ==
  /\ mails[m].state = "sending"
  /\ mails' = [mails EXCEPT ![m].state = "failed"]
  /\ codes' = [codes EXCEPT ![mails[m].email] = NoRow]
  /\ UNCHANGED <<accounts, sessions, network, checked, history>>

\* MailUnavailable, which a mail that was delivered may raise too: cancel_login forgets whatever
\* code the email has by now.
MailFails(m) ==
  /\ mails[m].state = "sending"
  /\ mails' = [mails EXCEPT ![m].state = "failed"]
  /\ codes' = [codes EXCEPT ![mails[m].email] = [@ EXCEPT !.code = 0, !.live = FALSE, !.recent = FALSE]]
  /\ UNCHANGED <<accounts, sessions, network, checked, history>>

Enterable(e) == codes[e].live /\ codes[e].attempts < AttemptsPerCode

\* verify_login with another code than the one in force: the attempt is committed, then refused.
WrongCode(e) ==
  /\ Enterable(e)
  /\ codes' = [codes EXCEPT ![e].attempts = @ + 1]
  /\ wrong' = [wrong EXCEPT ![codes[e].code] = @ + 1]
  /\ UNCHANGED <<accounts, sessions, network, mails, checked, days, today, signups, forgotten>>

\* verify_login with the code in force.  A sign-up beyond the network's limit rolls all of it back.
VerifyLogin(e) ==
  /\ Enterable(e)
  /\ ~Known(e) => network.signups < SignupsPerNetwork
  /\ network' = IF Known(e) THEN network ELSE [network EXCEPT !.signups = @ + 1]
  /\ signups' = IF Known(e) THEN signups ELSE signups + 1
  /\ codes' = [codes EXCEPT ![e] = [@ EXCEPT !.code = 0, !.live = FALSE]]
  /\ SignIn(e, codes[e].code)
  /\ UNCHANGED <<mails, checked, days, today, wrong, forgotten>>
-----------------------------------------------------------------------------
(* Requests with a session token. *)

Logout(s) ==
  /\ sessions[s].state # "out"
  /\ sessions' = [sessions EXCEPT ![s].state = "out"]
  /\ UNCHANGED <<accounts, codes, network, mails, checked, history>>

\* account(): the session is read in a transaction of its own.
CheckSession(r, s, op) ==
  /\ checked[r] = Unchecked
  /\ sessions[s].state = "valid"
  /\ checked' = [checked EXCEPT ![r] = [op |-> op, account |-> sessions[s].account]]
  /\ UNCHANGED <<tables, mails, history>>

LogoutAll(r) ==
  /\ checked[r].op = "logout_all"
  /\ checked' = [checked EXCEPT ![r] = Unchecked]
  /\ sessions' = SignedOut(checked[r].account)
  /\ UNCHANGED <<accounts, codes, network, mails, history>>

\* Mutant: the pending code of the email is left.
DeleteKeepsCode(r) ==
  LET a == checked[r].account
      e == accounts[a].email
      again == accounts[a].hashed + 1
  IN /\ checked[r].op = "delete"
     /\ checked' = [checked EXCEPT ![r] = Unchecked]
     /\ IF Named(e, again) # {} THEN UNCHANGED <<tables, today, forgotten>>
        ELSE /\ sessions' = SignedOut(a)
             /\ accounts' = [accounts EXCEPT ![a].hashed = again]
             /\ today' = IF again = 1 THEN [today EXCEPT ![e].dropped = TRUE] ELSE today
             /\ forgotten' = IF again = 1 THEN [forgotten EXCEPT ![e] = Len(mails)] ELSE forgotten
             /\ UNCHANGED <<codes, network>>
     /\ UNCHANGED <<mails, days, wrong, signups>>

\* delete_account: whatever the email of the row is by now is hashed; UNIQUE may refuse it, and
\* then nothing of it happens.  Cancelling the account's chapters is in Wallet.
DeleteAccount(r) ==
  LET a == checked[r].account
      e == accounts[a].email
      again == accounts[a].hashed + 1
  IN /\ checked[r].op = "delete"
     /\ checked' = [checked EXCEPT ![r] = Unchecked]
     /\ IF Named(e, again) # {} THEN UNCHANGED <<tables, today, forgotten>>
        ELSE /\ sessions' = SignedOut(a)
             /\ accounts' = [accounts EXCEPT ![a].hashed = again]
             /\ codes' = IF again = 1 THEN [codes EXCEPT ![e] = NoRow] ELSE codes
             /\ today' = IF again = 1 THEN [today EXCEPT ![e].dropped = TRUE] ELSE today
             /\ forgotten' = IF again = 1 THEN [forgotten EXCEPT ![e] = Len(mails)] ELSE forgotten
             /\ UNCHANGED network
     /\ UNCHANGED <<mails, days, wrong, signups>>
-----------------------------------------------------------------------------
(* The clock and the housekeeping that follows it. *)

ResendOpens(e) ==
  /\ codes[e].recent
  /\ codes' = [codes EXCEPT ![e].recent = FALSE]
  /\ UNCHANGED <<accounts, sessions, network, mails, checked, history>>

\* Ten minutes are over; the minute before a resend is over long before.
CodeExpires(e) ==
  /\ codes[e].live /\ ~codes[e].recent
  /\ codes' = [codes EXCEPT ![e].live = FALSE]
  /\ UNCHANGED <<accounts, sessions, network, mails, checked, history>>

SessionExpires(s) ==
  /\ sessions[s].state = "valid"
  /\ sessions' = [sessions EXCEPT ![s].state = "old"]
  /\ UNCHANGED <<accounts, codes, network, mails, checked, history>>

\* Midnight: the rows of ip_counts and the counts of login_codes are those of another day.
NewDay ==
  /\ days < MaxDays
  /\ days' = days + 1
  /\ network' = [starts |-> 0, signups |-> 0]
  /\ codes' = [e \in Email |-> [codes[e] EXCEPT !.age = IF @ = 2 THEN 2 ELSE @ + 1]]
  /\ today' = [e \in Email |-> [asked |-> 0, dropped |-> FALSE]]
  /\ signups' = 0
  /\ UNCHANGED <<accounts, sessions, mails, checked, wrong, forgotten>>

\* purge: sessions past their days, and codes that are expired and older than yesterday.
Purge ==
  /\ sessions' = [s \in 1..Len(sessions) |->
       IF sessions[s].state = "old" THEN [sessions[s] EXCEPT !.state = "out"] ELSE sessions[s]]
  /\ codes' = [e \in Email |-> IF ~codes[e].live /\ codes[e].age = 2 THEN NoRow ELSE codes[e]]
  /\ UNCHANGED <<accounts, network, mails, checked, history>>
-----------------------------------------------------------------------------
Next ==
  \/ \E e \in Email : \/ StartLogin(e) \/ WrongCode(e) \/ VerifyLogin(e) \/ CreateAccount(e)
                      \/ ResendOpens(e) \/ CodeExpires(e)
  \/ \E m \in 1..Len(mails) : MailSent(m) \/ MailFails(m)
  \/ \E s \in 1..Len(sessions) : \/ Logout(s) \/ SessionExpires(s)
                                 \/ \E r \in Request, op \in {"logout_all", "delete"} : CheckSession(r, s, op)
  \/ \E r \in Request : LogoutAll(r) \/ DeleteAccount(r)
  \/ NewDay
  \/ Purge

Spec == Init /\ [][Next]_vars
-----------------------------------------------------------------------------
(* Properties. *)

\* However logins, deletions, admin calls and their delays mix, an email has one account that
\* signing in can reach, a deleted one included (gateway/store.py:191-199), ...
OneAccountEach ==
  \A a, b \in 1..Len(accounts) :
    a # b /\ accounts[a].email = accounts[b].email => accounts[a].hashed > 1 \/ accounts[b].hashed > 1

\* ... and a deleted account has no session left (store.py:281), not even one that a login or a
\* request which was under way has made.
DeletedIsSignedOut ==
  \A s \in 1..Len(sessions) : sessions[s].state # "out" => accounts[sessions[s].account].hashed = 0

LoginOK == TypeOK /\ OneAccountEach /\ DeletedIsSignedOut

\* The budgets of store.py:17-27: no code is compared with more wrong entries than its attempts,
\* though the entry is refused; no email is sent more codes in a day than it may, unless its
\* account was deleted that day; and one network makes no more accounts than it may, although
\* housekeeping drops counters and an unsent code may be asked for again at once.
BudgetsKept ==
  /\ \A m \in 1..Len(mails) : wrong[m] <= AttemptsPerCode
  /\ \A e \in Email : ~today[e].dropped => today[e].asked <= CodesPerDay
  /\ signups <= SignupsPerNetwork

\* A code makes one session at most, of the account of the email it was mailed to, and one that
\* was asked for before the account was deleted makes none afterwards (store.py:270-273, 282).
OpensOnce ==
  \A s \in 1..Len(sessions) :
    LET row == sessions[s] IN
    row.code # 0 =>
      /\ row.fresh
      /\ accounts[row.account].email = mails[row.code].email
      /\ \A t \in 1..Len(sessions) : t # s => sessions[t].code # row.code

\* What a mailed code is good for: few guesses, few of them a day, and one login.
CodesBounded == BudgetsKept /\ OpensOnce

\* "The balance is kept under a hash of the email and returns if the same email signs in again"
\* (gateway/app.py:452).  It does not when two deletions of the account overlap: the second
\* hashes the hash, and signing in then makes a new account.
BalanceReturns ==
  \A a, b \in 1..Len(accounts) : a # b => accounts[a].email # accounts[b].email
=============================================================================
