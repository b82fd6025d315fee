---------------------------- MODULE ClientProofs ----------------------------
(***************************************************************************)
(* Proofs about what clients see.  GatewayLogins: accounts, sessions and   *)
(* login codes stay within LoginOK and CodesBounded for any emails,        *)
(* requests and limits.  EditorSaves: what the editor calls saved is on    *)
(* the server (SavesOK), for any objects, edits, failures and answers.     *)
(***************************************************************************)
EXTENDS GatewayLogins, EditorSaves, SequenceTheorems, TLAPS

-----------------------------------------------------------------------------
(* The inductive invariant. *)

\* A request that passed account() acts on an account of the table.
CheckedFit == \A r \in Request : checked[r].op # "none" => checked[r].account \in 1..Len(accounts)

\* The row of an email names a code that was mailed to it since its account was last deleted,
\* counts the wrong entries of that code, and no session came of it yet.
RowFit(e) ==
  LET row == codes[e] IN
  /\ row.code \in 0..Len(mails)
  /\ row.live => row.code # 0
  /\ row.attempts <= AttemptsPerCode
  /\ row.code # 0 =>
       /\ mails[row.code].email = e
       /\ row.code > forgotten[e]
       /\ wrong[row.code] = row.attempts
       /\ \A s \in 1..Len(sessions) : sessions[s].code # row.code

CodesFit == \A e \in Email : RowFit(e)

\* The row of today counts every code that was asked for today, unless it was deleted.
DayFit == \A e \in Email :
  /\ codes[e].age = 0 => codes[e].sent <= CodesPerDay
  /\ ~today[e].dropped =>
       /\ codes[e].age = 0 => today[e].asked <= codes[e].sent
       /\ codes[e].age # 0 => today[e].asked = 0

WrongFit == \A m \in 1..Len(mails) : wrong[m] <= AttemptsPerCode

SignupsFit == signups = network.signups

LoginInv ==
  /\ TypeOK /\ CheckedFit
  /\ OneAccountEach /\ DeletedIsSignedOut
  /\ CodesFit /\ DayFit /\ WrongFit /\ SignupsFit /\ OpensOnce
-----------------------------------------------------------------------------
(* Types, one table at a time. *)

Account == [email : Email, hashed : Nat]
SessionRow == [account : 1..Len(accounts), code : 0..Len(mails), fresh : BOOLEAN,
               state : {"valid", "old", "out"}]
Mail == [email : Email, state : {"sending", "sent", "failed"}]
CheckedRow == [op : {"none", "logout_all", "delete"}, account : 0..Len(accounts)]
DayRow == [asked : Nat, dropped : BOOLEAN]

LEMMA TypesSplit ==
  TypeOK <=>
    /\ accounts \in Seq(Account) /\ codes \in [Email -> Row] /\ sessions \in Seq(SessionRow)
    /\ network \in [starts : 0..StartsPerNetwork, signups : 0..SignupsPerNetwork]
    /\ mails \in Seq(Mail) /\ checked \in [Request -> CheckedRow] /\ days \in 0..MaxDays
    /\ today \in [Email -> DayRow] /\ wrong \in Seq(Nat) /\ Len(wrong) = Len(mails)
    /\ signups \in Nat /\ forgotten \in [Email -> 0..Len(mails)]
  BY DEF TypeOK, Account, SessionRow, Mail, CheckedRow, DayRow

LEMMA TypedInit == Init => TypeOK
<1> SUFFICES ASSUME Init PROVE TypeOK
  OBVIOUS
<1>1. NoRow \in Row /\ Unchecked \in CheckedRow /\ [asked |-> 0, dropped |-> FALSE] \in DayRow
  BY LoginsAssumption DEF Init, NoRow, Row, Unchecked, CheckedRow, DayRow
<1>2. codes \in [Email -> Row] /\ checked \in [Request -> CheckedRow] /\ today \in [Email -> DayRow]
  BY <1>1 DEF Init
<1>3. /\ accounts \in Seq(Account) /\ sessions \in Seq(SessionRow) /\ mails \in Seq(Mail)
      /\ wrong \in Seq(Nat) /\ Len(wrong) = Len(mails) /\ Len(mails) = 0
  BY EmptySeq DEF Init
<1>4. /\ network \in [starts : 0..StartsPerNetwork, signups : 0..SignupsPerNetwork]
      /\ days \in 0..MaxDays /\ signups \in Nat /\ forgotten \in [Email -> 0..Len(mails)]
  BY <1>3, LoginsAssumption DEF Init
<1> QED BY <1>2, <1>3, <1>4, TypesSplit

LEMMA InvInit == Init => LoginInv
<1> SUFFICES ASSUME Init PROVE LoginInv
  OBVIOUS
<1>1. Len(accounts) = 0 /\ Len(sessions) = 0 /\ Len(mails) = 0
  BY EmptySeq DEF Init
<1>2. TypeOK
  BY TypedInit
<1>3. CheckedFit
  BY DEF Init, CheckedFit, Unchecked
<1>4. OneAccountEach /\ DeletedIsSignedOut /\ WrongFit /\ OpensOnce
  BY <1>1 DEF OneAccountEach, DeletedIsSignedOut, WrongFit, OpensOnce
<1>5. CodesFit /\ DayFit
  BY <1>1, LoginsAssumption DEF Init, CodesFit, RowFit, DayFit, NoRow
<1>6. SignupsFit
  BY DEF Init, SignupsFit
<1> QED BY <1>2, <1>3, <1>4, <1>5, <1>6 DEF LoginInv

-----------------------------------------------------------------------------
(* Steps that make no account, code or session and move no counter. *)

\* Sessions may end; nothing else becomes of a row.
SessionsOnlyEnd ==
  /\ Len(sessions') = Len(sessions)
  /\ \A s \in 1..Len(sessions) :
       /\ sessions'[s].account = sessions[s].account
       /\ sessions'[s].code = sessions[s].code
       /\ sessions'[s].fresh = sessions[s].fresh
       /\ sessions'[s].state # "out" => sessions[s].state # "out"

MailsKept == Len(mails') = Len(mails) /\ \A m \in 1..Len(mails) : mails'[m].email = mails[m].email

\* A code stays in force with its attempts, or is forgotten; the count of today stays.
CodesOnlyEnd ==
  \A e \in Email :
    /\ \/ codes'[e].code = codes[e].code
       \/ codes'[e].code = 0 /\ ~codes'[e].live
    /\ codes'[e].live => codes[e].live
    /\ \/ codes'[e].attempts = codes[e].attempts
       \/ codes'[e].attempts = 0 /\ codes'[e].code = 0
    /\ \/ codes'[e].age = codes[e].age /\ codes'[e].sent = codes[e].sent
       \/ codes'[e].age # 0 /\ codes[e].age # 0

Quiet == SessionsOnlyEnd /\ MailsKept /\ CodesOnlyEnd /\ UNCHANGED <<accounts, network, history>>

LEMMA QuietKeeps ==
  ASSUME LoginInv, Quiet, TypeOK', CheckedFit'
  PROVE  LoginInv'
<1> USE DEF Quiet, history
<1>t. TypeOK
  BY DEF LoginInv
<1>1. OneAccountEach'
  BY DEF LoginInv, OneAccountEach
<1>l. Len(sessions') = Len(sessions) /\ Len(mails') = Len(mails)
  BY DEF SessionsOnlyEnd, MailsKept
<1>2. DeletedIsSignedOut'
  BY <1>l DEF LoginInv, DeletedIsSignedOut, SessionsOnlyEnd
<1>3. CodesFit'
  <2> SUFFICES ASSUME NEW e \in Email PROVE RowFit(e)'
    BY DEF CodesFit
  <2>1. RowFit(e)
    BY DEF LoginInv, CodesFit
  <2>2. CASE codes'[e].code = codes[e].code /\ codes'[e].attempts = codes[e].attempts
    <3>1. codes[e].code # 0 => codes[e].code \in 1..Len(mails)
      BY <2>1, LenProperties, TypesSplit, <1>t DEF RowFit
    <3>2. ASSUME NEW s \in 1..Len(sessions), codes[e].code # 0 PROVE sessions'[s].code # codes[e].code
      BY <2>1, <3>2 DEF RowFit, SessionsOnlyEnd
    <3> QED BY <2>1, <2>2, <3>1, <3>2, <1>l DEF RowFit, CodesOnlyEnd, MailsKept
  <2>3. CASE codes'[e].code = 0 /\ ~codes'[e].live
    <3>1. Len(mails) \in Nat
      BY LenProperties, TypesSplit, <1>t
    <3>2. codes'[e].attempts <= AttemptsPerCode
      BY <2>1, LoginsAssumption DEF CodesOnlyEnd, RowFit
    <3> QED BY <2>3, <3>1, <3>2, <1>l DEF RowFit
  <2>4. codes'[e].code = codes[e].code /\ codes'[e].code = 0 => ~codes'[e].live
    BY <2>1 DEF RowFit, CodesOnlyEnd
  <2> QED BY <2>2, <2>3, <2>4 DEF CodesOnlyEnd
<1>4. DayFit'
  BY <1>t DEF LoginInv, DayFit, CodesOnlyEnd
<1>5. WrongFit' /\ SignupsFit'
  BY <1>l DEF LoginInv, WrongFit, SignupsFit
<1>6. OpensOnce'
  <2> SUFFICES ASSUME NEW s \in 1..Len(sessions), sessions'[s].code # 0
               PROVE  /\ sessions'[s].fresh
                      /\ accounts[sessions'[s].account].email = mails'[sessions'[s].code].email
                      /\ \A t \in 1..Len(sessions) : t # s => sessions'[t].code # sessions'[s].code
    BY <1>l DEF OpensOnce
  <2>1. sessions[s] \in SessionRow
    BY ElementOfSeq, TypesSplit, <1>t
  <2>2. sessions'[s].code = sessions[s].code /\ sessions[s].code \in 1..Len(mails)
    BY <2>1, LenProperties, TypesSplit, <1>t DEF SessionRow, SessionsOnlyEnd
  <2>3. /\ sessions[s].fresh
        /\ accounts[sessions[s].account].email = mails[sessions[s].code].email
        /\ \A t \in 1..Len(sessions) : t # s => sessions[t].code # sessions[s].code
    BY <2>2 DEF LoginInv, OpensOnce
  <2>4. mails'[sessions[s].code].email = mails[sessions[s].code].email
    BY <2>2 DEF MailsKept
  <2> QED BY <2>2, <2>3, <2>4 DEF SessionsOnlyEnd
<1> QED BY <1>1, <1>2, <1>3, <1>4, <1>5, <1>6 DEF LoginInv

\* What account() hands to a handler, and the rows it finds.
LEMMA TypedRows ==
  ASSUME TypeOK
  PROVE  /\ \A a \in 1..Len(accounts) : accounts[a] \in Account
         /\ \A s \in 1..Len(sessions) : sessions[s] \in SessionRow
         /\ \A m \in 1..Len(mails) : mails[m] \in Mail
         /\ \A m \in 1..Len(mails) : wrong[m] \in Nat
         /\ \A e \in Email : codes[e] \in Row
         /\ \A r \in Request : checked[r] \in CheckedRow
         /\ Len(accounts) \in Nat /\ Len(sessions) \in Nat /\ Len(mails) \in Nat
<1>1. \A a \in 1..Len(accounts) : accounts[a] \in Account
  BY TypesSplit, ElementOfSeq
<1>2. \A s \in 1..Len(sessions) : sessions[s] \in SessionRow
  BY TypesSplit, ElementOfSeq
<1>3. \A m \in 1..Len(mails) : mails[m] \in Mail
  BY TypesSplit, ElementOfSeq
<1>4. \A m \in 1..Len(mails) : wrong[m] \in Nat
  BY TypesSplit, ElementOfSeq
<1>5. Len(accounts) \in Nat /\ Len(sessions) \in Nat /\ Len(mails) \in Nat
  BY TypesSplit, LenProperties
<1>6. (\A e \in Email : codes[e] \in Row) /\ (\A r \in Request : checked[r] \in CheckedRow)
  BY TypesSplit
<1> QED BY <1>1, <1>2, <1>3, <1>4, <1>5, <1>6

\* One session whose state becomes "old" or "out".
LEMMA OneSessionEnds ==
  ASSUME TypeOK, NEW s \in 1..Len(sessions), NEW st \in {"old", "out"},
         sessions[s].state = "valid" \/ (st = "out" /\ sessions[s].state # "out"),
         sessions' = [sessions EXCEPT ![s].state = st]
  PROVE  SessionsOnlyEnd /\ sessions' \in Seq(SessionRow)
<1>1. sessions \in Seq(SessionRow) /\ sessions[s] \in SessionRow
  BY TypesSplit, TypedRows
<1> DEFINE row == [sessions[s] EXCEPT !.state = st]
<1>2. row \in SessionRow
  BY <1>1 DEF SessionRow
<1>3. sessions' = [sessions EXCEPT ![s] = row]
  OBVIOUS
<1>4. /\ row.account = sessions[s].account /\ row.code = sessions[s].code
      /\ row.fresh = sessions[s].fresh /\ sessions[s].state # "out"
  BY <1>1 DEF SessionRow
<1> HIDE DEF row
<1>5. /\ sessions' \in Seq(SessionRow) /\ Len(sessions') = Len(sessions)
      /\ \A t \in 1..Len(sessions) : sessions'[t] = IF t = s THEN row ELSE sessions[t]
  BY <1>1, <1>2, <1>3, ExceptSeq
<1> QED BY <1>4, <1>5 DEF SessionsOnlyEnd

\* Some of the sessions end.
LEMMA SessionsEnd ==
  ASSUME TypeOK, NEW out \in SUBSET (1..Len(sessions)),
         sessions' = [s \in 1..Len(sessions) |->
                        IF s \in out THEN [sessions[s] EXCEPT !.state = "out"] ELSE sessions[s]]
  PROVE  SessionsOnlyEnd /\ sessions' \in Seq(SessionRow)
<1>1. sessions \in Seq(SessionRow) /\ \A s \in 1..Len(sessions) : sessions[s] \in SessionRow
  BY TypesSplit, TypedRows
<1>2. ASSUME NEW s \in 1..Len(sessions)
      PROVE  LET row == IF s \in out THEN [sessions[s] EXCEPT !.state = "out"] ELSE sessions[s]
             IN /\ row \in SessionRow
                /\ row.account = sessions[s].account /\ row.code = sessions[s].code
                /\ row.fresh = sessions[s].fresh
                /\ row.state # "out" => sessions[s].state # "out"
  <2>1. sessions[s] \in SessionRow
    BY <1>1
  <2>2. [sessions[s] EXCEPT !.state = "out"] \in SessionRow
    BY <2>1 DEF SessionRow
  <2> QED BY <2>1, <2>2 DEF SessionRow
<1>3. Len(sessions) \in Nat
  BY TypedRows
<1>4. sessions' \in [1..Len(sessions) -> SessionRow]
  BY <1>2
<1>5. sessions' \in Seq(SessionRow) /\ Len(sessions') = Len(sessions)
  BY <1>3, <1>4
<1> QED BY <1>2, <1>5 DEF SessionsOnlyEnd

LEMMA TablesKept ==
  ASSUME TypeOK
  PROVE  /\ UNCHANGED sessions => SessionsOnlyEnd
         /\ UNCHANGED mails => MailsKept
         /\ UNCHANGED codes => CodesOnlyEnd
  BY DEF SessionsOnlyEnd, MailsKept, CodesOnlyEnd

LEMMA TypesNext ==
  ASSUME accounts' \in Seq(Account), codes' \in [Email -> Row], sessions' \in Seq(SessionRow'),
         network' \in [starts : 0..StartsPerNetwork, signups : 0..SignupsPerNetwork],
         mails' \in Seq(Mail), checked' \in [Request -> CheckedRow'], days' \in 0..MaxDays,
         today' \in [Email -> DayRow], wrong' \in Seq(Nat), Len(wrong') = Len(mails'),
         signups' \in Nat, forgotten' \in [Email -> 0..Len(mails')]
  PROVE  TypeOK'
  BY DEF TypeOK, Account, SessionRow, Mail, CheckedRow, DayRow

LEMMA QuietTyped ==
  ASSUME TypeOK, Quiet, codes' \in [Email -> Row], sessions' \in Seq(SessionRow),
         mails' \in Seq(Mail), checked' \in [Request -> CheckedRow]
  PROVE  TypeOK'
<1>1. SessionRow' = SessionRow /\ CheckedRow' = CheckedRow
  BY DEF SessionRow, CheckedRow, Quiet, MailsKept
<1>2. forgotten' \in [Email -> 0..Len(mails')] /\ Len(wrong') = Len(mails')
  BY TypesSplit DEF Quiet, history, MailsKept
<1> QED BY <1>1, <1>2, TypesSplit, TypesNext DEF Quiet, history

\* A row whose code is spent or forgotten.
LEMMA RowSpent ==
  ASSUME NEW old \in Row
  PROVE  LET spent == [old EXCEPT !.code = 0, !.live = FALSE]
             unsent == [old EXCEPT !.code = 0, !.live = FALSE, !.recent = FALSE]
         IN \A row \in {spent, unsent} :
              /\ row \in Row /\ row.code = 0 /\ row.live = FALSE
              /\ row.attempts = old.attempts /\ row.age = old.age /\ row.sent = old.sent
<1>1. PICK one : one = [old EXCEPT !.code = 0]
  OBVIOUS
<1>2. one \in Row /\ one.code = 0 /\ one.attempts = old.attempts /\ one.age = old.age /\ one.sent = old.sent
  BY <1>1, LoginsAssumption DEF Row
<1>3. PICK two : two = [one EXCEPT !.live = FALSE]
  OBVIOUS
<1>4. /\ two \in Row /\ two.code = 0 /\ two.live = FALSE
      /\ two.attempts = old.attempts /\ two.age = old.age /\ two.sent = old.sent
  BY <1>2, <1>3 DEF Row
<1>5. PICK three : three = [two EXCEPT !.recent = FALSE]
  OBVIOUS
<1>6. /\ three \in Row /\ three.code = 0 /\ three.live = FALSE
      /\ three.attempts = old.attempts /\ three.age = old.age /\ three.sent = old.sent
  BY <1>4, <1>5 DEF Row
<1>7. two = [old EXCEPT !.code = 0, !.live = FALSE]
  BY <1>1, <1>3
<1>8. three = [old EXCEPT !.code = 0, !.live = FALSE, !.recent = FALSE]
  BY <1>5, <1>7
<1> QED BY <1>4, <1>6, <1>7, <1>8

\* A mail that was handed over, and one that was not: its address loses the code it has by now.
LEMMA MailEnds ==
  ASSUME LoginInv, NEW m \in 1..Len(mails), MailSent(m) \/ MailFails(m)
  PROVE  LoginInv'
<1>t. TypeOK
  BY DEF LoginInv
<1>r. mails \in Seq(Mail) /\ mails[m] \in Mail
  BY <1>t, TypesSplit, TypedRows
<1>1. PICK st \in {"sent", "failed"} : mails' = [mails EXCEPT ![m].state = st]
  BY DEF MailSent, MailFails
<1> DEFINE mail == [mails[m] EXCEPT !.state = st]
<1>2. mail \in Mail /\ mail.email = mails[m].email
  BY <1>r DEF Mail
<1>3. mails' = [mails EXCEPT ![m] = mail]
  BY <1>1
<1> HIDE DEF mail
<1>4. /\ mails' \in Seq(Mail) /\ Len(mails') = Len(mails)
      /\ \A k \in 1..Len(mails) : mails'[k] = IF k = m THEN mail ELSE mails[k]
  BY <1>r, <1>2, <1>3, ExceptSeq
<1>5. MailsKept
  BY <1>2, <1>4 DEF MailsKept
<1>6. codes' \in [Email -> Row] /\ CodesOnlyEnd
  <2>1. CASE MailSent(m)
    BY <2>1, <1>t, TypesSplit, TablesKept DEF MailSent, tables
  <2>2. CASE MailFails(m)
    <3> DEFINE e == mails[m].email
    <3>1. e \in Email /\ codes \in [Email -> Row] /\ codes[e] \in Row
      BY <1>r, <1>t, TypesSplit, TypedRows DEF Mail
    <3>2. PICK old \in Row : old = codes[e]
      BY <3>1
    <3> DEFINE row == [old EXCEPT !.code = 0, !.live = FALSE, !.recent = FALSE]
    <3>4. codes' = [codes EXCEPT ![e] = row]
      BY <2>2, <3>2 DEF MailFails
    <3>5. /\ row \in Row /\ row.code = 0 /\ ~row.live /\ row.attempts = codes[e].attempts
          /\ row.age = codes[e].age /\ row.sent = codes[e].sent
      BY <3>2, RowSpent
    <3> HIDE DEF e, row
    <3> QED BY <3>1, <3>4, <3>5 DEF CodesOnlyEnd
  <2> QED BY <2>1, <2>2
<1>7. UNCHANGED <<accounts, sessions, network, checked, history>>
  BY DEF MailSent, MailFails, tables
<1>8. Quiet
  BY <1>t, <1>5, <1>6, <1>7, TablesKept DEF Quiet
<1>9. TypeOK'
  BY <1>t, <1>4, <1>6, <1>7, <1>8, TypesSplit, QuietTyped
<1>10. CheckedFit'
  BY <1>7 DEF LoginInv, CheckedFit
<1> QED BY <1>8, <1>9, <1>10, QuietKeeps

LEMMA SessionEnds ==
  ASSUME LoginInv, NEW s \in 1..Len(sessions), Logout(s) \/ SessionExpires(s)
  PROVE  LoginInv'
<1>t. TypeOK
  BY DEF LoginInv
<1>1. SessionsOnlyEnd /\ sessions' \in Seq(SessionRow)
  BY <1>t, OneSessionEnds DEF Logout, SessionExpires
<1>2. UNCHANGED <<accounts, codes, network, mails, checked, history>>
  BY DEF Logout, SessionExpires
<1>3. Quiet
  BY <1>t, <1>1, <1>2, TablesKept DEF Quiet
<1>4. TypeOK'
  BY <1>t, <1>1, <1>2, <1>3, TypesSplit, QuietTyped
<1>5. CheckedFit'
  BY <1>2 DEF LoginInv, CheckedFit
<1> QED BY <1>3, <1>4, <1>5, QuietKeeps

LEMMA CheckSessionKeeps ==
  ASSUME LoginInv, NEW r \in Request, NEW s \in 1..Len(sessions),
         NEW op \in {"logout_all", "delete"}, CheckSession(r, s, op)
  PROVE  LoginInv'
<1>t. TypeOK
  BY DEF LoginInv
<1>1. UNCHANGED <<accounts, codes, sessions, network, mails, history>>
  BY DEF CheckSession, tables
<1>2. Quiet
  BY <1>t, <1>1, TablesKept DEF Quiet
<1> DEFINE row == [op |-> op, account |-> sessions[s].account]
<1>3. row \in CheckedRow /\ row.account \in 1..Len(accounts)
  BY <1>t, TypedRows DEF SessionRow, CheckedRow
<1>4. checked' = [checked EXCEPT ![r] = row]
  BY DEF CheckSession
<1> HIDE DEF row
<1>5. checked' \in [Request -> CheckedRow] /\ CheckedFit'
  BY <1>1, <1>3, <1>4, <1>t, TypesSplit DEF LoginInv, CheckedFit
<1>6. TypeOK'
  BY <1>t, <1>1, <1>2, <1>5, TypesSplit, QuietTyped
<1> QED BY <1>2, <1>5, <1>6, QuietKeeps

LEMMA LogoutAllKeeps ==
  ASSUME LoginInv, NEW r \in Request, LogoutAll(r)
  PROVE  LoginInv'
<1>t. TypeOK
  BY DEF LoginInv
<1>1. UNCHANGED <<accounts, codes, network, mails, history>>
  BY DEF LogoutAll
<1> DEFINE out == {s \in 1..Len(sessions) : sessions[s].account = checked[r].account}
<1>2. sessions' = [s \in 1..Len(sessions) |->
                     IF s \in out THEN [sessions[s] EXCEPT !.state = "out"] ELSE sessions[s]]
  BY DEF LogoutAll, SignedOut
<1>3. out \in SUBSET (1..Len(sessions))
  OBVIOUS
<1> HIDE DEF out
<1>4. SessionsOnlyEnd /\ sessions' \in Seq(SessionRow)
  BY <1>t, <1>2, <1>3, SessionsEnd
<1>5. Quiet
  BY <1>t, <1>1, <1>4, TablesKept DEF Quiet
<1>6. checked' = [checked EXCEPT ![r] = Unchecked] /\ Unchecked \in CheckedRow
  BY <1>t, TypedRows DEF LogoutAll, Unchecked, CheckedRow
<1>7. checked' \in [Request -> CheckedRow] /\ CheckedFit'
  BY <1>1, <1>6, <1>t, TypesSplit DEF LoginInv, CheckedFit, Unchecked
<1>8. TypeOK'
  BY <1>t, <1>1, <1>4, <1>5, <1>7, TypesSplit, QuietTyped
<1> QED BY <1>5, <1>7, <1>8, QuietKeeps

\* The minute before a resend passes, a code expires, and the housekeeping.
LEMMA ClockKeeps ==
  ASSUME LoginInv, NEW e \in Email, ResendOpens(e) \/ CodeExpires(e)
  PROVE  LoginInv'
<1>t. TypeOK
  BY DEF LoginInv
<1>c. codes \in [Email -> Row] /\ codes[e] \in Row
  BY <1>t, TypesSplit, TypedRows
<1>1. UNCHANGED <<accounts, sessions, network, mails, checked, history>>
  BY DEF ResendOpens, CodeExpires
<1>2. PICK row \in Row : /\ codes' = [codes EXCEPT ![e] = row]
                         /\ row.code = codes[e].code /\ row.attempts = codes[e].attempts
                         /\ row.age = codes[e].age /\ row.sent = codes[e].sent
                         /\ row.live => codes[e].live
  <2>1. CASE ResendOpens(e)
    <3>1. [codes[e] EXCEPT !.recent = FALSE] \in Row
      BY <1>c DEF Row
    <3> QED BY <2>1, <3>1, <1>c DEF ResendOpens, Row
  <2>2. CASE CodeExpires(e)
    <3>1. [codes[e] EXCEPT !.live = FALSE] \in Row
      BY <1>c DEF Row
    <3> QED BY <2>2, <3>1, <1>c DEF CodeExpires, Row
  <2> QED BY <2>1, <2>2
<1>3. codes' \in [Email -> Row] /\ CodesOnlyEnd
  BY <1>c, <1>2 DEF CodesOnlyEnd
<1>4. Quiet
  BY <1>t, <1>1, <1>3, TablesKept DEF Quiet
<1>5. TypeOK'
  BY <1>t, <1>1, <1>3, <1>4, TypesSplit, QuietTyped
<1>6. CheckedFit'
  BY <1>1 DEF LoginInv, CheckedFit
<1> QED BY <1>4, <1>5, <1>6, QuietKeeps

LEMMA PurgeKeeps ==
  ASSUME LoginInv, Purge
  PROVE  LoginInv'
<1>t. TypeOK
  BY DEF LoginInv
<1>1. UNCHANGED <<accounts, network, mails, checked, history>>
  BY DEF Purge
<1> DEFINE out == {s \in 1..Len(sessions) : sessions[s].state = "old"}
<1>2. sessions' = [s \in 1..Len(sessions) |->
                     IF s \in out THEN [sessions[s] EXCEPT !.state = "out"] ELSE sessions[s]]
  BY DEF Purge
<1>3. out \in SUBSET (1..Len(sessions))
  OBVIOUS
<1> HIDE DEF out
<1>4. SessionsOnlyEnd /\ sessions' \in Seq(SessionRow)
  BY <1>t, <1>2, <1>3, SessionsEnd
<1>5. NoRow \in Row
  BY LoginsAssumption DEF NoRow, Row
<1>6. codes' \in [Email -> Row] /\ CodesOnlyEnd
  <2>1. codes \in [Email -> Row]
    BY <1>t, TypesSplit
  <2>2. codes' = [e \in Email |-> IF ~codes[e].live /\ codes[e].age = 2 THEN NoRow ELSE codes[e]]
    BY DEF Purge
  <2>3. codes' \in [Email -> Row]
    BY <1>5, <2>1, <2>2
  <2>4. CodesOnlyEnd
    BY <2>2 DEF CodesOnlyEnd, NoRow
  <2> QED BY <2>3, <2>4
<1>7. Quiet
  BY <1>t, <1>1, <1>4, <1>6, TablesKept DEF Quiet
<1>8. TypeOK'
  BY <1>t, <1>1, <1>4, <1>6, <1>7, TypesSplit, QuietTyped
<1>9. CheckedFit'
  BY <1>1 DEF LoginInv, CheckedFit
<1> QED BY <1>7, <1>8, <1>9, QuietKeeps

-----------------------------------------------------------------------------
(* Signing in. *)

\* The session a sign-in makes, and the account it is of: one with the email itself, and no row
\* of the table was changed otherwise.
MadeSession(e, code, a) ==
  [account |-> a, code |-> code, fresh |-> code > forgotten[e], state |-> "valid"]

SignedIn(e, code, a) ==
  /\ accounts' \in Seq(Account)
  /\ Len(accounts) <= Len(accounts')
  /\ \A b \in 1..Len(accounts) :
       /\ accounts'[b].email = accounts[b].email
       /\ accounts'[b].hashed = accounts[b].hashed \/ accounts'[b].hashed = 0
  /\ a \in 1..Len(accounts')
  /\ accounts'[a].email = e /\ accounts'[a].hashed = 0
  /\ sessions' = Append(sessions, MadeSession(e, code, a))

LEMMA SignInShape ==
  ASSUME TypeOK, OneAccountEach, NEW e \in Email, NEW code, SignIn(e, code)
  PROVE  OneAccountEach' /\ \E a : SignedIn(e, code, a)
<1>1. PICK a \in 1..Len(accounts) + 1 :
        /\ IF Named(e, 0) # {} THEN a \in Named(e, 0) /\ UNCHANGED accounts
           ELSE IF Named(e, 1) # {} THEN a \in Named(e, 1) /\ accounts' = [accounts EXCEPT ![a].hashed = 0]
           ELSE a = Len(accounts) + 1 /\ accounts' = Append(accounts, [email |-> e, hashed |-> 0])
        /\ sessions' = Append(sessions, MadeSession(e, code, a))
  BY DEF SignIn, MadeSession
<1>2. /\ accounts \in Seq(Account) /\ Len(accounts) \in Nat
      /\ \A b \in 1..Len(accounts) : accounts[b] \in Account
  BY TypesSplit, TypedRows
<1>3. CASE Named(e, 0) # {}
  <2>1. UNCHANGED accounts /\ a \in 1..Len(accounts) /\ accounts[a] = [email |-> e, hashed |-> 0]
    BY <1>1, <1>3 DEF Named
  <2>2. OneAccountEach'
    BY <2>1 DEF OneAccountEach
  <2>3. SignedIn(e, code, a)
    BY <1>1, <1>2, <2>1 DEF SignedIn
  <2> QED BY <2>2, <2>3
<1>4. CASE Named(e, 0) = {} /\ Named(e, 1) # {}
  <2>1. /\ accounts' = [accounts EXCEPT ![a].hashed = 0]
        /\ a \in 1..Len(accounts) /\ accounts[a] = [email |-> e, hashed |-> 1]
    BY <1>1, <1>4 DEF Named
  <2> DEFINE row == [email |-> e, hashed |-> 0]
  <2>2. row \in Account
    BY DEF Account
  <2>3. accounts' = [accounts EXCEPT ![a] = row]
    <3>1. accounts' = [accounts EXCEPT ![a] = [accounts[a] EXCEPT !.hashed = 0]]
      BY <2>1
    <3>2. [accounts[a] EXCEPT !.hashed = 0] = row
      BY <2>1
    <3> HIDE DEF row
    <3> QED BY <3>1, <3>2
  <2> HIDE DEF row
  <2>4. /\ accounts' \in Seq(Account) /\ Len(accounts') = Len(accounts)
        /\ \A b \in 1..Len(accounts) : accounts'[b] = IF b = a THEN row ELSE accounts[b]
    BY <1>2, <2>1, <2>2, <2>3, ExceptSeq
  <2>5. row.email = e /\ row.hashed = 0
    BY DEF row
  <2>6. SignedIn(e, code, a)
    <3>1. sessions' = Append(sessions, MadeSession(e, code, a))
      BY <1>1
    <3>2. /\ accounts'[a].email = e /\ accounts'[a].hashed = 0
          /\ \A b \in 1..Len(accounts) :
               /\ accounts'[b].email = accounts[b].email
               /\ accounts'[b].hashed = accounts[b].hashed \/ accounts'[b].hashed = 0
      BY <2>1, <2>4, <2>5
    <3>3. a \in 1..Len(accounts') /\ Len(accounts) <= Len(accounts')
      BY <1>2, <2>1, <2>4
    <3> QED BY <2>4, <3>1, <3>2, <3>3 DEF SignedIn
  <2>7. ASSUME NEW b \in 1..Len(accounts), NEW c \in 1..Len(accounts), b # c,
               accounts'[b].email = accounts'[c].email
        PROVE  accounts'[b].hashed > 1 \/ accounts'[c].hashed > 1
    <3>1. accounts[b].email = accounts[c].email
      BY <2>1, <2>4, <2>5, <2>7
    <3>2. accounts[b].hashed > 1 \/ accounts[c].hashed > 1
      BY <3>1, <2>7 DEF OneAccountEach
    <3> QED BY <2>1, <2>4, <2>7, <3>2
  <2>8. OneAccountEach'
    BY <2>4, <2>7 DEF OneAccountEach
  <2> QED BY <2>6, <2>8
<1>5. CASE Named(e, 0) = {} /\ Named(e, 1) = {}
  <2> DEFINE row == [email |-> e, hashed |-> 0]
             n == Len(accounts) + 1
  <2>1. accounts' = Append(accounts, row) /\ a = n
    BY <1>1, <1>5
  <2>2. row \in Account
    BY DEF Account
  <2>3. row.email = e /\ row.hashed = 0
    OBVIOUS
  <2> HIDE DEF row
  <2>4. /\ accounts' \in Seq(Account) /\ Len(accounts') = n /\ accounts'[n] = row
        /\ \A b \in 1..Len(accounts) : accounts'[b] = accounts[b]
    BY <1>2, <2>1, <2>2, AppendProperties
  <2>5. n \in Nat /\ n \in 1..n /\ Len(accounts) <= n
    BY <1>2
  <2>6. SignedIn(e, code, a)
    BY <1>1, <2>1, <2>3, <2>4, <2>5 DEF SignedIn
  <2>7. ASSUME NEW b \in 1..Len(accounts), accounts[b].email = e
        PROVE  accounts[b].hashed > 1
    <3>1. accounts[b] \in Account /\ b \notin Named(e, 0) /\ b \notin Named(e, 1)
      BY <1>2, <1>5
    <3>2. accounts[b] # [email |-> e, hashed |-> 0] /\ accounts[b] # [email |-> e, hashed |-> 1]
      BY <3>1 DEF Named
    <3>3. accounts[b].hashed \in Nat /\ accounts[b].hashed # 0 /\ accounts[b].hashed # 1
      BY <2>7, <3>1, <3>2 DEF Account
    <3> QED BY <3>3
  <2>8. ASSUME NEW b \in 1..n, NEW c \in 1..n, b # c, accounts'[b].email = accounts'[c].email
        PROVE  accounts'[b].hashed > 1 \/ accounts'[c].hashed > 1
    <3>1. CASE b = n
      <4>1. c \in 1..Len(accounts)
        BY <1>2, <2>8, <3>1
      <4> QED BY <2>3, <2>4, <2>7, <2>8, <3>1, <4>1
    <3>2. CASE c = n
      <4>1. b \in 1..Len(accounts)
        BY <1>2, <2>8, <3>2
      <4> QED BY <2>3, <2>4, <2>7, <2>8, <3>2, <4>1
    <3>3. CASE b # n /\ c # n
      <4>1. b \in 1..Len(accounts) /\ c \in 1..Len(accounts)
        BY <1>2, <3>3
      <4> QED BY <2>4, <2>8, <4>1 DEF OneAccountEach
    <3> QED BY <3>1, <3>2, <3>3
  <2>9. OneAccountEach'
    BY <2>4, <2>8 DEF OneAccountEach
  <2> QED BY <2>6, <2>9
<1> QED BY <1>3, <1>4, <1>5

\* What the session is worth: it is the first of its code, and of the account of its email.
LEMMA SessionMade ==
  ASSUME LoginInv, NEW e \in Email, NEW code \in 0..Len(mails), NEW a, SignedIn(e, code, a),
         UNCHANGED mails,
         code # 0 => /\ code > forgotten[e] /\ mails[code].email = e
                     /\ \A s \in 1..Len(sessions) : sessions[s].code # code
  PROVE  /\ sessions' \in Seq(SessionRow') /\ Len(sessions') = Len(sessions) + 1
         /\ sessions'[Len(sessions) + 1].code = code
         /\ \A s \in 1..Len(sessions) : sessions'[s] = sessions[s]
         /\ DeletedIsSignedOut' /\ OpensOnce'
<1>t. TypeOK
  BY DEF LoginInv
<1> DEFINE n == Len(sessions) + 1
<1>1. /\ Len(sessions) \in Nat /\ Len(accounts) \in Nat /\ Len(accounts') \in Nat /\ Len(mails) \in Nat
      /\ sessions \in Seq(SessionRow) /\ \A s \in 1..Len(sessions) : sessions[s] \in SessionRow
      /\ forgotten[e] \in Nat
  <2>1. Len(accounts') \in Nat
    BY LenProperties DEF SignedIn
  <2> QED BY <1>t, <2>1, TypesSplit, TypedRows
<1>2. SessionRow \subseteq SessionRow'
  BY <1>1 DEF SessionRow, SignedIn
<1>3. PICK row : row = MadeSession(e, code, a)
  OBVIOUS
<1>4. /\ row.account = a /\ row.code = code /\ row.fresh = (code > forgotten[e])
      /\ row.state = "valid" /\ row \in SessionRow'
  BY <1>1, <1>3 DEF MadeSession, SessionRow, SignedIn
<1>5. sessions \in Seq(SessionRow') /\ sessions' = Append(sessions, row)
  BY <1>1, <1>2, <1>3, SeqMonotonic DEF SignedIn
<1>6. /\ sessions' \in Seq(SessionRow') /\ Len(sessions') = n /\ sessions'[n] = row
      /\ \A s \in 1..Len(sessions) : sessions'[s] = sessions[s]
  BY <1>4, <1>5, AppendProperties
<1>7. \A s \in 1..n : s = n \/ s \in 1..Len(sessions)
  BY <1>1
<1>8. DeletedIsSignedOut'
  <2>1. ASSUME NEW s \in 1..n, sessions'[s].state # "out"
        PROVE  accounts'[sessions'[s].account].hashed = 0
    <3>1. CASE s = n
      BY <1>4, <1>6, <3>1 DEF SignedIn
    <3>2. CASE s \in 1..Len(sessions)
      <4>1. sessions'[s] = sessions[s] /\ sessions[s].account \in 1..Len(accounts)
        BY <1>1, <1>6, <3>2 DEF SessionRow
      <4>2. accounts[sessions[s].account].hashed = 0
        BY <2>1, <3>2, <4>1 DEF LoginInv, DeletedIsSignedOut
      <4> QED BY <4>1, <4>2 DEF SignedIn
    <3> QED BY <1>7, <3>1, <3>2
  <2> QED BY <1>6, <2>1 DEF DeletedIsSignedOut
<1>9. OpensOnce'
  <2>1. ASSUME NEW s \in 1..n, sessions'[s].code # 0
        PROVE  /\ sessions'[s].fresh
               /\ accounts'[sessions'[s].account].email = mails[sessions'[s].code].email
               /\ \A t \in 1..n : t # s => sessions'[t].code # sessions'[s].code
    <3>1. CASE s = n
      <4>1. code # 0 /\ row.fresh
        BY <1>4, <1>6, <2>1, <3>1
      <4>2. accounts'[row.account].email = mails[row.code].email
        BY <1>4, <4>1 DEF SignedIn
      <4>3. \A t \in 1..n : t # n => sessions'[t].code # code
        BY <1>6, <1>7, <4>1
      <4> QED BY <1>4, <1>6, <3>1, <4>1, <4>2, <4>3
    <3>2. CASE s \in 1..Len(sessions)
      <4>1. /\ sessions'[s] = sessions[s] /\ sessions[s].account \in 1..Len(accounts)
            /\ sessions[s].code # 0
        BY <1>1, <1>6, <2>1, <3>2 DEF SessionRow
      <4>2. /\ sessions[s].fresh
            /\ accounts[sessions[s].account].email = mails[sessions[s].code].email
            /\ \A t \in 1..Len(sessions) : t # s => sessions[t].code # sessions[s].code
        BY <3>2, <4>1 DEF LoginInv, OpensOnce
      <4>3. accounts'[sessions[s].account].email = accounts[sessions[s].account].email
        BY <4>1 DEF SignedIn
      <4>4. sessions'[n].code # sessions[s].code
        BY <1>4, <1>6, <3>2, <4>1
      <4>5. \A t \in 1..n : t # s => sessions'[t].code # sessions[s].code
        BY <1>6, <1>7, <4>2, <4>4
      <4> QED BY <4>1, <4>2, <4>3, <4>5
    <3> QED BY <1>7, <3>1, <3>2
  <2> QED BY <1>6, <2>1 DEF OpensOnce
<1> QED BY <1>4, <1>6, <1>8, <1>9

\* The rows of the codes after a sign-in that spends the code of its email, or none.
LEMMA CodesAfterSignIn ==
  ASSUME LoginInv, NEW e \in Email, NEW code \in 0..Len(mails),
         UNCHANGED <<mails, wrong, forgotten>>,
         Len(sessions') = Len(sessions) + 1, sessions'[Len(sessions) + 1].code = code,
         \A s \in 1..Len(sessions) : sessions'[s] = sessions[s],
         \A o \in Email : \/ codes'[o] = codes[o] /\ (code = 0 \/ o # e)
                          \/ /\ codes'[o].code = 0 /\ codes'[o].live = FALSE
                             /\ codes'[o].attempts = codes[o].attempts,
         code # 0 => mails[code].email = e
  PROVE  CodesFit'
<1>1. Len(mails) \in Nat /\ Len(sessions) \in Nat
  BY TypedRows DEF LoginInv
<1> SUFFICES ASSUME NEW o \in Email PROVE RowFit(o)'
  BY DEF CodesFit
<1>2. RowFit(o)
  BY DEF LoginInv, CodesFit
<1>3. CASE codes'[o] = codes[o] /\ (code = 0 \/ o # e)
  <2>1. ASSUME codes[o].code # 0, NEW s \in 1..Len(sessions')
        PROVE  sessions'[s].code # codes[o].code
    <3>1. CASE s \in 1..Len(sessions)
      BY <1>2, <2>1, <3>1 DEF RowFit
    <3>2. CASE s = Len(sessions) + 1
      BY <1>2, <1>3, <2>1, <3>2 DEF RowFit
    <3> QED BY <1>1, <2>1, <3>1, <3>2
  <2> QED BY <1>2, <1>3, <2>1 DEF RowFit
<1>4. CASE codes'[o].code = 0 /\ codes'[o].live = FALSE /\ codes'[o].attempts = codes[o].attempts
  BY <1>1, <1>2, <1>4 DEF RowFit
<1> QED BY <1>3, <1>4

LEMMA CreateAccountKeeps ==
  ASSUME LoginInv, NEW e \in Email, CreateAccount(e)
  PROVE  LoginInv'
<1>t. TypeOK
  BY DEF LoginInv
<1>0. 0 \in 0..Len(mails) /\ Len(mails) \in Nat /\ Len(accounts) \in Nat
  BY <1>t, TypedRows
<1>1. UNCHANGED <<codes, network, mails, checked, history>> /\ SignIn(e, 0)
  BY DEF CreateAccount
<1>2. PICK a : SignedIn(e, 0, a)
  BY <1>1, SignInShape DEF LoginInv
<1>3. OneAccountEach'
  BY <1>1, SignInShape DEF LoginInv
<1>4. /\ sessions' \in Seq(SessionRow') /\ Len(sessions') = Len(sessions) + 1
      /\ sessions'[Len(sessions) + 1].code = 0
      /\ \A s \in 1..Len(sessions) : sessions'[s] = sessions[s]
      /\ DeletedIsSignedOut' /\ OpensOnce'
  BY <1>0, <1>1, <1>2, SessionMade
<1>5. CodesFit'
  BY <1>0, <1>1, <1>4, CodesAfterSignIn DEF history
<1>6. DayFit' /\ WrongFit' /\ SignupsFit'
  BY <1>1 DEF LoginInv, DayFit, WrongFit, SignupsFit, history
<1>7. CheckedRow \subseteq CheckedRow' /\ Len(accounts') \in Nat
  <2>1. Len(accounts') \in Nat
    BY <1>2, LenProperties DEF SignedIn
  <2> QED BY <1>0, <1>2, <2>1 DEF CheckedRow, SignedIn
<1>8. checked' \in [Request -> CheckedRow']
  BY <1>1, <1>7, <1>t, TypesSplit
<1>9. CheckedFit'
  BY <1>0, <1>1, <1>2, <1>7 DEF LoginInv, CheckedFit, SignedIn
<1>10. TypeOK'
  BY <1>1, <1>2, <1>4, <1>8, <1>t, TypesSplit, TypesNext DEF history, SignedIn
<1> QED BY <1>3, <1>4, <1>5, <1>6, <1>9, <1>10 DEF LoginInv

LEMMA VerifyLoginKeeps ==
  ASSUME LoginInv, NEW e \in Email, VerifyLogin(e)
  PROVE  LoginInv'
<1>t. TypeOK
  BY DEF LoginInv
<1>0. Len(mails) \in Nat /\ Len(accounts) \in Nat /\ codes \in [Email -> Row] /\ codes[e] \in Row
  BY <1>t, TypesSplit, TypedRows
<1>c. PICK code : code = codes[e].code
  OBVIOUS
<1>1. UNCHANGED <<mails, checked, days, today, wrong, forgotten>> /\ SignIn(e, code)
  BY <1>c DEF VerifyLogin
<1>r. RowFit(e)
  BY DEF LoginInv, CodesFit
<1>2. /\ code \in 0..Len(mails) /\ code # 0 /\ code > forgotten[e] /\ mails[code].email = e
      /\ \A s \in 1..Len(sessions) : sessions[s].code # code
  BY <1>c, <1>r DEF RowFit, VerifyLogin, Enterable
<1>3. OneAccountEach'
  BY <1>1, SignInShape DEF LoginInv
<1>4. PICK a : SignedIn(e, code, a)
  BY <1>1, SignInShape DEF LoginInv
<1>5. /\ sessions' \in Seq(SessionRow') /\ Len(sessions') = Len(sessions) + 1
      /\ sessions'[Len(sessions) + 1].code = code
      /\ \A s \in 1..Len(sessions) : sessions'[s] = sessions[s]
      /\ DeletedIsSignedOut' /\ OpensOnce'
  BY <1>1, <1>2, <1>4, SessionMade
<1>6. PICK row \in Row : /\ codes' = [codes EXCEPT ![e] = row]
                         /\ row.code = 0 /\ row.live = FALSE /\ row.attempts = codes[e].attempts
                         /\ row.age = codes[e].age /\ row.sent = codes[e].sent
  <2>1. PICK old \in Row : old = codes[e]
    BY <1>0
  <2> DEFINE row == [old EXCEPT !.code = 0, !.live = FALSE]
  <2>2. codes' = [codes EXCEPT ![e] = row]
    BY <2>1 DEF VerifyLogin
  <2>3. /\ row \in Row /\ row.code = 0 /\ row.live = FALSE /\ row.attempts = old.attempts
        /\ row.age = old.age /\ row.sent = old.sent
    BY RowSpent
  <2> HIDE DEF row
  <2> QED BY <2>1, <2>2, <2>3
<1>7. \A o \in Email : codes'[o] = IF o = e THEN row ELSE codes[o]
  BY <1>0, <1>6
<1>8. CodesFit'
  <2>1. \A o \in Email : \/ codes'[o] = codes[o] /\ (code = 0 \/ o # e)
                         \/ /\ codes'[o].code = 0 /\ codes'[o].live = FALSE
                            /\ codes'[o].attempts = codes[o].attempts
    BY <1>6, <1>7
  <2> QED BY <1>1, <1>2, <1>5, <2>1, CodesAfterSignIn
<1>9. DayFit'
  <2>1. \A o \in Email : codes'[o].age = codes[o].age /\ codes'[o].sent = codes[o].sent
    BY <1>6, <1>7
  <2> QED BY <1>1, <2>1 DEF LoginInv, DayFit
<1>10. /\ network' \in [starts : 0..StartsPerNetwork, signups : 0..SignupsPerNetwork]
       /\ signups' \in Nat /\ SignupsFit'
  <2>1. /\ network \in [starts : 0..StartsPerNetwork, signups : 0..SignupsPerNetwork]
        /\ signups \in Nat /\ signups = network.signups
    BY <1>t, TypesSplit DEF LoginInv, SignupsFit
  <2>2. CASE Known(e)
    BY <2>1, <2>2 DEF VerifyLogin, SignupsFit
  <2>3. CASE ~Known(e)
    <3>1. /\ network.signups < SignupsPerNetwork /\ signups' = signups + 1
          /\ network' = [network EXCEPT !.signups = @ + 1]
      BY <2>3 DEF VerifyLogin
    <3>2. network.signups + 1 \in 0..SignupsPerNetwork
      BY <2>1, <3>1, LoginsAssumption
    <3>3. network'.signups = network.signups + 1
      BY <2>1, <3>1
    <3>4. network' \in [starts : 0..StartsPerNetwork, signups : 0..SignupsPerNetwork]
      BY <2>1, <3>1, <3>2
    <3> QED BY <2>1, <3>1, <3>3, <3>4 DEF SignupsFit
  <2> QED BY <2>2, <2>3
<1>11. WrongFit'
  BY <1>1 DEF LoginInv, WrongFit
<1>12. CheckedRow \subseteq CheckedRow' /\ Len(accounts') \in Nat
  <2>1. Len(accounts') \in Nat
    BY <1>4, LenProperties DEF SignedIn
  <2> QED BY <1>0, <1>4, <2>1 DEF CheckedRow, SignedIn
<1>13. checked' \in [Request -> CheckedRow']
  BY <1>1, <1>12, <1>t, TypesSplit
<1>14. CheckedFit'
  BY <1>0, <1>1, <1>4, <1>12 DEF LoginInv, CheckedFit, SignedIn
<1>15. codes' \in [Email -> Row]
  BY <1>0, <1>6
<1>16. TypeOK'
  BY <1>1, <1>4, <1>5, <1>10, <1>13, <1>15, <1>t, TypesSplit, TypesNext DEF SignedIn
<1> QED BY <1>3, <1>5, <1>8, <1>9, <1>10, <1>11, <1>14, <1>16 DEF LoginInv

-----------------------------------------------------------------------------
(* Codes that are asked for and guessed, deletions and midnight. *)

LEMMA StartLoginKeeps ==
  ASSUME LoginInv, NEW e \in Email, StartLogin(e)
  PROVE  LoginInv'
<1>t. TypeOK
  BY DEF LoginInv
<1> DEFINE n == Len(mails) + 1
           sentToday == IF codes[e].age = 0 THEN codes[e].sent ELSE 0
<1>0. /\ Len(mails) \in Nat /\ codes \in [Email -> Row] /\ codes[e] \in Row /\ mails \in Seq(Mail)
      /\ Len(sessions) \in Nat /\ \A s \in 1..Len(sessions) : sessions[s] \in SessionRow
      /\ wrong \in Seq(Nat) /\ Len(wrong) = Len(mails) /\ today \in [Email -> DayRow]
      /\ forgotten \in [Email -> 0..Len(mails)]
  BY <1>t, TypesSplit, TypedRows
<1>1. UNCHANGED <<accounts, sessions, checked, days, signups, forgotten>>
  BY DEF StartLogin
<1>2. Len(mails) < MaxCodes /\ sentToday < CodesPerDay /\ sentToday \in Nat /\ n \in 1..MaxCodes
  <2>1. Len(mails) < MaxCodes /\ sentToday < CodesPerDay
    BY DEF StartLogin
  <2>2. sentToday \in Nat
    BY <1>0 DEF Row
  <2>3. n \in 1..MaxCodes
    BY <1>0, <2>1, LoginsAssumption
  <2> QED BY <2>1, <2>2, <2>3
<1>3. PICK row : row = [code |-> n, live |-> TRUE, recent |-> TRUE, attempts |-> 0,
                        sent |-> sentToday + 1, age |-> 0]
  OBVIOUS
<1>4. /\ row.code = n /\ row.live = TRUE /\ row.attempts = 0 /\ row.sent = sentToday + 1
      /\ row.age = 0
  BY <1>3
<1>5. row \in Row
  BY <1>2, <1>3 DEF Row
<1>6. codes' = [codes EXCEPT ![e] = row]
  BY <1>3 DEF StartLogin
<1>7. PICK mail : mail = [email |-> e, state |-> "sending"]
  OBVIOUS
<1>8. mail \in Mail /\ mail.email = e /\ mails' = Append(mails, mail)
  BY <1>7 DEF Mail, StartLogin
<1>9. /\ mails' \in Seq(Mail) /\ Len(mails') = n /\ mails'[n].email = e
      /\ \A m \in 1..Len(mails) : mails'[m] = mails[m]
  BY <1>0, <1>8, AppendProperties
<1>10. wrong' = Append(wrong, 0)
  BY DEF StartLogin
<1>11. /\ wrong' \in Seq(Nat) /\ Len(wrong') = n /\ wrong'[n] = 0
       /\ \A m \in 1..Len(mails) : wrong'[m] = wrong[m]
  BY <1>0, <1>10, AppendProperties
<1>12. n \in Nat /\ \A m \in 1..n : m = n \/ m \in 1..Len(mails)
  <2>1. Len(mails) \in Nat
    BY <1>0
  <2> QED BY <2>1
<1> HIDE DEF n
<1>13. WrongFit'
  <2>1. \A m \in 1..n : wrong'[m] <= AttemptsPerCode
    <3> SUFFICES ASSUME NEW m \in 1..n PROVE wrong'[m] <= AttemptsPerCode
      OBVIOUS
    <3>1. CASE m = n
      BY <1>11, <3>1, LoginsAssumption
    <3>2. CASE m \in 1..Len(mails)
      BY <1>11, <3>2 DEF LoginInv, WrongFit
    <3> QED BY <1>12, <3>1, <3>2
  <2> QED BY <1>9, <2>1 DEF WrongFit
<1>14. CodesFit'
  <2> SUFFICES ASSUME NEW o \in Email PROVE RowFit(o)'
    BY DEF CodesFit
  <2>1. RowFit(o)
    BY DEF LoginInv, CodesFit
  <2>2. CASE o = e
    <3>1. codes'[o] = row
      BY <1>0, <1>6, <2>2
    <3>2. n > forgotten[o] /\ n # 0 /\ n \in 0..n
      BY <1>0 DEF n
    <3>3. \A s \in 1..Len(sessions) : sessions[s].code # n
      BY <1>0 DEF n, SessionRow
    <3> QED BY <1>1, <1>4, <1>9, <1>11, <2>2, <3>1, <3>2, <3>3, LoginsAssumption DEF RowFit
  <2>3. CASE o # e
    <3>1. codes'[o] = codes[o]
      BY <1>0, <1>6, <2>3
    <3>2. codes[o].code \in 0..n /\ (codes[o].code # 0 => codes[o].code \in 1..Len(mails))
      BY <1>0, <2>1 DEF RowFit, n
    <3> QED BY <1>1, <1>9, <1>11, <2>1, <3>1, <3>2 DEF RowFit
  <2> QED BY <2>2, <2>3
<1>15. PICK day : day = [today[e] EXCEPT !.asked = @ + 1]
  OBVIOUS
<1>16. day \in DayRow /\ day.asked = today[e].asked + 1 /\ day.dropped = today[e].dropped
  <2>1. PICK old \in DayRow : old = today[e]
    BY <1>0
  <2>2. day = [old EXCEPT !.asked = old.asked + 1]
    BY <1>15, <2>1
  <2>3. day \in DayRow /\ day.asked = old.asked + 1 /\ day.dropped = old.dropped
    BY <2>2 DEF DayRow
  <2> QED BY <2>1, <2>3
<1>17. today' = [today EXCEPT ![e] = day]
  BY <1>15 DEF StartLogin
<1>18. today' \in [Email -> DayRow]
  BY <1>0, <1>16, <1>17
<1>19. DayFit'
  <2> SUFFICES ASSUME NEW o \in Email
               PROVE  /\ codes'[o].age = 0 => codes'[o].sent <= CodesPerDay
                      /\ ~today'[o].dropped =>
                           /\ codes'[o].age = 0 => today'[o].asked <= codes'[o].sent
                           /\ codes'[o].age # 0 => today'[o].asked = 0
    BY DEF DayFit
  <2>1. /\ codes[o].age = 0 => codes[o].sent <= CodesPerDay
        /\ ~today[o].dropped => /\ codes[o].age = 0 => today[o].asked <= codes[o].sent
                                /\ codes[o].age # 0 => today[o].asked = 0
    BY DEF LoginInv, DayFit
  <2>2. CASE o = e
    <3>1. codes'[o] = row /\ today'[o] = day /\ today[e].asked \in Nat
      BY <1>0, <1>6, <1>17, <2>2 DEF DayRow
    <3>2. ~today[e].dropped => today[e].asked <= sentToday
      BY <2>1, <2>2
    <3>3. sentToday + 1 <= CodesPerDay
      BY <1>2, LoginsAssumption
    <3> HIDE DEF sentToday
    <3> QED BY <1>2, <1>4, <1>16, <3>1, <3>2, <3>3
  <2>3. CASE o # e
    BY <1>0, <1>6, <1>17, <2>1, <2>3
  <2> QED BY <2>2, <2>3
<1>20. /\ network' \in [starts : 0..StartsPerNetwork, signups : 0..SignupsPerNetwork]
       /\ network'.signups = network.signups
  <2>1. /\ network \in [starts : 0..StartsPerNetwork, signups : 0..SignupsPerNetwork]
        /\ network' = [network EXCEPT !.starts = @ + 1] /\ network.starts < StartsPerNetwork
    BY <1>t, TypesSplit DEF StartLogin
  <2>2. network.starts + 1 \in 0..StartsPerNetwork
    BY <2>1, LoginsAssumption
  <2> QED BY <2>1, <2>2
<1>21. SignupsFit' /\ CheckedFit' /\ OneAccountEach' /\ DeletedIsSignedOut'
  BY <1>1, <1>20 DEF LoginInv, SignupsFit, CheckedFit, OneAccountEach, DeletedIsSignedOut
<1>22. OpensOnce'
  <2>1. \A s \in 1..Len(sessions) : sessions[s].code # 0 => sessions[s].code \in 1..Len(mails)
    BY <1>0 DEF SessionRow
  <2> QED BY <1>1, <1>9, <2>1 DEF LoginInv, OpensOnce
<1>23. SessionRow \subseteq SessionRow' /\ CheckedRow' = CheckedRow /\ 0..Len(mails) \subseteq 0..Len(mails')
  BY <1>0, <1>1, <1>9 DEF SessionRow, CheckedRow, n
<1>24. sessions' \in Seq(SessionRow') /\ forgotten' \in [Email -> 0..Len(mails')]
  <2>1. sessions \in Seq(SessionRow')
    BY <1>t, <1>23, TypesSplit, SeqMonotonic
  <2> QED BY <1>0, <1>1, <1>23, <2>1
<1>25. codes' \in [Email -> Row]
  BY <1>0, <1>5, <1>6
<1>26. TypeOK'
  BY <1>1, <1>9, <1>11, <1>18, <1>20, <1>23, <1>24, <1>25, <1>t, TypesSplit, TypesNext
<1> QED BY <1>13, <1>14, <1>19, <1>21, <1>22, <1>26 DEF LoginInv

LEMMA WrongCodeKeeps ==
  ASSUME LoginInv, NEW e \in Email, WrongCode(e)
  PROVE  LoginInv'
<1>t. TypeOK
  BY DEF LoginInv
<1>0. /\ Len(mails) \in Nat /\ codes \in [Email -> Row] /\ codes[e] \in Row
      /\ wrong \in Seq(Nat) /\ Len(wrong) = Len(mails) /\ \A m \in 1..Len(mails) : wrong[m] \in Nat
  BY <1>t, TypesSplit, TypedRows
<1>1. UNCHANGED <<accounts, sessions, network, mails, checked, days, today, signups, forgotten>>
  BY DEF WrongCode
<1>r. RowFit(e)
  BY DEF LoginInv, CodesFit
<1>2. PICK old \in Row : old = codes[e]
  BY <1>0
<1>3. PICK k : k = old.code
  OBVIOUS
<1>4. /\ k \in 1..Len(mails) /\ mails[k].email = e /\ wrong[k] = old.attempts
      /\ old.attempts \in Nat /\ old.attempts + 1 <= AttemptsPerCode
  <2>1. k \in 0..Len(mails) /\ k # 0 /\ mails[k].email = e /\ wrong[k] = old.attempts
    BY <1>2, <1>3, <1>r DEF RowFit, WrongCode, Enterable
  <2>2. old.attempts \in Nat /\ old.attempts < AttemptsPerCode
    BY <1>2 DEF Row, WrongCode, Enterable
  <2> QED BY <1>0, <2>1, <2>2, LoginsAssumption
<1>5. PICK row : row = [old EXCEPT !.attempts = old.attempts + 1]
  OBVIOUS
<1>6. /\ row \in Row /\ row.code = k /\ row.live = old.live /\ row.attempts = old.attempts + 1
      /\ row.age = old.age /\ row.sent = old.sent
  BY <1>3, <1>4, <1>5 DEF Row
<1>7. codes' = [codes EXCEPT ![e] = row]
  BY <1>2, <1>5 DEF WrongCode
<1>8. codes' \in [Email -> Row] /\ \A o \in Email : codes'[o] = IF o = e THEN row ELSE codes[o]
  BY <1>0, <1>6, <1>7
<1>9. wrong' = [wrong EXCEPT ![k] = old.attempts + 1]
  BY <1>2, <1>3, <1>4 DEF WrongCode
<1>10. /\ wrong' \in Seq(Nat) /\ Len(wrong') = Len(mails)
       /\ \A m \in 1..Len(mails) : wrong'[m] = IF m = k THEN old.attempts + 1 ELSE wrong[m]
  <2>1. old.attempts + 1 \in Nat
    BY <1>4
  <2> QED BY <1>0, <1>4, <1>9, <2>1, ExceptSeq
<1>11. WrongFit'
  BY <1>1, <1>4, <1>10 DEF LoginInv, WrongFit
<1>12. CodesFit'
  <2> SUFFICES ASSUME NEW o \in Email PROVE RowFit(o)'
    BY DEF CodesFit
  <2>1. RowFit(o)
    BY DEF LoginInv, CodesFit
  <2>2. CASE o = e
    <3>1. codes'[o] = row /\ wrong'[k] = old.attempts + 1
      BY <1>4, <1>8, <1>10, <2>2
    <3> QED BY <1>1, <1>2, <1>3, <1>4, <1>6, <2>1, <2>2, <3>1 DEF RowFit
  <2>3. CASE o # e
    <3>1. codes'[o] = codes[o] /\ (codes[o].code # 0 => codes[o].code \in 1..Len(mails))
      BY <1>0, <1>8, <2>1, <2>3 DEF RowFit
    <3>2. codes[o].code # 0 => codes[o].code # k
      BY <1>4, <2>1, <2>3 DEF RowFit
    <3> QED BY <1>1, <1>10, <2>1, <3>1, <3>2 DEF RowFit
  <2> QED BY <2>2, <2>3
<1>13. DayFit'
  <2>1. \A o \in Email : codes'[o].age = codes[o].age /\ codes'[o].sent = codes[o].sent
    BY <1>2, <1>6, <1>8
  <2> QED BY <1>1, <2>1 DEF LoginInv, DayFit
<1>14. OneAccountEach' /\ DeletedIsSignedOut' /\ OpensOnce' /\ SignupsFit' /\ CheckedFit'
  BY <1>1 DEF LoginInv, OneAccountEach, DeletedIsSignedOut, OpensOnce, SignupsFit, CheckedFit
<1>15. SessionRow' = SessionRow /\ CheckedRow' = CheckedRow
  BY <1>1 DEF SessionRow, CheckedRow
<1>16. TypeOK'
  BY <1>1, <1>8, <1>10, <1>15, <1>t, TypesSplit, TypesNext
<1> QED BY <1>11, <1>12, <1>13, <1>14, <1>16 DEF LoginInv

LEMMA NewDayKeeps ==
  ASSUME LoginInv, NewDay
  PROVE  LoginInv'
<1>t. TypeOK
  BY DEF LoginInv
<1>0. codes \in [Email -> Row] /\ \A e \in Email : codes[e] \in Row
  BY <1>t, TypesSplit
<1>1. UNCHANGED <<accounts, sessions, mails, checked, wrong, forgotten>>
  BY DEF NewDay
<1>2. codes' = [e \in Email |-> [codes[e] EXCEPT !.age = IF codes[e].age = 2 THEN 2 ELSE codes[e].age + 1]]
  BY DEF NewDay
<1>3. ASSUME NEW e \in Email
      PROVE  /\ codes'[e] \in Row /\ codes'[e].code = codes[e].code /\ codes'[e].live = codes[e].live
             /\ codes'[e].attempts = codes[e].attempts /\ codes'[e].age # 0
  <2>1. PICK old \in Row : old = codes[e]
    BY <1>0
  <2>2. PICK age : age = IF old.age = 2 THEN 2 ELSE old.age + 1
    OBVIOUS
  <2>3. age \in 1..2
    BY <2>2 DEF Row
  <2>4. codes'[e] = [old EXCEPT !.age = age]
    BY <1>2, <2>1, <2>2
  <2>5. PICK row : row = [old EXCEPT !.age = age]
    OBVIOUS
  <2>6. /\ row \in Row /\ row.code = old.code /\ row.live = old.live
        /\ row.attempts = old.attempts /\ row.age = age
    BY <2>3, <2>5 DEF Row
  <2> QED BY <2>1, <2>3, <2>4, <2>5, <2>6
<1>4. codes' \in [Email -> Row]
  BY <1>2, <1>3
<1>5. CodesFit'
  BY <1>1, <1>3 DEF LoginInv, CodesFit, RowFit
<1>6. /\ today' = [e \in Email |-> [asked |-> 0, dropped |-> FALSE]]
      /\ [asked |-> 0, dropped |-> FALSE] \in DayRow
  BY DEF NewDay, DayRow
<1>7. DayFit' /\ today' \in [Email -> DayRow]
  BY <1>3, <1>6 DEF DayFit
<1>8. /\ network' \in [starts : 0..StartsPerNetwork, signups : 0..SignupsPerNetwork]
      /\ signups' \in Nat /\ SignupsFit' /\ days' \in 0..MaxDays
  BY <1>t, TypesSplit, LoginsAssumption DEF NewDay, SignupsFit
<1>9. OneAccountEach' /\ DeletedIsSignedOut' /\ OpensOnce' /\ WrongFit' /\ CheckedFit'
  BY <1>1 DEF LoginInv, OneAccountEach, DeletedIsSignedOut, OpensOnce, WrongFit, CheckedFit
<1>10. SessionRow' = SessionRow /\ CheckedRow' = CheckedRow
  BY <1>1 DEF SessionRow, CheckedRow
<1>11. TypeOK'
  BY <1>1, <1>4, <1>7, <1>8, <1>10, <1>t, TypesSplit, TypesNext
<1> QED BY <1>5, <1>7, <1>8, <1>9, <1>11 DEF LoginInv

\* Whether UNIQUE refuses it or not.
LEMMA DeleteAccountKeeps ==
  ASSUME LoginInv, NEW r \in Request, DeleteAccount(r)
  PROVE  LoginInv'
<1>t. TypeOK
  BY DEF LoginInv
<1>0. /\ Len(mails) \in Nat /\ Len(accounts) \in Nat /\ Len(sessions) \in Nat
      /\ accounts \in Seq(Account) /\ \A b \in 1..Len(accounts) : accounts[b] \in Account
      /\ codes \in [Email -> Row] /\ today \in [Email -> DayRow]
      /\ forgotten \in [Email -> 0..Len(mails)]
      /\ checked \in [Request -> CheckedRow]
  BY <1>t, TypesSplit, TypedRows
<1>1. UNCHANGED <<mails, days, wrong, signups>> /\ checked' = [checked EXCEPT ![r] = Unchecked]
  BY DEF DeleteAccount
<1>2. PICK a : a = checked[r].account
  OBVIOUS
<1>3. a \in 1..Len(accounts) /\ accounts[a] \in Account
  BY <1>0, <1>2 DEF LoginInv, CheckedFit, DeleteAccount
<1>4. PICK e, again : e = accounts[a].email /\ again = accounts[a].hashed + 1
  OBVIOUS
<1>5. e \in Email /\ again \in Nat /\ again >= 1
  BY <1>3, <1>4 DEF Account
<1>6. Unchecked \in CheckedRow
  BY <1>0 DEF Unchecked, CheckedRow
<1>7. checked' \in [Request -> CheckedRow]
  BY <1>0, <1>1, <1>6
<1>8. CASE UNCHANGED <<tables, today, forgotten>>
  <2>1. Quiet
    BY <1>1, <1>8, <1>t, TablesKept DEF Quiet, history, tables
  <2>2. CheckedFit'
    BY <1>1, <1>8, <1>t, TypesSplit DEF LoginInv, CheckedFit, Unchecked, tables
  <2>3. TypeOK'
    BY <1>1, <1>7, <1>8, <1>t, <2>1, TypesSplit, QuietTyped DEF tables
  <2> QED BY <2>1, <2>2, <2>3, QuietKeeps
<1>9. CASE /\ sessions' = SignedOut(a)
           /\ accounts' = [accounts EXCEPT ![a].hashed = again]
           /\ codes' = IF again = 1 THEN [codes EXCEPT ![e] = NoRow] ELSE codes
           /\ today' = IF again = 1 THEN [today EXCEPT ![e].dropped = TRUE] ELSE today
           /\ forgotten' = IF again = 1 THEN [forgotten EXCEPT ![e] = Len(mails)] ELSE forgotten
           /\ UNCHANGED network
  <2>1. PICK row : row = [accounts[a] EXCEPT !.hashed = again]
    OBVIOUS
  <2>2. row \in Account /\ row.email = e /\ row.hashed = again
    BY <1>3, <1>4, <1>5, <2>1 DEF Account
  <2>3. accounts' = [accounts EXCEPT ![a] = row]
    BY <1>9, <2>1
  <2>4. /\ accounts' \in Seq(Account) /\ Len(accounts') = Len(accounts)
        /\ \A b \in 1..Len(accounts) : accounts'[b] = IF b = a THEN row ELSE accounts[b]
    BY <1>0, <1>3, <2>2, <2>3, ExceptSeq
  <2>5. \A b \in 1..Len(accounts) : accounts'[b].email = accounts[b].email
    BY <1>4, <2>2, <2>4
  <2>6. OneAccountEach'
    <3>1. ASSUME NEW b \in 1..Len(accounts), NEW c \in 1..Len(accounts), b # c,
                 accounts[b].email = accounts[c].email
          PROVE  accounts'[b].hashed > 1 \/ accounts'[c].hashed > 1
      <4>1. accounts[b].hashed > 1 \/ accounts[c].hashed > 1
        BY <3>1 DEF LoginInv, OneAccountEach
      <4>2. accounts[b].hashed \in Nat /\ accounts[c].hashed \in Nat
        BY <1>0 DEF Account
      <4>3. \A d \in {b, c} : accounts'[d].hashed = IF d = a THEN accounts[d].hashed + 1 ELSE accounts[d].hashed
        BY <1>4, <2>2, <2>4
      <4> QED BY <4>1, <4>2, <4>3
    <3> QED BY <2>4, <2>5, <3>1 DEF OneAccountEach
  <2> DEFINE out == {s \in 1..Len(sessions) : sessions[s].account = a}
  <2>7. sessions' = [s \in 1..Len(sessions) |->
                       IF s \in out THEN [sessions[s] EXCEPT !.state = "out"] ELSE sessions[s]]
    BY <1>9 DEF SignedOut
  <2>8. out \in SUBSET (1..Len(sessions))
    OBVIOUS
  <2>9. \A s \in 1..Len(sessions) : sessions[s].account = a => s \in out
    OBVIOUS
  <2> HIDE DEF out
  <2>10. SessionsOnlyEnd /\ sessions' \in Seq(SessionRow)
    BY <1>t, <2>7, <2>8, SessionsEnd
  <2>11. \A s \in 1..Len(sessions) : sessions[s].account = a => sessions'[s].state = "out"
    <3>1. ASSUME NEW s \in 1..Len(sessions), sessions[s].account = a PROVE sessions'[s].state = "out"
      <4>1. sessions'[s] = [sessions[s] EXCEPT !.state = "out"]
        BY <2>7, <2>9, <3>1
      <4>2. sessions[s] \in SessionRow
        BY <1>t, TypedRows
      <4> QED BY <4>1, <4>2 DEF SessionRow
    <3> QED BY <3>1
  <2>12. DeletedIsSignedOut'
    <3>1. ASSUME NEW s \in 1..Len(sessions), sessions'[s].state # "out"
          PROVE  accounts'[sessions'[s].account].hashed = 0
      <4>1. /\ sessions'[s].account = sessions[s].account /\ sessions[s].account # a
            /\ sessions[s].state # "out"
        BY <2>10, <2>11, <3>1 DEF SessionsOnlyEnd
      <4>2. sessions[s].account \in 1..Len(accounts)
        BY <1>t, TypedRows DEF SessionRow
      <4>3. accounts[sessions[s].account].hashed = 0
        BY <4>1 DEF LoginInv, DeletedIsSignedOut
      <4> QED BY <2>4, <4>1, <4>2, <4>3
    <3> QED BY <2>10, <3>1 DEF DeletedIsSignedOut, SessionsOnlyEnd
  <2>13. NoRow \in Row
    BY LoginsAssumption DEF NoRow, Row
  <2>14. /\ codes' \in [Email -> Row]
         /\ \A o \in Email : codes'[o] = IF again = 1 /\ o = e THEN NoRow ELSE codes[o]
    BY <1>0, <1>5, <1>9, <2>13
  <2>15. /\ forgotten' \in [Email -> 0..Len(mails)]
         /\ \A o \in Email : forgotten'[o] = IF again = 1 /\ o = e THEN Len(mails) ELSE forgotten[o]
    BY <1>0, <1>5, <1>9
  <2>16. /\ today' \in [Email -> DayRow]
         /\ \A o \in Email : IF again = 1 /\ o = e THEN today'[o].dropped = TRUE ELSE today'[o] = today[o]
    <3>1. PICK day : day = [today[e] EXCEPT !.dropped = TRUE]
      OBVIOUS
    <3>2. day \in DayRow /\ day.dropped = TRUE
      BY <1>0, <1>5, <3>1 DEF DayRow
    <3>3. today' = IF again = 1 THEN [today EXCEPT ![e] = day] ELSE today
      BY <1>9, <3>1
    <3> QED BY <1>0, <1>5, <3>2, <3>3
  <2>17. CodesFit'
    <3> SUFFICES ASSUME NEW o \in Email PROVE RowFit(o)'
      BY DEF CodesFit
    <3>1. RowFit(o)
      BY DEF LoginInv, CodesFit
    <3>2. CASE again = 1 /\ o = e
      <4>1. codes'[o].code = 0 /\ codes'[o].live = FALSE /\ codes'[o].attempts = 0
        BY <2>14, <3>2 DEF NoRow
      <4> QED BY <1>0, <1>1, <4>1, LoginsAssumption DEF RowFit
    <3>3. CASE ~(again = 1 /\ o = e)
      <4>1. codes'[o] = codes[o] /\ forgotten'[o] = forgotten[o]
        BY <2>14, <2>15, <3>3
      <4>2. codes[o].code # 0 => \A s \in 1..Len(sessions') : sessions'[s].code # codes[o].code
        BY <2>10, <3>1 DEF RowFit, SessionsOnlyEnd
      <4> QED BY <1>1, <3>1, <4>1, <4>2 DEF RowFit
    <3> QED BY <3>2, <3>3
  <2>18. DayFit'
    <3>1. NoRow.age = 2
      BY DEF NoRow
    <3> QED BY <2>14, <2>16, <3>1 DEF LoginInv, DayFit
  <2>19. OpensOnce'
    <3>1. \A s \in 1..Len(sessions) : sessions[s].account \in 1..Len(accounts)
      BY <1>t, TypedRows DEF SessionRow
    <3>2. /\ Len(sessions') = Len(sessions)
          /\ \A s \in 1..Len(sessions) : /\ sessions'[s].account = sessions[s].account
                                        /\ sessions'[s].code = sessions[s].code
                                        /\ sessions'[s].fresh = sessions[s].fresh
      BY <2>10 DEF SessionsOnlyEnd
    <3>3. OpensOnce /\ mails' = mails
      BY <1>1 DEF LoginInv
    <3>4. \A s \in 1..Len(sessions) :
            accounts'[sessions[s].account].email = accounts[sessions[s].account].email
      BY <1>1, <2>5, <3>1
    <3> QED BY <3>2, <3>3, <3>4 DEF OpensOnce
  <2>20. WrongFit' /\ SignupsFit'
    BY <1>1, <1>9 DEF LoginInv, WrongFit, SignupsFit
  <2>21. CheckedFit'
    BY <1>0, <1>1, <2>4 DEF LoginInv, CheckedFit, Unchecked
  <2>22. SessionRow' = SessionRow /\ CheckedRow' = CheckedRow
    BY <1>1, <2>4 DEF SessionRow, CheckedRow
  <2>23. TypeOK'
    BY <1>1, <1>7, <1>9, <2>4, <2>10, <2>14, <2>15, <2>16, <2>22, <1>t, TypesSplit, TypesNext
  <2> QED BY <2>6, <2>12, <2>17, <2>18, <2>19, <2>20, <2>21, <2>23 DEF LoginInv
<1> QED BY <1>2, <1>4, <1>8, <1>9 DEF DeleteAccount

-----------------------------------------------------------------------------
LEMMA InvStutters == ASSUME LoginInv, UNCHANGED vars PROVE LoginInv'
  BY DEF LoginInv, TypeOK, CheckedFit, OneAccountEach, DeletedIsSignedOut, CodesFit, RowFit, DayFit,
         WrongFit, SignupsFit, OpensOnce, vars, tables, history

LEMMA InvNext == LoginInv /\ [Next]_vars => LoginInv'
<1> SUFFICES ASSUME LoginInv, [Next]_vars PROVE LoginInv'
  OBVIOUS
<1>1. ASSUME NEW e \in Email, StartLogin(e) PROVE LoginInv'
  BY <1>1, StartLoginKeeps
<1>2. ASSUME NEW e \in Email, WrongCode(e) PROVE LoginInv'
  BY <1>2, WrongCodeKeeps
<1>3. ASSUME NEW e \in Email, VerifyLogin(e) PROVE LoginInv'
  BY <1>3, VerifyLoginKeeps
<1>4. ASSUME NEW e \in Email, CreateAccount(e) PROVE LoginInv'
  BY <1>4, CreateAccountKeeps
<1>5. ASSUME NEW e \in Email, ResendOpens(e) \/ CodeExpires(e) PROVE LoginInv'
  BY <1>5, ClockKeeps
<1>6. ASSUME NEW m \in 1..Len(mails), MailSent(m) \/ MailFails(m) PROVE LoginInv'
  BY <1>6, MailEnds
<1>7. ASSUME NEW s \in 1..Len(sessions), Logout(s) \/ SessionExpires(s) PROVE LoginInv'
  BY <1>7, SessionEnds
<1>8. ASSUME NEW s \in 1..Len(sessions), NEW r \in Request, NEW op \in {"logout_all", "delete"},
             CheckSession(r, s, op)
      PROVE  LoginInv'
  BY <1>8, CheckSessionKeeps
<1>9. ASSUME NEW r \in Request, LogoutAll(r) PROVE LoginInv'
  BY <1>9, LogoutAllKeeps
<1>10. ASSUME NEW r \in Request, DeleteAccount(r) PROVE LoginInv'
  BY <1>10, DeleteAccountKeeps
<1>11. CASE NewDay
  BY <1>11, NewDayKeeps
<1>12. CASE Purge
  BY <1>12, PurgeKeeps
<1>13. CASE UNCHANGED vars
  BY <1>13, InvStutters
<1> QED BY <1>1, <1>2, <1>3, <1>4, <1>5, <1>6, <1>7, <1>8, <1>9, <1>10, <1>11, <1>12, <1>13 DEF Next

THEOREM LoginsFit == Spec => []LoginInv
<1>1. Init => LoginInv
  BY InvInit
<1>2. LoginInv /\ [Next]_vars => LoginInv'
  BY InvNext
<1> QED BY <1>1, <1>2, PTL DEF Spec

\* For any emails, requests and limits, an email has one account that signing in can reach, and
\* a deleted account has no session (gateway/store.py:191-199, 275-285).
THEOREM LoginsAreOK == Spec => []LoginOK
<1>1. LoginInv => LoginOK
  BY DEF LoginInv, LoginOK
<1> QED BY <1>1, LoginsFit, PTL

\* For any emails, requests and limits, no budget of codes, guesses or sign-ups is exceeded, and
\* a code opens one session of the account it was mailed to, and none once that account was
\* deleted (store.py:17-27, 242-265, 275-285).
THEOREM CodesAreBounded == Spec => []CodesBounded
<1>1. LoginInv => CodesBounded
  <2> SUFFICES ASSUME LoginInv PROVE BudgetsKept /\ OpensOnce
    BY DEF CodesBounded
  <2>1. TypeOK
    BY DEF LoginInv
  <2>2. ASSUME NEW e \in Email, ~today[e].dropped PROVE today[e].asked <= CodesPerDay
    <3>1. codes[e] \in Row /\ today[e] \in DayRow
      BY <2>1, TypesSplit
    <3>2. /\ codes[e].age = 0 => codes[e].sent <= CodesPerDay /\ today[e].asked <= codes[e].sent
          /\ codes[e].age # 0 => today[e].asked = 0
      BY <2>2 DEF LoginInv, DayFit
    <3> QED BY <3>1, <3>2, LoginsAssumption DEF Row, DayRow
  <2>3. signups <= SignupsPerNetwork
    BY <2>1, TypesSplit, LoginsAssumption DEF LoginInv, SignupsFit
  <2> QED BY <2>2, <2>3 DEF LoginInv, BudgetsKept, WrongFit
<1> QED BY <1>1, LoginsFit, PTL

-----------------------------------------------------------------------------
(* Saves of the editor: the inductive invariant. *)

\* A save of a place that may still clear geomDirty carries what was last to be saved.
MovesFit ==
  \A m \in Slot : moves[m].at # "none" =>
    /\ moves[m].object \in Object
    /\ moves[m].fresh => moves[m].place = entry[moves[m].object].place

\* An object that is gone from a manifest is gone from the server, and what is deleted is.
DeletionsFit ==
  /\ removal.at # "none" => removal.object \in Object
  /\ removal.at = "done" => ~server[removal.object].there
  /\ \A o \in Object : server[o].there =>
       /\ shown[o].there
       /\ removal.at = "done" => removal.page[o].there
       /\ read.at = "done" => read.page[o].there

\* A text is shown as it was last to be saved; it waits for a flush, or the flush under way
\* carries it, or it is on the server.
TextFits(o) ==
  server[o].there /\ <<o, "text">> \notin excused =>
    /\ shown[o].text = entry[o].text
    /\ dirty[o] \in {None, entry[o].text}
    /\ items[o].at # "none" => items[o].stale = None
    /\ items[o].at = "stored" => items[o].text = server[o].text
    /\ dirty[o] = None \/ ~open =>
         IF items[o].at = "none" THEN server[o].text = entry[o].text ELSE items[o].text = entry[o].text

\* A place is on the server, or is dirty, or is on its way when the page has closed.
PlaceFits(o) ==
  /\ gdirty[o] \in {None, entry[o].place}
  /\ server[o].there /\ <<o, "place">> \notin excused =>
       /\ \/ server[o].place = entry[o].place
          \/ open /\ gdirty[o] # None
          \/ ~open /\ \E m \in Slot : /\ moves[m].at = "sent" /\ moves[m].object = o
                                      /\ moves[m].place = entry[o].place
       /\ \A m \in Slot : moves[m].at = "stored" /\ moves[m].fresh /\ moves[m].object = o
                            => server[o].place = entry[o].place

TextsFit == \A o \in Object : TextFits(o)
PlacesFit == \A o \in Object : PlaceFits(o)

SavesInv == SavesTypeOK /\ MovesFit /\ DeletionsFit /\ TextsFit /\ PlacesFit

LEMMA SavesInvInit == SavesInit => SavesInv
<1> SUFFICES ASSUME SavesInit PROVE SavesInv
  OBVIOUS
<1> USE SavesAssumption DEF SavesInit
<1>1. 0 \in Value /\ None \notin Value
  BY DEF Value, None
<1>2. SavesTypeOK
  <2>1. NoItem \in Item /\ NoMove \in PlaceSave /\ NoPage \in Page /\ Gone \in TextObject
    BY <1>1 DEF Item, NoItem, PlaceSave, NoMove, NoPage, Gone, Page, TextObject
  <2>2. NoRemoval \in Removal /\ NoRead \in Read
    BY <1>1, <2>1 DEF Removal, NoRemoval, Read, NoRead
  <2>3. shown \in Page /\ server \in Page
    BY <1>1 DEF Page, TextObject
  <2>4. used \in [edits : 0..MaxEdits, failures : 0..MaxFailures, reads : 0..MaxReads]
    OBVIOUS
  <2> QED BY <1>1, <2>1, <2>2, <2>3, <2>4 DEF SavesTypeOK
<1>3. MovesFit /\ DeletionsFit
  BY DEF MovesFit, DeletionsFit, NoMove, NoRemoval, NoRead
<1>4. TextsFit /\ PlacesFit
  BY DEF TextsFit, TextFits, PlacesFit, PlaceFits, NoItem, NoMove
<1> QED BY <1>2, <1>3, <1>4 DEF SavesInv

-----------------------------------------------------------------------------
(* What stays as it is. *)

TextStays(o) ==
  /\ server'[o].there => server[o].there /\ server'[o].text = server[o].text
  /\ shown'[o].text = shown[o].text /\ entry'[o].text = entry[o].text
  /\ dirty'[o] = dirty[o] /\ items'[o] = items[o] /\ open' = open
  /\ <<o, "text">> \in excused => <<o, "text">> \in excused'

PlaceStays(o) ==
  /\ server'[o].there => server[o].there /\ server'[o].place = server[o].place
  /\ entry'[o].place = entry[o].place /\ gdirty'[o] = gdirty[o] /\ moves' = moves /\ open' = open
  /\ <<o, "place">> \in excused => <<o, "place">> \in excused'

MovesStay == moves' = moves /\ \A o \in Object : entry'[o].place = entry[o].place

\* Manifests keep their objects, and the deletion under way goes no further than asking.
DeletionsStay ==
  /\ \A o \in Object : /\ server'[o].there => server[o].there
                       /\ shown[o].there => shown'[o].there
  /\ \/ removal' = removal
     \/ removal'.at # "done" /\ (removal'.at # "none" => removal'.object \in Object)
  /\ \/ read' = read
     \/ read'.at # "done"

LEMMA TextKept == ASSUME NEW o \in Object, TextFits(o), TextStays(o) PROVE TextFits(o)'
  BY DEF TextFits, TextStays

LEMMA PlaceKept == ASSUME NEW o \in Object, PlaceFits(o), PlaceStays(o) PROVE PlaceFits(o)'
  BY DEF PlaceFits, PlaceStays

LEMMA MovesKept == ASSUME MovesFit, MovesStay PROVE MovesFit'
  BY DEF MovesFit, MovesStay

LEMMA DeletionsKept == ASSUME DeletionsFit, DeletionsStay PROVE DeletionsFit'
  BY DEF DeletionsFit, DeletionsStay

\* A flush that ends lets a deletion go on waiting, or drops it.
LEMMA FlushOverKeeps ==
  ASSUME removal \in Removal, NEW ok \in BOOLEAN, FlushOver(ok)
  PROVE  /\ removal' \in Removal
         /\ removal'.at # "done" \/ removal' = removal
         /\ removal'.at # "none" => removal'.at = removal.at /\ removal'.object = removal.object
<1>1. NoRemoval.at = "none" /\ NoRemoval \in Removal
  BY SavesAssumption DEF NoRemoval, Removal, NoPage, Page, Gone, TextObject, Value
<1>2. CASE removal' = removal
  BY <1>2
<1>3. CASE removal' = NoRemoval
  BY <1>1, <1>3
<1>4. CASE removal' = [removal EXCEPT !.waits = @ - 1] /\ removal.at = "flushing" /\ removal.waits # 0
  <2>1. removal.waits - 1 \in Nat
    BY <1>4 DEF Removal
  <2> QED BY <1>4, <2>1 DEF Removal
<1> QED BY <1>2, <1>3, <1>4 DEF FlushOver

LEMMA Values ==
  /\ MaxEdits \in Nat /\ MaxFailures \in Nat /\ MaxReads \in Nat
  /\ 0 \in Value /\ None \notin Value /\ \A n \in 0..MaxEdits : n < MaxEdits => n + 1 \in Value
  BY SavesAssumption DEF Value, None

LEMMA FailureTyped ==
  ASSUME used \in [edits : 0..MaxEdits, failures : 0..MaxFailures, reads : 0..MaxReads], Failure \/ NoFailure
  PROVE  used' \in [edits : 0..MaxEdits, failures : 0..MaxFailures, reads : 0..MaxReads]
<1>1. CASE NoFailure
  BY <1>1 DEF NoFailure
<1>2. CASE Failure
  <2>1. used.failures + 1 \in 0..MaxFailures
    BY <1>2, Values DEF Failure
  <2> QED BY <1>2, <2>1 DEF Failure
<1> QED BY <1>1, <1>2

-----------------------------------------------------------------------------
(* The user's edits. *)

LEMMA TypeKeeps == ASSUME SavesInv, NEW o \in Object, Type(o) PROVE SavesInv'
<1>0. SavesTypeOK /\ MovesFit /\ DeletionsFit /\ TextsFit /\ PlacesFit
  BY DEF SavesInv
<1>1. PICK v \in Value : v = used.edits + 1
  BY <1>0, Values DEF Type, SavesTypeOK
<1>2. /\ shown' \in Page /\ shown'[o].text = v
      /\ \A q \in Object : /\ shown'[q].there = shown[q].there /\ shown'[q].place = shown[q].place
                           /\ q # o => shown'[q] = shown[q]
  BY <1>0, <1>1 DEF Type, SavesTypeOK, Page, TextObject
<1>3. /\ entry' \in [Object -> [text : Value, place : Value]] /\ entry'[o].text = v
      /\ \A q \in Object : entry'[q].place = entry[q].place /\ (q # o => entry'[q] = entry[q])
  BY <1>0, <1>1 DEF Type, SavesTypeOK
<1>4. used' \in [edits : 0..MaxEdits, failures : 0..MaxFailures, reads : 0..MaxReads]
  BY <1>0, <1>1 DEF Type, SavesTypeOK, Value
<1>5. dirty' \in [Object -> Value \cup {None}] /\ dirty' = [dirty EXCEPT ![o] = v]
  BY <1>0, <1>1 DEF Type, SavesTypeOK
<1>6. UNCHANGED <<server, chain, items, bulk, broken, gdirty, gtimer, gfailed, moves, removal, read, open, excused>>
      /\ failed' = FALSE /\ timer' = TRUE
  BY DEF Type, geometry, calls
<1>7. SavesTypeOK'
  BY <1>0, <1>2, <1>3, <1>4, <1>5, <1>6 DEF SavesTypeOK
<1>8. MovesFit' /\ DeletionsFit'
  BY <1>0, <1>2, <1>3, <1>6, MovesKept, DeletionsKept DEF MovesStay, DeletionsStay
<1>9. PlacesFit'
  <2>1. \A q \in Object : PlaceStays(q)
    BY <1>3, <1>6 DEF PlaceStays
  <2> QED BY <1>0, <2>1, PlaceKept DEF PlacesFit
<1>10. TextFits(o)'
  <2>1. dirty'[o] = v /\ dirty'[o] # None
    BY <1>0, <1>1, <1>5, Values DEF SavesTypeOK
  <2>2. open' = TRUE
    BY <1>6 DEF Type
  <2> QED BY <1>0, <1>2, <1>3, <1>6, <2>1, <2>2 DEF TextsFit, TextFits
<1>11. \A q \in Object \ {o} : TextStays(q)
  BY <1>0, <1>2, <1>3, <1>5, <1>6 DEF TextStays, SavesTypeOK
<1>12. TextsFit'
  BY <1>0, <1>10, <1>11, TextKept DEF TextsFit
<1> QED BY <1>7, <1>8, <1>9, <1>12 DEF SavesInv

LEMMA UnheardIs ==
  ASSUME NEW s \in PlaceSave
  PROVE  /\ Unheard(s) \in PlaceSave
         /\ s.at = "stored" => Unheard(s).at = "none"
         /\ s.at # "stored" => Unheard(s).at = s.at /\ Unheard(s).object = s.object
                               /\ Unheard(s).place = s.place /\ ~Unheard(s).fresh
<1>1. NoMove \in PlaceSave /\ NoMove.at = "none"
  BY Values DEF NoMove, PlaceSave
<1>2. CASE s.at = "stored"
  BY <1>1, <1>2 DEF Unheard
<1>3. CASE s.at # "stored"
  <2>1. Unheard(s) = [s EXCEPT !.fresh = FALSE, !.heard = FALSE, !.last = FALSE, !.awaited = FALSE]
    BY <1>3 DEF Unheard
  <2> QED BY <1>3, <2>1 DEF PlaceSave
<1> QED BY <1>2, <1>3

\* The abort and the new generation leave every save where it is, or drop it.
LEMMA AbortedIs ==
  ASSUME moves \in [Slot -> PlaceSave], moves' = Outdated(Aborted(moves))
  PROVE  /\ moves' \in [Slot -> PlaceSave]
         /\ \A m \in Slot : /\ ~moves'[m].fresh
                            /\ moves'[m].at # "none" =>
                                 /\ moves'[m].at = moves[m].at /\ moves'[m].object = moves[m].object
<1> SUFFICES ASSUME NEW m \in Slot
             PROVE  /\ moves'[m] \in PlaceSave /\ ~moves'[m].fresh
                    /\ moves'[m].at # "none" =>
                         /\ moves'[m].at = moves[m].at /\ moves'[m].object = moves[m].object
  BY DEF Outdated
<1>1. PICK s \in PlaceSave : s = moves[m]
  OBVIOUS
<1>2. NoMove \in PlaceSave /\ NoMove.at = "none"
  BY Values DEF NoMove, PlaceSave
<1>3. PICK a \in PlaceSave : /\ a = Aborted(moves)[m]
                             /\ a.at # "none" => a.at = s.at /\ a.object = s.object
  <2>1. Aborted(moves)[m] = IF s.last THEN Unheard(s) ELSE s
    BY <1>1 DEF Aborted
  <2>2. /\ Unheard(s) \in PlaceSave
        /\ Unheard(s).at # "none" => Unheard(s).at = s.at /\ Unheard(s).object = s.object
    BY <1>2, UnheardIs
  <2> QED BY <2>1, <2>2
<1>4. moves'[m] = [a EXCEPT !.fresh = FALSE]
  BY <1>3 DEF Outdated
<1> QED BY <1>1, <1>3, <1>4 DEF PlaceSave

LEMMA MoveKeeps == ASSUME SavesInv, NEW o \in Object, Move(o) PROVE SavesInv'
<1>0. SavesTypeOK /\ MovesFit /\ DeletionsFit /\ TextsFit /\ PlacesFit
  BY DEF SavesInv
<1>1. PICK v \in Value : v = used.edits + 1
  BY <1>0, Values DEF Move, SavesTypeOK
<1>2. /\ shown' \in Page
      /\ \A q \in Object : shown'[q].there = shown[q].there /\ shown'[q].text = shown[q].text
  BY <1>0, <1>1 DEF Move, SavesTypeOK, Page, TextObject
<1>3. /\ entry' \in [Object -> [text : Value, place : Value]] /\ entry'[o].place = v
      /\ \A q \in Object : entry'[q].text = entry[q].text /\ (q # o => entry'[q] = entry[q])
  BY <1>0, <1>1 DEF Move, SavesTypeOK
<1>4. used' \in [edits : 0..MaxEdits, failures : 0..MaxFailures, reads : 0..MaxReads]
  BY <1>0, <1>1 DEF Move, SavesTypeOK, Value
<1>5. /\ gdirty' \in [Object -> Value \cup {None}] /\ gdirty'[o] = v
      /\ \A q \in Object \ {o} : gdirty'[q] = gdirty[q]
  BY <1>0, <1>1 DEF Move, SavesTypeOK
<1>6. UNCHANGED <<server, dirty, timer, chain, items, bulk, broken, failed, removal, read, open, excused>>
      /\ gfailed' = FALSE /\ gtimer' = TRUE /\ open = TRUE
  BY <1>0 DEF Move, text, calls, SavesTypeOK
<1>7. /\ moves' \in [Slot -> PlaceSave]
      /\ \A m \in Slot : /\ ~moves'[m].fresh
                         /\ moves'[m].at # "none" =>
                              /\ moves'[m].at = moves[m].at /\ moves'[m].object = moves[m].object
  BY <1>0, AbortedIs DEF Move, SavesTypeOK
<1>8. SavesTypeOK'
  BY <1>0, <1>2, <1>3, <1>4, <1>5, <1>6, <1>7 DEF SavesTypeOK
<1>9. MovesFit'
  BY <1>0, <1>7 DEF MovesFit
<1>10. DeletionsFit'
  BY <1>0, <1>2, <1>6, DeletionsKept DEF DeletionsStay
<1>11. TextsFit'
  <2>1. \A q \in Object : TextStays(q)
    BY <1>2, <1>3, <1>6 DEF TextStays
  <2> QED BY <1>0, <2>1, TextKept DEF TextsFit
<1>12. PlacesFit'
  <2> SUFFICES ASSUME NEW q \in Object PROVE PlaceFits(q)'
    BY DEF PlacesFit
  <2>1. PlaceFits(q) /\ v # None
    BY <1>0, <1>1, Values DEF PlacesFit
  <2>2. CASE q = o
    BY <1>3, <1>5, <1>6, <1>7, <2>1, <2>2 DEF PlaceFits
  <2>3. CASE q # o
    BY <1>3, <1>5, <1>6, <1>7, <2>1, <2>3 DEF PlaceFits
  <2> QED BY <2>2, <2>3
<1> QED BY <1>8, <1>9, <1>10, <1>11, <1>12 DEF SavesInv

-----------------------------------------------------------------------------
(* Saving text. *)

\* What the steps that save texts leave alone.
TextOnly ==
  /\ UNCHANGED <<shown, gdirty, gtimer, gfailed, moves, open, entry, excused, read>>
  /\ \A o \in Object : server'[o].there = server[o].there /\ server'[o].place = server[o].place

LEMMA TextOnlyKeeps ==
  ASSUME SavesInv, TextOnly, SavesTypeOK', TextsFit',
         removal' = removal \/ \E ok \in BOOLEAN : FlushOver(ok)
  PROVE  SavesInv'
<1>0. SavesTypeOK /\ MovesFit /\ DeletionsFit /\ PlacesFit
  BY DEF SavesInv
<1>1. MovesFit'
  BY <1>0, MovesKept DEF TextOnly, MovesStay
<1>2. DeletionsFit'
  <2>1. removal' = removal
           \/ (removal'.at # "done" /\ (removal'.at # "none" => removal'.object \in Object))
    <3>1. removal \in Removal
      BY <1>0 DEF SavesTypeOK
    <3> QED BY <1>0, <3>1, FlushOverKeeps DEF DeletionsFit
  <2> QED BY <1>0, <2>1, DeletionsKept DEF TextOnly, DeletionsStay
<1>3. PlacesFit'
  <2>1. \A q \in Object : PlaceStays(q)
    BY DEF TextOnly, PlaceStays
  <2> QED BY <1>0, <2>1, PlaceKept DEF PlacesFit
<1> QED BY <1>1, <1>2, <1>3 DEF SavesInv

LEMMA TextTimerKeeps == ASSUME SavesInv, TextTimer PROVE SavesInv'
<1>0. SavesTypeOK /\ TextsFit
  BY DEF SavesInv
<1>1. TextOnly /\ removal' = removal /\ UNCHANGED <<server, dirty, items>>
  BY DEF TextTimer, TextOnly, geometry, calls
<1>2. SavesTypeOK'
  <2>1. chain' \in Nat /\ timer' = FALSE
    BY <1>0 DEF TextTimer, SavesTypeOK
  <2>2. UNCHANGED <<shown, server, dirty, items, bulk, broken, failed, gdirty, gtimer, gfailed, moves,
                    removal, read, open, used, entry, excused>>
    BY DEF TextTimer, geometry, calls
  <2> QED BY <1>0, <2>1, <2>2 DEF SavesTypeOK
<1>3. \A q \in Object : TextStays(q)
  BY <1>1 DEF TextStays, TextOnly
<1> QED BY <1>0, <1>1, <1>2, <1>3, TextKept, TextOnlyKeeps DEF TextsFit

\* What a flush carries.
LEMMA SentItem ==
  ASSUME NEW v \in Value
  PROVE  LET i == [at |-> "sent", text |-> v, stale |-> None]
         IN i \in Item /\ i.at = "sent" /\ i.text = v /\ i.stale = None
  BY DEF Item

LEMMA NoItemIs == NoItem \in Item /\ NoItem.at = "none"
  BY Values DEF NoItem, Item

LEMMA StartFlushKeeps == ASSUME SavesInv, StartFlush PROVE SavesInv'
<1>0. SavesTypeOK /\ TextsFit /\ DeletionsFit
  BY DEF SavesInv
<1>1. PICK sent \in SUBSET DirtyTexts :
        /\ \A o \in DirtyTexts : shown[o].there => o \in sent
        /\ items' = [o \in Object |->
             IF o \in sent THEN [at |-> "sent", text |-> dirty[o], stale |-> None] ELSE NoItem]
        /\ bulk' = (Cardinality(DirtyTexts) # 1 /\ DirtyTexts # {})
        /\ FlushOver(TRUE) \/ removal' = removal
  BY DEF StartFlush
<1>2. /\ \A o \in sent : items'[o].at = "sent" /\ items'[o].text = dirty[o] /\ items'[o].stale = None
      /\ \A o \in Object \ sent : items'[o].at = "none"
      /\ items' \in [Object -> Item]
  <2>1. \A o \in sent : dirty[o] \in Value /\ o \in Object
    BY <1>0 DEF SavesTypeOK, DirtyTexts
  <2> QED BY <1>1, <2>1, SentItem, NoItemIs
<1>3. /\ TextOnly /\ server' = server /\ open = TRUE /\ \A o \in Object : dirty'[o] = None
      /\ dirty' \in [Object -> Value \cup {None}] /\ \A o \in Object : items[o].at = "none"
  BY <1>0 DEF StartFlush, TextOnly, geometry, Carried, SavesTypeOK
<1>4. SavesTypeOK'
  <2>1. removal' \in Removal
    BY <1>0, <1>1, FlushOverKeeps DEF SavesTypeOK
  <2>2. chain' \in Nat
    BY <1>0 DEF StartFlush, SavesTypeOK
  <2> QED BY <1>0, <1>1, <1>2, <1>3, <2>1, <2>2 DEF StartFlush, TextOnly, SavesTypeOK
<1>5. TextsFit'
  <2> SUFFICES ASSUME NEW o \in Object PROVE TextFits(o)'
    BY DEF TextsFit
  <2>1. TextFits(o) /\ (server[o].there => shown[o].there)
    BY <1>0 DEF TextsFit, DeletionsFit
  <2>2. CASE o \in sent
    <3>1. dirty[o] # None
      BY <2>2 DEF DirtyTexts
    <3> QED BY <1>2, <1>3, <2>1, <2>2, <3>1 DEF TextFits, TextOnly
  <2>3. CASE o \notin sent
    <3>1. server[o].there => dirty[o] = None
      BY <1>1, <2>1, <2>3 DEF DirtyTexts
    <3> QED BY <1>2, <1>3, <2>1, <2>3, <3>1 DEF TextFits, TextOnly
  <2> QED BY <2>2, <2>3
<1> QED BY <1>1, <1>3, <1>4, <1>5, TextOnlyKeeps

LEMMA StoreTextKeeps == ASSUME SavesInv, NEW o \in Object, StoreText(o) PROVE SavesInv'
<1>0. SavesTypeOK /\ TextsFit
  BY DEF SavesInv
<1>1. PICK v \in Value : v = items[o].text
  BY <1>0 DEF SavesTypeOK, Item
<1>2. /\ server' \in Page /\ server'[o].text = v
      /\ \A q \in Object : /\ server'[q].there = server[q].there /\ server'[q].place = server[q].place
                           /\ q # o => server'[q] = server[q]
  BY <1>0, <1>1 DEF StoreText, SavesTypeOK, Page, TextObject
<1>3. /\ items' \in [Object -> Item] /\ items'[o].at = "stored" /\ items'[o].text = v
      /\ items'[o].stale = items[o].stale /\ items[o].at = "sent"
      /\ \A q \in Object : q # o => items'[q] = items[q]
  BY <1>0, <1>1 DEF StoreText, SavesTypeOK, Item
<1>4. TextOnly /\ removal' = removal /\ UNCHANGED <<dirty, timer, chain, bulk, broken, failed, used>>
  BY <1>2 DEF StoreText, TextOnly, geometry, calls
<1>5. SavesTypeOK'
  BY <1>0, <1>2, <1>3, <1>4 DEF SavesTypeOK, TextOnly
<1>6. TextFits(o)'
  BY <1>0, <1>1, <1>2, <1>3, <1>4 DEF TextsFit, TextFits, TextOnly
<1>7. \A q \in Object \ {o} : TextStays(q)
  BY <1>2, <1>3, <1>4 DEF TextStays, TextOnly
<1>8. TextsFit'
  BY <1>0, <1>6, <1>7, TextKept DEF TextsFit
<1> QED BY <1>4, <1>5, <1>8, TextOnlyKeeps

LEMMA BulkSavedKeeps == ASSUME SavesInv, BulkSaved PROVE SavesInv'
<1>0. SavesTypeOK /\ TextsFit
  BY DEF SavesInv
<1>1. /\ TextOnly /\ FlushOver(TRUE) /\ UNCHANGED <<server, dirty, timer, chain, broken, failed, used>>
      /\ bulk' = FALSE /\ items' = [o \in Object |-> NoItem] /\ open = TRUE
  BY <1>0 DEF BulkSaved, TextOnly, geometry, SavesTypeOK
<1>2. items' \in [Object -> Item] /\ \A o \in Object : items'[o].at = "none"
  BY <1>1, NoItemIs
<1>3. SavesTypeOK'
  <2>1. removal' \in Removal
    BY <1>0, <1>1, FlushOverKeeps DEF SavesTypeOK
  <2> QED BY <1>0, <1>1, <1>2, <2>1 DEF TextOnly, SavesTypeOK
<1>4. \A o \in Object : items[o].at \in {"none", "stored"}
  BY DEF BulkSaved, Carried
<1>5. TextsFit'
  <2> SUFFICES ASSUME NEW o \in Object PROVE TextFits(o)'
    BY DEF TextsFit
  <2>1. TextFits(o)
    BY <1>0 DEF TextsFit
  <2> QED BY <1>1, <1>2, <1>4, <2>1 DEF TextFits, TextOnly
<1> QED BY <1>1, <1>3, <1>5, TextOnlyKeeps

LEMMA BulkFailsKeeps == ASSUME SavesInv, BulkFails PROVE SavesInv'
<1>0. SavesTypeOK /\ TextsFit /\ DeletionsFit
  BY DEF SavesInv
<1>1. PICK again \in SUBSET Carried :
        /\ \A o \in Carried : shown[o].there => o \in again
        /\ items' = [o \in Object |->
             IF o \in again THEN [items[o] EXCEPT !.at = "sent", !.stale = None] ELSE NoItem]
        /\ FlushOver(TRUE) \/ removal' = removal
  BY DEF BulkFails
<1>2. /\ \A o \in again : items'[o].at = "sent" /\ items'[o].text = items[o].text /\ items'[o].stale = None
      /\ \A o \in Object \ again : items'[o].at = "none"
      /\ items' \in [Object -> Item]
  <2>1. ASSUME NEW o \in again
        PROVE  /\ items'[o].at = "sent" /\ items'[o].text = items[o].text /\ items'[o].stale = None
               /\ items'[o] \in Item
    <3>1. PICK i \in Item : i = items[o]
      BY <1>0 DEF SavesTypeOK, Carried
    <3>2. items'[o] = [i EXCEPT !.at = "sent", !.stale = None]
      BY <1>1, <3>1 DEF Carried
    <3> QED BY <3>1, <3>2 DEF Item
  <2> QED BY <1>1, <2>1, NoItemIs
<1>3. TextOnly /\ bulk' = FALSE /\ UNCHANGED <<server, dirty, timer, chain, broken, failed>> /\ open = TRUE
  BY <1>0 DEF BulkFails, TextOnly, geometry, SavesTypeOK
<1>4. SavesTypeOK'
  <2>1. removal' \in Removal
    BY <1>0, <1>1, FlushOverKeeps DEF SavesTypeOK
  <2>2. used' \in [edits : 0..MaxEdits, failures : 0..MaxFailures, reads : 0..MaxReads]
    BY <1>0, FailureTyped DEF BulkFails, SavesTypeOK
  <2> QED BY <1>0, <1>2, <1>3, <2>1, <2>2 DEF TextOnly, SavesTypeOK
<1>5. TextsFit'
  <2> SUFFICES ASSUME NEW o \in Object PROVE TextFits(o)'
    BY DEF TextsFit
  <2>1. TextFits(o) /\ (server[o].there => shown[o].there)
    BY <1>0 DEF TextsFit, DeletionsFit
  <2>2. CASE o \in again
    <3>1. items[o].at # "none"
      BY <2>2 DEF Carried
    <3> QED BY <1>2, <1>3, <2>1, <2>2, <3>1 DEF TextFits, TextOnly
  <2>3. CASE o \notin again
    <3>1. server[o].there => items[o].at = "none"
      BY <1>1, <2>1, <2>3 DEF Carried
    <3> QED BY <1>2, <1>3, <2>1, <2>3, <3>1 DEF TextFits, TextOnly
  <2> QED BY <2>2, <2>3
<1> QED BY <1>1, <1>3, <1>4, <1>5, TextOnlyKeeps

LEMMA TextSavedKeeps == ASSUME SavesInv, NEW o \in Object, TextSaved(o) PROVE SavesInv'
<1>0. SavesTypeOK /\ TextsFit
  BY DEF SavesInv
<1>1. /\ TextOnly /\ UNCHANGED <<server, dirty, timer, chain, bulk, broken, failed, used>>
      /\ items' = [items EXCEPT ![o] = NoItem] /\ open = TRUE /\ items[o].at = "stored"
      /\ FlushOver(~broken) \/ removal' = removal
  BY <1>0 DEF TextSaved, TextOnly, geometry, SavesTypeOK
<1>2. /\ items' \in [Object -> Item] /\ items'[o].at = "none"
      /\ \A q \in Object \ {o} : items'[q] = items[q]
  BY <1>0, <1>1, NoItemIs DEF SavesTypeOK
<1>3. PICK ok \in BOOLEAN : FlushOver(ok) \/ removal' = removal
  <2>1. broken = TRUE \/ broken = FALSE
    BY <1>0 DEF SavesTypeOK
  <2>2. FlushOver(~broken) => FlushOver(TRUE) \/ FlushOver(FALSE)
    BY <2>1 DEF FlushOver
  <2> QED BY <1>1, <2>2
<1>4. SavesTypeOK'
  <2>1. removal' \in Removal
    BY <1>0, <1>1, <1>3, FlushOverKeeps DEF SavesTypeOK
  <2> QED BY <1>0, <1>1, <1>2, <2>1 DEF TextOnly, SavesTypeOK
<1>5. TextFits(o)'
  BY <1>0, <1>1, <1>2 DEF TextsFit, TextFits, TextOnly
<1>6. \A q \in Object \ {o} : TextStays(q)
  BY <1>1, <1>2 DEF TextStays, TextOnly
<1>7. TextsFit'
  BY <1>0, <1>5, <1>6, TextKept DEF TextsFit
<1> QED BY <1>1, <1>3, <1>4, <1>7, TextOnlyKeeps

LEMMA TextFailsKeeps == ASSUME SavesInv, NEW o \in Object, TextFails(o) PROVE SavesInv'
<1>0. SavesTypeOK /\ TextsFit /\ DeletionsFit
  BY DEF SavesInv
<1>1. /\ TextOnly /\ UNCHANGED <<server, timer, chain, bulk>> /\ failed' = TRUE /\ broken' = TRUE
      /\ items' = [items EXCEPT ![o] = NoItem] /\ open = TRUE /\ items[o].at # "none"
      /\ FlushOver(FALSE) \/ removal' = removal
  BY <1>0 DEF TextFails, TextOnly, geometry, SavesTypeOK
<1>2. PICK now \in Value : /\ now = IF items[o].stale = None THEN shown[o].text ELSE items[o].stale
                           /\ dirty' = [dirty EXCEPT ![o] = now]
  <2>1. items[o].stale \in Value \cup {None} /\ shown[o].text \in Value
    BY <1>0 DEF SavesTypeOK, Item, Page, TextObject
  <2> QED BY <2>1 DEF TextFails
<1>3. /\ items' \in [Object -> Item] /\ items'[o].at = "none"
      /\ \A q \in Object \ {o} : items'[q] = items[q] /\ dirty'[q] = dirty[q]
      /\ dirty' \in [Object -> Value \cup {None}] /\ dirty'[o] = now /\ now # None
  BY <1>0, <1>1, <1>2, NoItemIs, Values DEF SavesTypeOK
<1>4. SavesTypeOK'
  <2>1. removal' \in Removal
    BY <1>0, <1>1, FlushOverKeeps DEF SavesTypeOK
  <2>2. used' \in [edits : 0..MaxEdits, failures : 0..MaxFailures, reads : 0..MaxReads]
    BY <1>0, FailureTyped DEF TextFails, SavesTypeOK
  <2> QED BY <1>0, <1>1, <1>3, <2>1, <2>2 DEF TextOnly, SavesTypeOK
<1>5. TextFits(o)'
  BY <1>0, <1>1, <1>2, <1>3 DEF TextsFit, TextFits, TextOnly
<1>6. \A q \in Object \ {o} : TextStays(q)
  BY <1>1, <1>3 DEF TextStays, TextOnly
<1>7. TextsFit'
  BY <1>0, <1>5, <1>6, TextKept DEF TextsFit
<1> QED BY <1>1, <1>4, <1>7, TextOnlyKeeps

-----------------------------------------------------------------------------
(* Saving places. *)

\* What the steps that save places leave alone.
PlaceOnly ==
  /\ UNCHANGED <<shown, dirty, timer, bulk, broken, failed, items, open, entry, read>>
  /\ \A o \in Object : /\ server'[o].there = server[o].there /\ server'[o].text = server[o].text
                       /\ <<o, "text">> \in excused => <<o, "text">> \in excused'

LEMMA PlaceOnlyKeeps ==
  ASSUME SavesInv, PlaceOnly, SavesTypeOK', MovesFit', PlacesFit',
         \/ removal' = removal
         \/ removal'.at # "done" /\ (removal'.at # "none" => removal'.object \in Object)
  PROVE  SavesInv'
<1>0. TextsFit /\ DeletionsFit
  BY DEF SavesInv
<1>1. TextsFit'
  <2>1. \A q \in Object : TextStays(q)
    BY DEF PlaceOnly, TextStays
  <2> QED BY <1>0, <2>1, TextKept DEF TextsFit
<1>2. DeletionsFit'
  BY <1>0, DeletionsKept DEF PlaceOnly, DeletionsStay
<1> QED BY <1>1, <1>2 DEF SavesInv

\* A batch: the saves of a slot each for the dirty places, and what it makes of the others.
LEMMA SendMovesIs ==
  ASSUME SavesTypeOK, NEW heard \in BOOLEAN, NEW awaited \in BOOLEAN, SendMoves(heard, awaited)
  PROVE  /\ moves' \in [Slot -> PlaceSave]
         /\ \A o \in DirtyPlaces : \E m \in Slot :
              moves'[m].at = "sent" /\ moves'[m].object = o /\ moves'[m].place = gdirty[o]
         /\ \A m \in Slot : moves'[m].at # "none" =>
              \/ /\ moves'[m].object \in DirtyPlaces /\ moves'[m].at = "sent"
                 /\ moves'[m].place = gdirty[moves'[m].object]
              \/ /\ moves'[m].at = moves[m].at /\ moves'[m].object = moves[m].object
                 /\ moves'[m].place = moves[m].place /\ (moves'[m].fresh => moves[m].fresh)
                 /\ ~heard => moves'[m].at = "sent"
<1>1. PICK slot \in [DirtyPlaces -> Free] :
        /\ \A o, p \in DirtyPlaces : o # p => slot[o] # slot[p]
        /\ moves' = [m \in Slot |->
             IF \E o \in DirtyPlaces : slot[o] = m
             THEN LET o == CHOOSE o \in DirtyPlaces : slot[o] = m
                  IN [at |-> "sent", object |-> o, place |-> gdirty[o], fresh |-> heard,
                      heard |-> heard, last |-> heard, awaited |-> awaited]
             ELSE IF ~heard THEN Unheard(moves[m])
             ELSE IF DirtyPlaces = {} THEN moves[m]
             ELSE [moves[m] EXCEPT !.fresh = FALSE, !.last = FALSE]]
  BY DEF SendMoves
<1>2. ASSUME NEW o \in DirtyPlaces
      PROVE  /\ slot[o] \in Slot /\ moves'[slot[o]] \in PlaceSave /\ moves'[slot[o]].at = "sent"
             /\ moves'[slot[o]].object = o /\ moves'[slot[o]].place = gdirty[o]
  <2>1. slot[o] \in Slot /\ gdirty[o] \in Value /\ o \in Object
    BY DEF Free, DirtyPlaces, SavesTypeOK
  <2>2. (CHOOSE p \in DirtyPlaces : slot[p] = slot[o]) = o
    BY <1>1
  <2>3. moves'[slot[o]] = [at |-> "sent", object |-> o, place |-> gdirty[o], fresh |-> heard,
                           heard |-> heard, last |-> heard, awaited |-> awaited]
    BY <1>1, <2>1, <2>2
  <2> QED BY <2>1, <2>3 DEF PlaceSave
<1>3. ASSUME NEW m \in Slot, \A o \in DirtyPlaces : slot[o] # m
      PROVE  /\ moves'[m] \in PlaceSave
             /\ moves'[m].at # "none" =>
                  /\ moves'[m].at = moves[m].at /\ moves'[m].object = moves[m].object
                  /\ moves'[m].place = moves[m].place /\ (moves'[m].fresh => moves[m].fresh)
                  /\ ~heard => moves'[m].at = "sent"
  <2>1. PICK s \in PlaceSave : s = moves[m]
    BY DEF SavesTypeOK
  <2>2. moves'[m] = IF ~heard THEN Unheard(s)
                    ELSE IF DirtyPlaces = {} THEN s ELSE [s EXCEPT !.fresh = FALSE, !.last = FALSE]
    BY <1>1, <1>3, <2>1
  <2>3. CASE ~heard
    <3>1. s.at \in {"none", "sent", "stored"}
      BY DEF PlaceSave
    <3> QED BY <2>1, <2>2, <2>3, <3>1, UnheardIs
  <2>4. CASE heard
    BY <2>1, <2>2, <2>4 DEF PlaceSave
  <2> QED BY <2>3, <2>4
<1>4. ASSUME NEW m \in Slot
      PROVE  /\ moves'[m] \in PlaceSave
             /\ moves'[m].at # "none" =>
                  \/ /\ moves'[m].object \in DirtyPlaces /\ moves'[m].at = "sent"
                     /\ moves'[m].place = gdirty[moves'[m].object]
                  \/ /\ moves'[m].at = moves[m].at /\ moves'[m].object = moves[m].object
                     /\ moves'[m].place = moves[m].place /\ (moves'[m].fresh => moves[m].fresh)
                     /\ ~heard => moves'[m].at = "sent"
  <2>1. CASE \A o \in DirtyPlaces : slot[o] # m
    BY <1>3, <2>1
  <2>2. CASE \E o \in DirtyPlaces : slot[o] = m
    BY <1>2, <2>2
  <2> QED BY <2>1, <2>2
<1>5. moves' \in [Slot -> PlaceSave]
  <2>1. \A m \in Slot : moves'[m] \in PlaceSave
    BY <1>4
  <2>2. moves' = [m \in Slot |-> moves'[m]]
    BY <1>1
  <2> QED BY <2>1, <2>2
<1>6. \A o \in DirtyPlaces : \E m \in Slot :
        moves'[m].at = "sent" /\ moves'[m].object = o /\ moves'[m].place = gdirty[o]
  BY <1>2
<1> QED BY <1>4, <1>5, <1>6

LEMMA SendKeeps ==
  ASSUME SavesInv, NEW awaited \in BOOLEAN, SendMoves(TRUE, awaited), open = TRUE,
         UNCHANGED <<server, gdirty, entry, open, excused>>
  PROVE  moves' \in [Slot -> PlaceSave] /\ MovesFit' /\ PlacesFit'
<1>0. SavesTypeOK /\ MovesFit /\ PlacesFit
  BY DEF SavesInv
<1>1. /\ moves' \in [Slot -> PlaceSave]
      /\ \A m \in Slot : moves'[m].at # "none" =>
           \/ /\ moves'[m].object \in DirtyPlaces /\ moves'[m].at = "sent"
              /\ moves'[m].place = gdirty[moves'[m].object]
           \/ /\ moves'[m].at = moves[m].at /\ moves'[m].object = moves[m].object
              /\ moves'[m].place = moves[m].place /\ (moves'[m].fresh => moves[m].fresh)
  <2>1. TRUE \in BOOLEAN
    OBVIOUS
  <2> QED BY <1>0, <2>1, SendMovesIs
<1>2. \A o \in DirtyPlaces : o \in Object /\ gdirty[o] = entry[o].place
  BY <1>0 DEF DirtyPlaces, PlacesFit, PlaceFits
<1>3. MovesFit'
  <2> SUFFICES ASSUME NEW m \in Slot, moves'[m].at # "none"
               PROVE  /\ moves'[m].object \in Object
                      /\ moves'[m].fresh => moves'[m].place = entry'[moves'[m].object].place
    BY DEF MovesFit
  <2>1. moves[m].at # "none" => /\ moves[m].object \in Object
                                /\ moves[m].fresh => moves[m].place = entry[moves[m].object].place
    BY <1>0 DEF MovesFit
  <2> QED BY <1>1, <1>2, <2>1
<1>4. PlacesFit'
  <2> SUFFICES ASSUME NEW o \in Object PROVE PlaceFits(o)'
    BY DEF PlacesFit
  <2>1. PlaceFits(o)
    BY <1>0 DEF PlacesFit
  <2>2. \A m \in Slot : moves'[m].at = "stored" /\ moves'[m].fresh /\ moves'[m].object = o
                          => moves[m].at = "stored" /\ moves[m].fresh /\ moves[m].object = o
    BY <1>1
  <2> QED BY <2>1, <2>2 DEF PlaceFits
<1> QED BY <1>1, <1>3, <1>4

LEMMA GeomTimerKeeps == ASSUME SavesInv, GeomTimer PROVE SavesInv'
<1>0. SavesTypeOK
  BY DEF SavesInv
<1>1. /\ PlaceOnly /\ removal' = removal /\ gtimer' = FALSE
      /\ UNCHANGED <<server, chain, gdirty, gfailed, used, entry, open, excused>>
  BY DEF GeomTimer, PlaceOnly, text, calls
<1>2. moves' \in [Slot -> PlaceSave] /\ MovesFit' /\ PlacesFit'
  <2>1. open = TRUE /\ SendMoves(TRUE, FALSE) /\ FALSE \in BOOLEAN
    BY <1>0 DEF GeomTimer, SavesTypeOK
  <2> QED BY <1>1, <2>1, SendKeeps
<1>3. SavesTypeOK'
  BY <1>0, <1>1, <1>2 DEF PlaceOnly, SavesTypeOK
<1> QED BY <1>1, <1>2, <1>3, PlaceOnlyKeeps

\* A save that is dropped, or stored, among the others.
LEMMA OtherMoves ==
  ASSUME moves \in [Slot -> PlaceSave], NEW m \in Slot, NEW s \in PlaceSave,
         moves' = [moves EXCEPT ![m] = s]
  PROVE  moves' \in [Slot -> PlaceSave] /\ moves'[m] = s /\ \A n \in Slot \ {m} : moves'[n] = moves[n]
  OBVIOUS

LEMMA NoMoveIs == NoMove \in PlaceSave /\ NoMove.at = "none"
  BY Values DEF NoMove, PlaceSave

LEMMA StorePlaceKeeps == ASSUME SavesInv, NEW m \in Slot, StorePlace(m) PROVE SavesInv'
<1>0. SavesTypeOK /\ MovesFit /\ PlacesFit
  BY DEF SavesInv
<1>1. PICK s \in PlaceSave : s = moves[m]
  BY <1>0 DEF SavesTypeOK
<1>2. PICK o \in Object : o = s.object
  BY <1>0, <1>1 DEF MovesFit, StorePlace
<1>3. s.place \in Value /\ s.at = "sent"
  BY <1>1 DEF PlaceSave, StorePlace
<1>4. /\ server' \in Page /\ server'[o].place = s.place
      /\ \A q \in Object : /\ server'[q].there = server[q].there /\ server'[q].text = server[q].text
                           /\ q # o => server'[q] = server[q]
  BY <1>0, <1>1, <1>2, <1>3 DEF StorePlace, SavesTypeOK, Page, TextObject
<1>5. PICK t \in PlaceSave : /\ moves' = [moves EXCEPT ![m] = t]
                             /\ t.at # "none" => t.object = o /\ t.place = s.place /\ t.fresh = s.fresh
                             /\ t.at # "sent"
  <2>1. moves' = [moves EXCEPT ![m] = IF s.heard THEN [s EXCEPT !.at = "stored"] ELSE NoMove]
    BY <1>0, <1>1 DEF StorePlace, SavesTypeOK
  <2>2. [s EXCEPT !.at = "stored"] \in PlaceSave
    BY DEF PlaceSave
  <2>3. LET t == [s EXCEPT !.at = "stored"]
        IN t.at = "stored" /\ t.object = s.object /\ t.place = s.place /\ t.fresh = s.fresh
    BY DEF PlaceSave
  <2> QED BY <1>2, <2>1, <2>2, <2>3, NoMoveIs
<1>6. /\ moves' \in [Slot -> PlaceSave] /\ moves'[m] = t
      /\ \A n \in Slot \ {m} : moves'[n] = moves[n]
  BY <1>0, <1>5, OtherMoves DEF SavesTypeOK
<1>7. /\ excused' = IF s.place # entry[o].place THEN excused \cup {<<o, "place">>}
                    ELSE excused \ {<<o, "place">>}
      /\ UNCHANGED <<shown, dirty, timer, chain, items, bulk, broken, failed, gdirty, gtimer, gfailed,
                     removal, read, open, used, entry>>
  BY <1>1, <1>2 DEF StorePlace, text, calls
<1>8. /\ excused' \subseteq Object \X {"text", "place"}
      /\ \A q \in Object : /\ <<q, "text">> \in excused => <<q, "text">> \in excused'
                           /\ q # o => (<<q, "place">> \in excused' <=> <<q, "place">> \in excused)
      /\ s.place # entry[o].place => <<o, "place">> \in excused'
  BY <1>0, <1>7 DEF SavesTypeOK
<1>9. PlaceOnly
  BY <1>4, <1>7, <1>8 DEF PlaceOnly
<1>10. SavesTypeOK'
  BY <1>0, <1>4, <1>6, <1>7, <1>8 DEF SavesTypeOK
<1>11. MovesFit'
  BY <1>0, <1>1, <1>2, <1>3, <1>5, <1>6, <1>7 DEF MovesFit
<1>12. PlacesFit'
  <2> SUFFICES ASSUME NEW q \in Object PROVE PlaceFits(q)'
    BY DEF PlacesFit
  <2>1. PlaceFits(q)
    BY <1>0 DEF PlacesFit
  <2>2. CASE q = o
    BY <1>4, <1>7, <1>8, <2>1, <2>2 DEF PlaceFits
  <2>3. CASE q # o
    <3>1. \A n \in Slot : moves[n].at = "sent" /\ moves[n].object = q => moves'[n] = moves[n]
      BY <1>1, <1>2, <1>6, <2>3
    <3>2. \A n \in Slot : moves'[n].at = "stored" /\ moves'[n].object = q => moves'[n] = moves[n]
      BY <1>5, <1>6, <2>3
    <3> QED BY <1>4, <1>7, <1>8, <2>1, <2>3, <3>1, <3>2 DEF PlaceFits
  <2> QED BY <2>2, <2>3
<1> QED BY <1>7, <1>9, <1>10, <1>11, <1>12, PlaceOnlyKeeps

LEMMA PlaceSavedKeeps == ASSUME SavesInv, NEW m \in Slot, PlaceSaved(m) PROVE SavesInv'
<1>0. SavesTypeOK /\ MovesFit /\ PlacesFit
  BY DEF SavesInv
<1>1. /\ moves' \in [Slot -> PlaceSave] /\ moves'[m].at = "none"
      /\ \A n \in Slot \ {m} : moves'[n] = moves[n]
  BY <1>0, OtherMoves, NoMoveIs DEF PlaceSaved, SavesTypeOK
<1>2. PICK o \in Object : o = moves[m].object
  BY <1>0 DEF MovesFit, PlaceSaved
<1>3. /\ gdirty' \in [Object -> Value \cup {None}]
      /\ gdirty'[o] = IF moves[m].fresh THEN None ELSE gdirty[o]
      /\ \A q \in Object \ {o} : gdirty'[q] = gdirty[q]
  BY <1>0, <1>2 DEF PlaceSaved, SavesTypeOK
<1>4. /\ PlaceOnly /\ removal' = removal /\ open = TRUE /\ moves[m].at = "stored"
      /\ UNCHANGED <<server, chain, gtimer, gfailed, used, entry, open, excused>>
  BY <1>0 DEF PlaceSaved, PlaceOnly, text, calls, SavesTypeOK
<1>5. SavesTypeOK'
  BY <1>0, <1>1, <1>3, <1>4 DEF PlaceOnly, SavesTypeOK
<1>6. MovesFit'
  BY <1>0, <1>1, <1>4 DEF MovesFit
<1>7. PlacesFit'
  <2> SUFFICES ASSUME NEW q \in Object PROVE PlaceFits(q)'
    BY DEF PlacesFit
  <2>1. PlaceFits(q)
    BY <1>0 DEF PlacesFit
  <2>2. \A n \in Slot : moves'[n].at = "stored" => moves'[n] = moves[n]
    BY <1>1
  <2>3. CASE q = o
    BY <1>2, <1>3, <1>4, <2>1, <2>2, <2>3 DEF PlaceFits
  <2>4. CASE q # o
    BY <1>3, <1>4, <2>1, <2>2, <2>4 DEF PlaceFits
  <2> QED BY <2>3, <2>4
<1> QED BY <1>4, <1>5, <1>6, <1>7, PlaceOnlyKeeps

LEMMA NoRemovalIs == NoRemoval \in Removal /\ NoRemoval.at = "none" /\ NoRemoval.waits = 0
  BY Values DEF NoRemoval, Removal, NoPage, Page, Gone, TextObject

LEMMA PlaceFailsKeeps == ASSUME SavesInv, NEW m \in Slot, PlaceFails(m) PROVE SavesInv'
<1>0. SavesTypeOK /\ MovesFit /\ PlacesFit
  BY DEF SavesInv
<1>1. /\ moves' \in [Slot -> PlaceSave] /\ moves'[m].at = "none"
      /\ \A n \in Slot \ {m} : moves'[n] = moves[n]
  BY <1>0, OtherMoves, NoMoveIs DEF PlaceFails, SavesTypeOK
<1>2. PICK o \in Object : o = moves[m].object
  BY <1>0 DEF MovesFit, PlaceFails
<1>3. /\ UNCHANGED <<shown, server, dirty, timer, chain, items, bulk, broken, failed, gdirty, gtimer, read,
                     open, entry>>
      /\ excused' = IF open THEN excused ELSE excused \cup {<<o, "place">>}
      /\ removal' \in {removal, NoRemoval}
  BY <1>2 DEF PlaceFails, text
<1>4. PlaceOnly
  BY <1>3 DEF PlaceOnly
<1>5. SavesTypeOK'
  <2>1. used' \in [edits : 0..MaxEdits, failures : 0..MaxFailures, reads : 0..MaxReads]
    BY <1>0, FailureTyped DEF PlaceFails, SavesTypeOK
  <2>2. gfailed' \in BOOLEAN
    BY <1>0 DEF PlaceFails, SavesTypeOK
  <2>3. removal' \in Removal
    BY <1>0, <1>3, NoRemovalIs DEF SavesTypeOK
  <2>4. excused' \subseteq Object \X {"text", "place"}
    BY <1>0, <1>3 DEF SavesTypeOK
  <2> QED BY <1>0, <1>1, <1>3, <2>1, <2>2, <2>3, <2>4 DEF SavesTypeOK
<1>6. MovesFit'
  BY <1>0, <1>1, <1>3 DEF MovesFit
<1>7. PlacesFit'
  <2> SUFFICES ASSUME NEW q \in Object PROVE PlaceFits(q)'
    BY DEF PlacesFit
  <2>1. PlaceFits(q)
    BY <1>0 DEF PlacesFit
  <2>2. \A n \in Slot : moves'[n].at = "stored" => moves'[n] = moves[n]
    BY <1>1
  <2>3. \A n \in Slot : moves[n].at = "sent" /\ moves[n].object = q /\ q # o => moves'[n] = moves[n]
    BY <1>1, <1>2
  <2>4. <<q, "place">> \in excused => <<q, "place">> \in excused'
    BY <1>3
  <2>5. ~open /\ q = o => <<q, "place">> \in excused'
    BY <1>3
  <2> QED BY <1>3, <2>1, <2>2, <2>3, <2>4, <2>5 DEF PlaceFits
<1>8. removal' = removal \/ removal'.at = "none"
  BY <1>3, NoRemovalIs
<1> QED BY <1>4, <1>5, <1>6, <1>7, <1>8, PlaceOnlyKeeps

-----------------------------------------------------------------------------
(* Answers that replace the manifest. *)

LEMMA DeleteKeeps == ASSUME SavesInv, NEW o \in Object, Delete(o) PROVE SavesInv'
<1>0. SavesTypeOK
  BY DEF SavesInv
<1>1. /\ PlaceOnly /\ gtimer' = FALSE /\ open = TRUE
      /\ UNCHANGED <<server, gdirty, gfailed, entry, open, excused>>
  BY <1>0 DEF Delete, PlaceOnly, SavesTypeOK
<1>2. moves' \in [Slot -> PlaceSave] /\ MovesFit' /\ PlacesFit'
  <2>1. SendMoves(TRUE, TRUE) /\ TRUE \in BOOLEAN
    BY DEF Delete
  <2> QED BY <1>1, <2>1, SendKeeps
<1>3. PICK n \in Nat : removal' = [NoRemoval EXCEPT !.at = "flushing", !.object = o, !.waits = n]
  <2>1. chain + 1 + (IF Carried = {} THEN 0 ELSE 1) \in Nat
    BY <1>0 DEF SavesTypeOK
  <2> QED BY <2>1 DEF Delete
<1>4. removal' \in Removal /\ removal'.at = "flushing" /\ removal'.object = o
  <2>1. PICK r \in Removal : r = NoRemoval
    BY NoRemovalIs
  <2>2. removal' = [r EXCEPT !.at = "flushing", !.object = o, !.waits = n]
    BY <1>3, <2>1
  <2> QED BY <2>1, <2>2 DEF Removal
<1>5. SavesTypeOK'
  <2>1. chain' \in Nat
    BY <1>0 DEF Delete, SavesTypeOK
  <2>2. used' \in [edits : 0..MaxEdits, failures : 0..MaxFailures, reads : 0..MaxReads]
    BY <1>0, Values DEF Delete, SavesTypeOK
  <2> QED BY <1>0, <1>1, <1>2, <1>4, <2>1, <2>2 DEF PlaceOnly, SavesTypeOK
<1> QED BY <1>1, <1>2, <1>4, <1>5, PlaceOnlyKeeps

\* What is neither a text nor a place.
Elsewhere ==
  UNCHANGED <<shown, dirty, timer, chain, items, bulk, broken, failed, gdirty, gtimer, gfailed, moves, open,
              entry, excused>>

LEMMA ElsewhereKeeps ==
  ASSUME SavesInv, Elsewhere, SavesTypeOK', DeletionsFit',
         \A o \in Object : server'[o].there => server'[o] = server[o]
  PROVE  SavesInv'
<1>0. MovesFit /\ TextsFit /\ PlacesFit
  BY DEF SavesInv
<1>1. MovesFit'
  BY <1>0, MovesKept DEF Elsewhere, MovesStay
<1>2. \A o \in Object : TextStays(o) /\ PlaceStays(o)
  BY DEF Elsewhere, TextStays, PlaceStays
<1>3. TextsFit' /\ PlacesFit'
  BY <1>0, <1>2, TextKept, PlaceKept DEF TextsFit, PlacesFit
<1> QED BY <1>1, <1>3 DEF SavesInv

LEMMA SendDeleteKeeps == ASSUME SavesInv, SendDelete PROVE SavesInv'
<1>0. SavesTypeOK /\ DeletionsFit
  BY DEF SavesInv
<1>1. Elsewhere /\ UNCHANGED <<server, read, used>>
  BY DEF SendDelete, Elsewhere, text, geometry
<1>2. PICK r \in Removal : r = removal
  BY <1>0 DEF SavesTypeOK
<1>3. removal' \in Removal /\ removal'.at = "sent" /\ removal'.object = removal.object
  BY <1>2 DEF SendDelete, Removal
<1>4. removal.at # "none"
  BY DEF SendDelete
<1>5. SavesTypeOK'
  BY <1>0, <1>1, <1>3 DEF Elsewhere, SavesTypeOK
<1>6. DeletionsFit'
  BY <1>0, <1>1, <1>3, <1>4 DEF Elsewhere, DeletionsFit
<1> QED BY <1>1, <1>5, <1>6, ElsewhereKeeps

LEMMA StoreDeleteKeeps == ASSUME SavesInv, StoreDelete PROVE SavesInv'
<1>0. SavesTypeOK /\ DeletionsFit
  BY DEF SavesInv
<1>1. Elsewhere /\ UNCHANGED <<read, used>>
  BY DEF StoreDelete, Elsewhere, text, geometry
<1>2. PICK r \in Removal : r = removal
  BY <1>0 DEF SavesTypeOK
<1>3. PICK o \in Object : o = removal.object
  BY <1>0 DEF StoreDelete, DeletionsFit
<1>4. /\ server' \in Page /\ ~server'[o].there
      /\ \A q \in Object : server'[q].there => server'[q] = server[q]
  <2>1. Gone \in TextObject /\ ~Gone.there
    BY Values DEF Gone, TextObject
  <2> QED BY <1>0, <1>3, <2>1 DEF StoreDelete, SavesTypeOK, Page
<1>5. removal' \in Removal /\ removal'.at = "done" /\ removal'.object = o /\ removal'.page = server'
  <2>1. removal' = [r EXCEPT !.at = "done", !.page = server']
    BY <1>2 DEF StoreDelete
  <2> QED BY <1>2, <1>3, <1>4, <2>1 DEF Removal
<1>6. SavesTypeOK'
  BY <1>0, <1>1, <1>4, <1>5 DEF Elsewhere, SavesTypeOK
<1>7. DeletionsFit'
  BY <1>0, <1>1, <1>4, <1>5 DEF Elsewhere, DeletionsFit
<1> QED BY <1>1, <1>4, <1>6, <1>7, ElsewhereKeeps

LEMMA AskKeeps ==
  ASSUME SavesInv, NEW merge \in BOOLEAN, NEW target \in Object \cup {"none"}, Ask(merge, target)
  PROVE  SavesInv'
<1>0. SavesTypeOK /\ DeletionsFit
  BY DEF SavesInv
<1>1. Elsewhere /\ UNCHANGED <<server, removal>>
  BY DEF Ask, Elsewhere, text, geometry
<1>2. PICK was \in Value : was = IF target = "none" THEN 0 ELSE shown[target].text
  <2>1. target # "none" => shown[target].text \in Value
    BY <1>0 DEF SavesTypeOK, Page, TextObject
  <2> QED BY <2>1, Values
<1>3. read' \in Read /\ read'.at = "sent"
  <2>1. PICK r \in Read : r = NoRead
    BY Values DEF NoRead, Read, NoPage, Page, Gone, TextObject
  <2>2. read' = [r EXCEPT !.at = "sent", !.merge = merge, !.target = target, !.was = was]
    BY <1>2, <2>1 DEF Ask
  <2> QED BY <2>1, <2>2 DEF Read
<1>4. used' \in [edits : 0..MaxEdits, failures : 0..MaxFailures, reads : 0..MaxReads]
  BY <1>0, Values DEF Ask, SavesTypeOK
<1>5. SavesTypeOK'
  BY <1>0, <1>1, <1>3, <1>4 DEF Elsewhere, SavesTypeOK
<1>6. DeletionsFit'
  BY <1>0, <1>1, <1>3 DEF Elsewhere, DeletionsFit
<1> QED BY <1>1, <1>5, <1>6, ElsewhereKeeps

LEMMA ReadManifestKeeps == ASSUME SavesInv, ReadManifest PROVE SavesInv'
<1>0. SavesTypeOK /\ DeletionsFit
  BY DEF SavesInv
<1>1. Elsewhere /\ UNCHANGED <<server, removal, used>>
  BY DEF ReadManifest, Elsewhere, text, geometry
<1>2. read' \in Read /\ read'.page = server
  <2>1. PICK r \in Read : r = read
    BY <1>0 DEF SavesTypeOK
  <2>2. read' = [r EXCEPT !.at = "done", !.page = server] /\ server \in Page
    BY <1>0, <2>1 DEF ReadManifest, SavesTypeOK
  <2> QED BY <2>1, <2>2 DEF Read
<1>3. SavesTypeOK'
  BY <1>0, <1>1, <1>2 DEF Elsewhere, SavesTypeOK
<1>4. DeletionsFit'
  BY <1>0, <1>1, <1>2 DEF Elsewhere, DeletionsFit
<1> QED BY <1>1, <1>3, <1>4, ElsewhereKeeps

\* What an answer makes of the flush under way and of the texts.
LEMMA ReplacedIs ==
  ASSUME SavesTypeOK, NEW page \in Page, Replaced(page)
  PROVE  /\ shown' = page /\ items' \in [Object -> Item]
         /\ excused' \subseteq Object \X {"text", "place"}
         /\ \A o \in Object :
              /\ <<o, "place">> \in excused' <=> <<o, "place">> \in excused
              /\ <<o, "text">> \notin excused' =>
                   /\ <<o, "text">> \notin excused /\ page[o].text = entry[o].text
                   /\ items[o].at = "none" /\ items'[o] = items[o]
<1>1. /\ shown' = page
      /\ excused' = excused \cup {o \in Object : o \in Carried \/ page[o].text # entry[o].text} \X {"text"}
      /\ items' = [o \in Object |->
           IF items[o].at # "none" /\ items[o].stale = None /\ shown[o].there
           THEN [items[o] EXCEPT !.stale = shown[o].text] ELSE items[o]]
  BY DEF Replaced
<1>2. items' \in [Object -> Item]
  <2> SUFFICES ASSUME NEW o \in Object PROVE items'[o] \in Item
    BY <1>1
  <2>1. PICK i \in Item : i = items[o]
    BY DEF SavesTypeOK
  <2>2. shown[o].text \in Value
    BY DEF SavesTypeOK, Page, TextObject
  <2>3. [i EXCEPT !.stale = shown[o].text] \in Item
    BY <2>2 DEF Item
  <2> QED BY <1>1, <2>1, <2>3
<1>3. excused' \subseteq Object \X {"text", "place"}
  BY <1>1 DEF SavesTypeOK
<1>4. ASSUME NEW o \in Object
      PROVE  /\ <<o, "place">> \in excused' <=> <<o, "place">> \in excused
             /\ <<o, "text">> \notin excused' =>
                  /\ <<o, "text">> \notin excused /\ page[o].text = entry[o].text
                  /\ items[o].at = "none" /\ items'[o] = items[o]
  BY <1>1 DEF Carried
<1> QED BY <1>1, <1>2, <1>3, <1>4

\* An answer that holds what the server holds, with what waits for the server put back.
LEMMA ReplacedKeeps ==
  ASSUME SavesInv, NEW page \in Page, Replaced(page), open = TRUE, SavesTypeOK', MovesFit',
         UNCHANGED <<server, entry, open>>,
         removal' = removal \/ removal'.at = "none",
         read' = read \/ read'.at = "none",
         \A o \in Object : server[o].there =>
           page[o].there /\ dirty'[o] = dirty[o] /\ gdirty'[o] = gdirty[o],
         \A o \in Object : gdirty'[o] \in {None, gdirty[o]},
         \A m \in Slot : moves'[m].at = "stored" /\ moves'[m].fresh => moves'[m] = moves[m]
  PROVE  SavesInv'
<1>0. SavesTypeOK /\ DeletionsFit /\ TextsFit /\ PlacesFit
  BY DEF SavesInv
<1>1. /\ shown' = page
      /\ \A o \in Object :
           /\ <<o, "place">> \in excused' <=> <<o, "place">> \in excused
           /\ <<o, "text">> \notin excused' =>
                /\ <<o, "text">> \notin excused /\ page[o].text = entry[o].text
                /\ items[o].at = "none" /\ items'[o] = items[o]
  BY <1>0, ReplacedIs
<1>2. DeletionsFit'
  BY <1>0, <1>1 DEF DeletionsFit
<1>3. TextsFit'
  <2> SUFFICES ASSUME NEW o \in Object PROVE TextFits(o)'
    BY DEF TextsFit
  <2>1. TextFits(o)
    BY <1>0 DEF TextsFit
  <2> QED BY <1>1, <2>1 DEF TextFits
<1>4. PlacesFit'
  <2> SUFFICES ASSUME NEW o \in Object PROVE PlaceFits(o)'
    BY DEF PlacesFit
  <2>1. PlaceFits(o)
    BY <1>0 DEF PlacesFit
  <2> QED BY <1>1, <2>1 DEF PlaceFits
<1> QED BY <1>2, <1>3, <1>4 DEF SavesInv

LEMMA MergedIs ==
  ASSUME NEW page \in Page, NEW target, NEW typed \in Value,
         dirty' \in [Object -> Value \cup {None}], gdirty' \in [Object -> Value \cup {None}]
  PROVE  /\ Merged(page, target, typed) \in Page
         /\ \A o \in Object : Merged(page, target, typed)[o].there = page[o].there
<1> SUFFICES ASSUME NEW o \in Object
             PROVE  /\ Merged(page, target, typed)[o] \in TextObject
                    /\ Merged(page, target, typed)[o].there = page[o].there
  BY DEF Merged, Page
<1>1. PICK p \in TextObject : p = page[o]
  BY DEF Page
<1>2. PICK v \in Value : v = IF o = target THEN typed ELSE IF dirty'[o] # None THEN dirty'[o] ELSE p.text
  BY <1>1 DEF TextObject
<1>3. PICK w \in Value : w = IF gdirty'[o] # None THEN gdirty'[o] ELSE p.place
  BY <1>1 DEF TextObject
<1>4. Merged(page, target, typed)[o] = IF ~p.there THEN Gone ELSE [p EXCEPT !.text = v, !.place = w]
  BY <1>1, <1>2, <1>3 DEF Merged
<1>5. Gone \in TextObject /\ Gone.there = FALSE
  BY Values DEF Gone, TextObject
<1>6. p.there \in BOOLEAN
  BY DEF TextObject
<1> QED BY <1>1, <1>4, <1>5, <1>6 DEF TextObject

LEMMA DeletedKeeps == ASSUME SavesInv, Deleted PROVE SavesInv'
<1>0. SavesTypeOK /\ MovesFit /\ DeletionsFit
  BY DEF SavesInv
<1>1. PICK o \in Object : o = removal.object
  BY <1>0 DEF Deleted, DeletionsFit
<1>2. PICK page \in Page : page = removal.page
  BY <1>0 DEF SavesTypeOK, Removal
<1>3. /\ ~server[o].there
      /\ \A q \in Object : server[q].there => page[q].there
  BY <1>0, <1>1, <1>2 DEF Deleted, DeletionsFit
<1>4. /\ dirty' \in [Object -> Value \cup {None}] /\ gdirty' \in [Object -> Value \cup {None}]
      /\ \A q \in Object \ {o} : dirty'[q] = dirty[q] /\ gdirty'[q] = gdirty[q]
      /\ gdirty'[o] = None
  BY <1>0, <1>1 DEF Deleted, SavesTypeOK
<1>5. /\ moves' \in [Slot -> PlaceSave]
      /\ \A m \in Slot : /\ ~moves'[m].fresh
                         /\ moves'[m].at = moves[m].at /\ moves'[m].object = moves[m].object
  <2> SUFFICES ASSUME NEW m \in Slot
               PROVE  /\ moves'[m] \in PlaceSave /\ ~moves'[m].fresh
                      /\ moves'[m].at = moves[m].at /\ moves'[m].object = moves[m].object
    BY DEF Deleted, Outdated
  <2>1. PICK s \in PlaceSave : s = moves[m]
    BY <1>0 DEF SavesTypeOK
  <2>2. moves'[m] = [s EXCEPT !.fresh = FALSE]
    BY <2>1 DEF Deleted, Outdated
  <2> QED BY <2>1, <2>2 DEF PlaceSave
<1>6. PICK shows \in Page : /\ Replaced(shows)
                            /\ \A q \in Object : shows[q].there = page[q].there
  <2>1. Replaced(Merged(page, "none", 0))
    BY <1>2 DEF Deleted
  <2> QED BY <1>4, <2>1, Values, MergedIs
<1>7. /\ open = TRUE /\ removal' = NoRemoval
      /\ UNCHANGED <<server, timer, chain, bulk, broken, failed, gtimer, gfailed, read, open, used, entry>>
  BY <1>0 DEF Deleted, SavesTypeOK
<1>8. removal' \in Removal /\ removal'.at = "none"
  BY <1>7, NoRemovalIs
<1>9. SavesTypeOK'
  <2>1. /\ shown' \in Page /\ items' \in [Object -> Item]
        /\ excused' \subseteq Object \X {"text", "place"}
    BY <1>0, <1>6, ReplacedIs
  <2> QED BY <1>0, <1>4, <1>5, <1>7, <1>8, <2>1 DEF SavesTypeOK
<1>10. MovesFit'
  BY <1>0, <1>5 DEF MovesFit
<1>11. \A q \in Object : server[q].there =>
         shows[q].there /\ dirty'[q] = dirty[q] /\ gdirty'[q] = gdirty[q]
  BY <1>3, <1>4, <1>6
<1>12. \A q \in Object : gdirty'[q] \in {None, gdirty[q]}
  BY <1>4
<1> QED BY <1>5, <1>6, <1>7, <1>8, <1>9, <1>10, <1>11, <1>12, ReplacedKeeps

LEMMA AnsweredKeeps == ASSUME SavesInv, NEW inPanel \in BOOLEAN, Answered(inPanel) PROVE SavesInv'
<1>0. SavesTypeOK /\ MovesFit /\ DeletionsFit
  BY DEF SavesInv
<1>1. /\ open = TRUE /\ read' = NoRead /\ read.at = "done"
      /\ UNCHANGED <<server, dirty, gdirty, timer, chain, bulk, broken, failed, gtimer, gfailed, moves,
                     removal, open, used, entry>>
  BY <1>0 DEF Answered, SavesTypeOK
<1>2. read' \in Read /\ read'.at = "none"
  BY <1>1, Values DEF NoRead, Read, NoPage, Page, Gone, TextObject
<1>3. PICK page \in Page : page = read.page
  BY <1>0 DEF SavesTypeOK, Read
<1>4. \A o \in Object : server[o].there => page[o].there
  BY <1>0, <1>1, <1>3 DEF DeletionsFit
<1>5. \/ UNCHANGED <<shown, items, excused>>
      \/ \E shows \in Page : /\ Replaced(shows)
                             /\ \A o \in Object : shows[o].there = page[o].there
  <2>1. dirty' \in [Object -> Value \cup {None}] /\ gdirty' \in [Object -> Value \cup {None}]
    BY <1>0, <1>1 DEF SavesTypeOK
  <2>2. ASSUME NEW target, NEW typed \in Value, Replaced(Merged(page, target, typed))
        PROVE  \E shows \in Page : /\ Replaced(shows)
                                   /\ \A o \in Object : shows[o].there = page[o].there
    BY <2>1, <2>2, MergedIs
  <2>3. CASE read.target = "none"
    <3>1. Replaced(Merged(page, "none", 0)) \/ Replaced(page)
      BY <1>3, <2>3 DEF Answered
    <3> QED BY <2>2, <3>1, Values
  <2>4. CASE read.target # "none"
    <3>1. PICK o \in Object : o = read.target
      BY <1>0, <2>4 DEF SavesTypeOK, Read
    <3>2. PICK typed \in Value :
            typed = IF inPanel /\ shown[o].text # read.was THEN shown[o].text ELSE page[o].text
      BY <1>0, <3>1 DEF SavesTypeOK, Page, TextObject
    <3>3. Replaced(Merged(page, o, typed)) \/ UNCHANGED <<shown, items, excused>>
      BY <1>3, <2>4, <3>1, <3>2 DEF Answered
    <3> QED BY <2>2, <3>3
  <2> QED BY <2>3, <2>4
<1>6. CASE UNCHANGED <<shown, items, excused>>
  <2>1. Elsewhere /\ server' = server
    BY <1>1, <1>6 DEF Elsewhere
  <2>2. SavesTypeOK'
    BY <1>0, <1>1, <1>2, <1>6 DEF SavesTypeOK
  <2>3. DeletionsFit'
    BY <1>0, <1>1, <1>2, <1>6 DEF DeletionsFit
  <2> QED BY <2>1, <2>2, <2>3, ElsewhereKeeps
<1>7. CASE \E shows \in Page : /\ Replaced(shows)
                               /\ \A o \in Object : shows[o].there = page[o].there
  <2>1. PICK shows \in Page : /\ Replaced(shows)
                              /\ \A o \in Object : shows[o].there = page[o].there
    BY <1>7
  <2>2. /\ shown' \in Page /\ items' \in [Object -> Item]
        /\ excused' \subseteq Object \X {"text", "place"}
    BY <1>0, <2>1, ReplacedIs
  <2>3. SavesTypeOK'
    BY <1>0, <1>1, <1>2, <2>2 DEF SavesTypeOK
  <2>4. MovesFit'
    BY <1>0, <1>1, MovesKept DEF MovesStay
  <2>5. \A o \in Object : server[o].there =>
          shows[o].there /\ dirty'[o] = dirty[o] /\ gdirty'[o] = gdirty[o]
    BY <1>1, <1>4, <2>1
  <2>6. /\ \A o \in Object : gdirty'[o] \in {None, gdirty[o]}
        /\ \A m \in Slot : moves'[m].at = "stored" /\ moves'[m].fresh => moves'[m] = moves[m]
    BY <1>1
  <2> QED BY <1>1, <1>2, <2>1, <2>3, <2>4, <2>5, <2>6, ReplacedKeeps
<1> QED BY <1>5, <1>6, <1>7

-----------------------------------------------------------------------------
(* The page closes. *)

LEMMA CloseKeeps == ASSUME SavesInv, Close PROVE SavesInv'
<1>0. SavesTypeOK /\ MovesFit /\ DeletionsFit /\ TextsFit /\ PlacesFit
  BY DEF SavesInv
<1>1. /\ open = TRUE /\ open' = FALSE /\ SendMoves(FALSE, FALSE)
      /\ UNCHANGED <<shown, server, dirty, timer, chain, bulk, broken, failed, gdirty, gtimer, gfailed,
                     removal, read, used, entry>>
  BY <1>0 DEF Close, calls, SavesTypeOK
<1>2. /\ items' \in [Object -> Item]
      /\ \A o \in Object : IF dirty[o] # None
                           THEN items'[o].at = "sent" /\ items'[o].text = dirty[o] /\ items'[o].stale = None
                           ELSE items'[o].at = "none"
  <2>1. items' = [o \in Object |->
          IF dirty[o] # None THEN [at |-> "sent", text |-> dirty[o], stale |-> None] ELSE NoItem]
    BY DEF Close
  <2>2. \A o \in Object : dirty[o] # None => dirty[o] \in Value
    BY <1>0 DEF SavesTypeOK
  <2> QED BY <2>1, <2>2, SentItem, NoItemIs
<1>3. /\ excused' \subseteq Object \X {"text", "place"}
      /\ \A o \in Object : /\ <<o, "place">> \in excused' <=> <<o, "place">> \in excused
                           /\ <<o, "text">> \notin excused' =>
                                <<o, "text">> \notin excused /\ items[o].at = "none"
  BY <1>0 DEF Close, Carried, SavesTypeOK
<1>4. /\ moves' \in [Slot -> PlaceSave]
      /\ \A o \in DirtyPlaces : \E m \in Slot :
           moves'[m].at = "sent" /\ moves'[m].object = o /\ moves'[m].place = gdirty[o]
      /\ \A m \in Slot : moves'[m].at # "none" =>
           /\ moves'[m].at = "sent"
           /\ \/ /\ moves'[m].object \in DirtyPlaces
                 /\ moves'[m].place = gdirty[moves'[m].object]
              \/ /\ moves'[m].at = moves[m].at /\ moves'[m].object = moves[m].object
                 /\ moves'[m].place = moves[m].place /\ (moves'[m].fresh => moves[m].fresh)
  <2>1. FALSE \in BOOLEAN
    OBVIOUS
  <2> QED BY <1>0, <1>1, <2>1, SendMovesIs
<1>5. \A o \in DirtyPlaces : o \in Object /\ gdirty[o] = entry[o].place
  BY <1>0 DEF DirtyPlaces, PlacesFit, PlaceFits
<1>6. SavesTypeOK'
  BY <1>0, <1>1, <1>2, <1>3, <1>4 DEF SavesTypeOK
<1>7. MovesFit'
  <2> SUFFICES ASSUME NEW m \in Slot, moves'[m].at # "none"
               PROVE  /\ moves'[m].object \in Object
                      /\ moves'[m].fresh => moves'[m].place = entry'[moves'[m].object].place
    BY DEF MovesFit
  <2>1. moves[m].at # "none" => /\ moves[m].object \in Object
                                /\ moves[m].fresh => moves[m].place = entry[moves[m].object].place
    BY <1>0 DEF MovesFit
  <2> QED BY <1>1, <1>4, <1>5, <2>1
<1>8. DeletionsFit'
  BY <1>0, <1>1 DEF DeletionsFit
<1>9. TextsFit'
  <2> SUFFICES ASSUME NEW o \in Object PROVE TextFits(o)'
    BY DEF TextsFit
  <2>1. TextFits(o)
    BY <1>0 DEF TextsFit
  <2> QED BY <1>1, <1>2, <1>3, <2>1 DEF TextFits
<1>10. PlacesFit'
  <2> SUFFICES ASSUME NEW o \in Object PROVE PlaceFits(o)'
    BY DEF PlacesFit
  <2>1. PlaceFits(o)
    BY <1>0 DEF PlacesFit
  <2>2. gdirty[o] # None => \E m \in Slot : /\ moves'[m].at = "sent" /\ moves'[m].object = o
                                            /\ moves'[m].place = entry[o].place
    <3>1. gdirty[o] # None => o \in DirtyPlaces
      BY DEF DirtyPlaces
    <3> QED BY <1>4, <1>5, <3>1
  <2>3. \A m \in Slot : moves'[m].at # "stored"
    BY <1>4
  <2> QED BY <1>1, <1>3, <2>1, <2>2, <2>3 DEF PlaceFits
<1> QED BY <1>6, <1>7, <1>8, <1>9, <1>10 DEF SavesInv

LEMMA ClosingEndsKeeps == ASSUME SavesInv, ClosingEnds PROVE SavesInv'
<1>0. SavesTypeOK /\ TextsFit
  BY DEF SavesInv
<1>1. /\ TextOnly /\ open = FALSE /\ items' = [o \in Object |-> NoItem]
      /\ UNCHANGED <<server, dirty, timer, chain, bulk, broken, failed, removal, used>>
  BY <1>0 DEF ClosingEnds, TextOnly, geometry, calls, SavesTypeOK
<1>2. items' \in [Object -> Item] /\ \A o \in Object : items'[o].at = "none"
  BY <1>1, NoItemIs
<1>3. \A o \in Object : items[o].at \in {"none", "stored"}
  BY DEF ClosingEnds, Carried
<1>4. SavesTypeOK'
  BY <1>0, <1>1, <1>2 DEF TextOnly, SavesTypeOK
<1>5. TextsFit'
  <2> SUFFICES ASSUME NEW o \in Object PROVE TextFits(o)'
    BY DEF TextsFit
  <2>1. TextFits(o)
    BY <1>0 DEF TextsFit
  <2> QED BY <1>1, <1>2, <1>3, <2>1 DEF TextFits, TextOnly
<1> QED BY <1>1, <1>4, <1>5, TextOnlyKeeps

LEMMA ClosingFailsKeeps == ASSUME SavesInv, ClosingFails PROVE SavesInv'
<1>0. SavesTypeOK /\ MovesFit /\ DeletionsFit /\ TextsFit /\ PlacesFit
  BY DEF SavesInv
<1>1. /\ open = FALSE /\ items' = [o \in Object |-> NoItem]
      /\ UNCHANGED <<shown, server, dirty, timer, chain, bulk, broken, failed, gdirty, gtimer, gfailed,
                     moves, removal, read, open, entry>>
  BY <1>0 DEF ClosingFails, geometry, calls, SavesTypeOK
<1>2. items' \in [Object -> Item] /\ \A o \in Object : items'[o].at = "none"
  BY <1>1, NoItemIs
<1>3. /\ excused' \subseteq Object \X {"text", "place"} /\ excused \subseteq excused'
      /\ \A o \in Object : <<o, "text">> \notin excused' => items[o].at = "none"
  <2>1. \A m \in Slot \ Free : moves[m].object \in Object
    BY <1>0 DEF Free, MovesFit
  <2>2. excused' = excused \cup Carried \X {"text"} \cup {moves[m].object : m \in Slot \ Free} \X {"place"}
    BY DEF ClosingFails
  <2> QED BY <1>0, <2>1, <2>2 DEF Carried, SavesTypeOK
<1>4. SavesTypeOK'
  <2>1. used' \in [edits : 0..MaxEdits, failures : 0..MaxFailures, reads : 0..MaxReads]
    BY <1>0, FailureTyped DEF ClosingFails, SavesTypeOK
  <2> QED BY <1>0, <1>1, <1>2, <1>3, <2>1 DEF SavesTypeOK
<1>5. MovesFit' /\ DeletionsFit'
  BY <1>0, <1>1 DEF MovesFit, DeletionsFit
<1>6. TextsFit'
  <2> SUFFICES ASSUME NEW o \in Object PROVE TextFits(o)'
    BY DEF TextsFit
  <2>1. TextFits(o)
    BY <1>0 DEF TextsFit
  <2>2. <<o, "text">> \notin excused' => <<o, "text">> \notin excused /\ items[o].at = "none"
    BY <1>3
  <2> QED BY <1>1, <1>2, <2>1, <2>2 DEF TextFits
<1>7. PlacesFit'
  <2>1. \A q \in Object : PlaceStays(q)
    BY <1>1, <1>3 DEF PlaceStays
  <2> QED BY <1>0, <2>1, PlaceKept DEF PlacesFit
<1> QED BY <1>4, <1>5, <1>6, <1>7 DEF SavesInv

-----------------------------------------------------------------------------
(* The theorem. *)

LEMMA StillKeeps == ASSUME SavesInv, UNCHANGED savesVars PROVE SavesInv'
<1>0. SavesTypeOK /\ DeletionsFit
  BY DEF SavesInv
<1>1. UNCHANGED <<shown, server, dirty, timer, chain, items, bulk, broken, failed, gdirty, gtimer, gfailed,
                  moves, removal, read, open, used, entry, excused>>
  BY DEF savesVars, text, geometry, calls
<1>2. SavesTypeOK' /\ DeletionsFit' /\ Elsewhere
  BY <1>0, <1>1 DEF SavesTypeOK, DeletionsFit, Elsewhere
<1> QED BY <1>1, <1>2, ElsewhereKeeps

\* The invariant is inductive.
LEMMA SavesInvStep == ASSUME SavesInv, [SavesNext]_savesVars PROVE SavesInv'
<1>1. ASSUME NEW o \in Object, Type(o) \/ Move(o) \/ Delete(o) \/ TextStep(o) PROVE SavesInv'
  BY <1>1, TypeKeeps, MoveKeeps, DeleteKeeps, StoreTextKeeps, TextSavedKeeps, TextFailsKeeps DEF TextStep
<1>2. ASSUME NEW m \in Slot, PlaceStep(m) PROVE SavesInv'
  BY <1>2, StorePlaceKeeps, PlaceSavedKeeps, PlaceFailsKeeps DEF PlaceStep
<1>3. CASE TextTimer \/ StartFlush \/ BulkSaved \/ BulkFails \/ GeomTimer
  BY <1>3, TextTimerKeeps, StartFlushKeeps, BulkSavedKeeps, BulkFailsKeeps, GeomTimerKeeps
<1>4. CASE SendDelete \/ StoreDelete \/ Deleted \/ ReadManifest
  BY <1>4, SendDeleteKeeps, StoreDeleteKeeps, DeletedKeeps, ReadManifestKeeps
<1>5. ASSUME NEW merge \in BOOLEAN, NEW target \in Object \cup {"none"}, Ask(merge, target) PROVE SavesInv'
  BY <1>5, AskKeeps
<1>6. ASSUME NEW inPanel \in BOOLEAN, Answered(inPanel) PROVE SavesInv'
  BY <1>6, AnsweredKeeps
<1>7. CASE Close \/ ClosingEnds \/ ClosingFails
  BY <1>7, CloseKeeps, ClosingEndsKeeps, ClosingFailsKeeps
<1>8. CASE UNCHANGED savesVars
  BY <1>8, StillKeeps
<1> QED BY <1>1, <1>2, <1>3, <1>4, <1>5, <1>6, <1>7, <1>8 DEF SavesNext

\* With nothing left to save, what was last to be saved is on the server.
LEMMA SavesInvEnough == SavesInv => EditsStored
<1> SUFFICES ASSUME SavesInv,
                    IF open THEN Status = "saved" ELSE Carried = {} /\ Free = Slot,
                    NEW o \in Object
             PROVE  /\ <<o, "text">> \in excused \/ TextStored(o)
                    /\ <<o, "place">> \in excused \/ PlaceStored(o)
  BY DEF EditsStored
<1>1. TextFits(o) /\ PlaceFits(o)
  BY DEF SavesInv, TextsFit, PlacesFit
<1>2. CASE open
  <2>1. Carried = {} /\ DirtyTexts = {} /\ DirtyPlaces = {}
    BY <1>2 DEF Status
  <2>2. items[o].at = "none" /\ dirty[o] = None /\ gdirty[o] = None
    BY <2>1 DEF Carried, DirtyTexts, DirtyPlaces
  <2> QED BY <1>1, <1>2, <2>2 DEF TextFits, PlaceFits, TextStored, PlaceStored
<1>3. CASE ~open
  <2>1. items[o].at = "none" /\ \A m \in Slot : moves[m].at = "none"
    BY <1>3 DEF Carried, Free
  <2> QED BY <1>1, <1>3, <2>1 DEF TextFits, PlaceFits, TextStored, PlaceStored
<1> QED BY <1>2, <1>3

\* For any objects, edits, failures and answers: "all changes have been saved" is shown only when
\* they are, and a page that has closed has its last saves stored (editor-persistence.js:25), but
\* for what EditsStored excuses.
THEOREM SavesAreOK == SavesSpec => []SavesOK
<1>1. SavesInv => SavesOK
  BY SavesInvEnough DEF SavesInv, SavesOK
<1> QED BY <1>1, SavesInvInit, SavesInvStep, PTL DEF SavesSpec
=============================================================================
