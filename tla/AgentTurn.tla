----------------------------- MODULE AgentTurn -----------------------------
(***************************************************************************)
(* A session of the agent (agent/session.py).  Messages start a turn or    *)
(* wait in the queue of the running one; a thread of its own runs the turn,*)
(* asks the model, runs its calls side by side and lets the user approve   *)
(* them one at a time; a helper working beside the turn asks through the   *)
(* same card.  The scheduler and the user's commands send messages too,    *)
(* and everybody saves the session, well or not.  Meanwhile the user       *)
(* stops, compacts or deletes the session.                                 *)
(*                                                                         *)
(* Replies, arguments and results are left out: whether a reply calls      *)
(* tools, answers or fails is a free choice.  A key limit, a goal and the  *)
(* nudges only add such choices.  What a saved session holds is the set of *)
(* messages the model was told of.                                         *)
(***************************************************************************)
EXTENDS Integers, Sequences, FiniteSets, SequencesExt

CONSTANTS
  Thread,        \* turn threads alive at a time; bound of the model
  Call,          \* calls a reply may make
  HelperCall,    \* the calls of the helper
  AlwaysAsk,     \* calls that ask in every mode (_always_ask)
  None,
  Budgets,       \* bound of the model: how often each of Ops may be done
  MaxMessages    \* bound of the model

Ops == {"send", "tick", "stop", "compact", "delete", "batch", "helper", "command", "fault"}

ASSUME AgentAssumption ==
  /\ HelperCall \cap Call = {} /\ None \notin Call \cup HelperCall \cup Thread
  /\ AlwaysAsk \subseteq Call \cup HelperCall /\ Thread \cap {"tick", "compact", "command"} = {}
  /\ Budgets \subseteq [Ops -> Nat] /\ MaxMessages \in Nat

VARIABLES
  status,        \* what the page is shown, and what send() goes by
  stopped,       \* _stop
  queue,         \* messages waiting for the running turn
  mode,          \* "ask", or "edits" once the user allowed everything
  asking,        \* the call that holds _approval_lock and waits for an answer
  pending,       \* the call whose card is shown
  call,          \* where each call is
  turn,          \* where each turn thread is
  opening,       \* messages accepted for a turn that is about to start
  told,          \* messages in the history
  helper,        \* the helper working beside the turn
  compacting,
  saving,        \* what each writer is about to write
  tick,          \* the scheduler thread
  command,       \* the thread of a request that saves: /compact auto, or a skill switched on or off
  deleting,      \* delete(): where it is, and the threads it joins
  disk,          \* the session file
  overtaken,     \* history: whether a save was written over a later one
  unsaved,       \* history: what saves that failed were to write, until another save does
  sent,          \* messages sent so far
  left           \* what is left of the budget

control == <<status, stopped, queue>>
approval == <<mode, asking, pending, call>>
files == <<saving, disk, overtaken, unsaved>>
outside == <<tick, command, deleting, left>>
vars == <<control, approval, turn, opening, told, helper, compacting, files, outside, sent>>

Message == 1..MaxMessages
Calls == Call \cup HelperCall
Writer == Thread \cup {"tick", "compact", "command"}
Gone == {0}                                  \* no session file

\* pcs of _loop and _steps; a saving thread is in "mid", "end" or "tail"
InTurn == {"top", "model", "calls", "more", "over", "end", "settle", "renew"}
Pc == InTurn \cup {"off", "mid", "tail"}
Working == {t \in Thread : turn[t] \in InTurn \cup {"mid"}}

NoCall == [at |-> "none", was |-> None, answer |-> None]
Closing == deleting.at # "no"

Init ==
  /\ status = "idle" /\ stopped = FALSE /\ queue = <<>>
  /\ mode = "ask" /\ asking = None /\ pending = None
  /\ call = [c \in Calls |-> NoCall]
  /\ turn = [t \in Thread |-> "off"] /\ opening = {} /\ told = {}
  /\ helper = "none" /\ compacting = "no"
  /\ saving = [w \in Writer |-> None] /\ disk = {}
  /\ overtaken = FALSE /\ unsaved = {} /\ command = "no"
  /\ tick = [at |-> "off", message |-> None]
  /\ deleting = [at |-> "no", joined |-> {}]
  /\ sent = 0 /\ left \in Budgets

-----------------------------------------------------------------------------
(* Sending. *)

Used(op) == left[op] > 0 /\ left' = [left EXCEPT ![op] = @ - 1]

\* Mutant: a session that waits for the user takes the message for a new turn
AcceptedWhileWaiting(m) ==
  IF status = "running"
  THEN queue' = Append(queue, m) /\ UNCHANGED <<status, stopped, opening>>
  ELSE status' = "running" /\ stopped' = FALSE /\ opening' = opening \cup {m} /\ UNCHANGED queue

\* start a turn, or queue the message for the running one; the lock is held
Accepted(m) ==
  IF status \in {"running", "waiting"}
  THEN queue' = Append(queue, m) /\ UNCHANGED <<status, stopped, opening>>
  ELSE status' = "running" /\ stopped' = FALSE /\ opening' = opening \cup {m} /\ UNCHANGED queue

\* the page finds no session to send to once it is deleted
Send ==
  /\ sent < MaxMessages /\ ~Closing /\ Used("send")
  /\ sent' = sent + 1 /\ Accepted(sent + 1)
  /\ UNCHANGED <<approval, turn, told, helper, compacting, files, tick, command, deleting>>

\* the rest of send(), after the lock: the request begins and its thread starts
Begin(m, t) ==
  /\ m \in opening /\ turn[t] = "off"
  /\ opening' = opening \ {m} /\ told' = told \cup {m}
  /\ turn' = [turn EXCEPT ![t] = "top"]
  /\ UNCHANGED <<control, approval, helper, compacting, files, outside, sent>>

\* whether the session is being closed is looked at before a round, not in it
TickDue ==
  /\ tick.at = "off" /\ ~Closing /\ Used("tick")
  /\ tick' = [tick EXCEPT !.at = "due"]
  /\ UNCHANGED <<control, approval, turn, opening, told, helper, compacting, files, command, deleting, sent>>

TickSend ==
  /\ tick.at = "due" /\ sent < MaxMessages
  /\ sent' = sent + 1 /\ Accepted(sent + 1)
  /\ tick' = [at |-> "save", message |-> sent + 1]
  /\ UNCHANGED <<approval, turn, told, helper, compacting, files, command, deleting, left>>

\* the request has its session before the session is taken out of the manager
Command ==
  /\ command = "no" /\ ~Closing /\ Used("command")
  /\ command' = "save"
  /\ UNCHANGED <<control, approval, turn, opening, told, helper, compacting, files, tick, deleting, sent>>

\* a skill that is switched on is told to the model as well
CommandSend ==
  /\ command = "send" /\ sent < MaxMessages
  /\ sent' = sent + 1 /\ Accepted(sent + 1)
  /\ command' = "no"
  /\ UNCHANGED <<approval, turn, told, helper, compacting, files, tick, deleting, left>>

CommandDone ==
  /\ command = "send" /\ command' = "no"
  /\ UNCHANGED <<control, approval, turn, opening, told, helper, compacting, files, tick, deleting, left, sent>>

-----------------------------------------------------------------------------
(* A turn. *)

Goes(t, pc) == turn' = [turn EXCEPT ![t] = pc]

\* the queue is drained, and a helper that has ended is reported
Top(t) ==
  /\ turn[t] = "top"
  /\ IF stopped
     THEN Goes(t, "over") /\ UNCHANGED <<queue, told, helper>>
     ELSE /\ Goes(t, "model") /\ queue' = <<>> /\ told' = told \cup ToSet(queue)
          /\ helper' = IF helper = "ended" THEN "none" ELSE helper
  /\ UNCHANGED <<status, stopped, approval, opening, compacting, files, outside, sent>>

\* the model fails, or its reply is an answer or a batch of calls run together
Model(t) ==
  /\ turn[t] = "model"
  /\ \/ Goes(t, "over") /\ UNCHANGED <<call, left>>
     \/ Goes(t, "more") /\ UNCHANGED <<call, left>>
     \/ /\ Used("batch")
        /\ Goes(t, "calls")
        /\ \E batch \in SUBSET Call \ {{}} :
             call' = [c \in Calls |-> IF c \in batch THEN [NoCall EXCEPT !.at = "new"] ELSE call[c]]
  /\ UNCHANGED <<control, mode, asking, pending, opening, told, helper, compacting, files, tick, command, deleting, sent>>

\* spawn_agent, while a call runs: the helper works on by itself
Spawn(t, c) ==
  /\ turn[t] = "calls" /\ c \in Call /\ call[c].at = "go" /\ helper = "none" /\ Used("helper")
  /\ helper' = "on"
  /\ call' = [d \in Calls |-> IF d \in HelperCall THEN [NoCall EXCEPT !.at = "new"]
                              ELSE IF d = c THEN [call[d] EXCEPT !.at = "done"] ELSE call[d]]
  /\ UNCHANGED <<control, mode, asking, pending, turn, opening, told, compacting, files, tick, command, deleting, sent>>

Recorded(t) ==
  /\ turn[t] = "calls" /\ \A c \in Call : call[c].at \in {"none", "done"}
  /\ call' = [c \in Calls |-> IF c \in Call THEN NoCall ELSE call[c]]
  /\ Goes(t, "mid")
  /\ UNCHANGED <<control, mode, asking, pending, opening, told, helper, compacting, files, outside, sent>>

\* an answer ends the turn, unless a message waits or a helper is still to be heard;
\* a message that comes while a helper is waited for ends it too, and starts the next
More(t) ==
  /\ turn[t] = "more"
  /\ \/ queue # <<>> /\ Goes(t, "top")
     \/ queue # <<>> /\ helper = "on" /\ Goes(t, "over")
     \/ queue = <<>> /\ ~stopped /\ helper = "ended" /\ Goes(t, "top")
     \/ queue = <<>> /\ (stopped \/ helper = "none") /\ Goes(t, "over")
  /\ UNCHANGED <<control, approval, opening, told, helper, compacting, files, outside, sent>>

Again == queue # <<>> /\ ~stopped

\* Mutant: the turn goes idle without saving
OverUnsaved(t) ==
  /\ turn[t] = "over"
  /\ Goes(t, IF Again THEN "renew" ELSE "settle")
  /\ UNCHANGED <<control, approval, opening, told, helper, compacting, files, outside, sent>>

Over(t) ==
  /\ turn[t] = "over"
  /\ Goes(t, IF Again THEN "renew" ELSE "end")
  /\ UNCHANGED <<control, approval, opening, told, helper, compacting, files, outside, sent>>

\* Mutant: the turn goes idle without looking at the queue once more
SettleBlindly(t) ==
  /\ turn[t] = "settle"
  /\ status' = "idle" /\ Goes(t, "off")
  /\ UNCHANGED <<stopped, queue, approval, opening, told, helper, compacting, files, outside, sent>>

\* a message that came during the save is not left behind
Settle(t) ==
  /\ turn[t] = "settle"
  /\ IF Again THEN Goes(t, "renew") /\ UNCHANGED status ELSE status' = "idle" /\ Goes(t, "off")
  /\ UNCHANGED <<stopped, queue, approval, opening, told, helper, compacting, files, outside, sent>>

\* the next request has a thread of its own, while this one saves once more
Renew(t, u) ==
  /\ turn[t] = "renew" /\ turn[u] = "off"
  /\ turn' = [turn EXCEPT ![t] = "tail", ![u] = "top"]
  /\ UNCHANGED <<control, approval, opening, told, helper, compacting, files, outside, sent>>

-----------------------------------------------------------------------------
(* Calls and their approval. *)

Moves(c, at) == call' = [call EXCEPT ![c].at = at]

\* a call does not start after a stop
StartCall(c) ==
  /\ call[c].at = "new"
  /\ Moves(c, IF stopped THEN "done" ELSE "checked")
  /\ UNCHANGED <<control, mode, asking, pending, turn, opening, told, helper, compacting, files, outside, sent>>

Needs(c) == mode = "ask" \/ c \in AlwaysAsk

\* the approval lock is held while a call is looked at, and while it is asked about;
\* a helper has a lock and a mode of its own, so whether its call asks is a free choice
RunFreely(c) ==
  /\ call[c].at = "checked"
  /\ c \in HelperCall \ AlwaysAsk \/ (asking = None /\ ~Needs(c))
  /\ Moves(c, "go")
  /\ UNCHANGED <<control, mode, asking, pending, turn, opening, told, helper, compacting, files, outside, sent>>

Ask(c) ==
  /\ call[c].at = "checked" /\ asking = None /\ (Needs(c) \/ c \in HelperCall)
  /\ asking' = c /\ pending' = c
  /\ call' = [call EXCEPT ![c] = [at |-> "shown", was |-> status, answer |-> None]]
  /\ status' = "waiting"
  /\ UNCHANGED <<stopped, queue, mode, turn, opening, told, helper, compacting, files, outside, sent>>

Decide(answer) ==
  /\ status = "waiting" /\ pending # None /\ ~Closing
  /\ call' = [call EXCEPT ![pending].answer = answer]
  /\ UNCHANGED <<control, mode, asking, pending, turn, opening, told, helper, compacting, files, outside, sent>>

\* Mutant: the wait for an answer goes on after a stop
WakeAnswered(c) ==
  /\ asking = c /\ call[c].answer # None
  /\ asking' = None /\ pending' = None /\ status' = call[c].was
  /\ mode' = IF call[c].answer = "allow_all" THEN "edits" ELSE mode
  /\ call' = [call EXCEPT ![c] = [NoCall EXCEPT !.at = IF call[c].answer \in {"allow", "allow_all"} THEN "go" ELSE "done"]]
  /\ UNCHANGED <<stopped, queue, turn, opening, told, helper, compacting, files, outside, sent>>

\* answered, or stopped and so refused; the status before the question is put back
Wake(c) ==
  /\ asking = c /\ (call[c].answer # None \/ stopped)
  /\ asking' = None /\ pending' = None /\ status' = call[c].was
  /\ mode' = IF call[c].answer = "allow_all" THEN "edits" ELSE mode
  /\ call' = [call EXCEPT ![c] = [NoCall EXCEPT !.at = IF call[c].answer \in {"allow", "allow_all"} THEN "go" ELSE "done"]]
  /\ UNCHANGED <<stopped, queue, turn, opening, told, helper, compacting, files, outside, sent>>

FinishCall(c) ==
  /\ call[c].at = "go" /\ Moves(c, "done")
  /\ UNCHANGED <<control, mode, asking, pending, turn, opening, told, helper, compacting, files, outside, sent>>

HelperEnds ==
  /\ helper = "on" /\ \A c \in HelperCall : call[c].at = "done"
  /\ helper' = "ended"
  /\ UNCHANGED <<control, approval, turn, opening, told, compacting, files, outside, sent>>

-----------------------------------------------------------------------------
(* Saving. *)

\* what follows a save
AfterSave(w) ==
  /\ turn' = [t \in Thread |-> IF t # w THEN turn[t]
                               ELSE CASE turn[t] = "mid" -> "top" [] turn[t] = "end" -> "settle"
                                      [] OTHER -> "off"]
  /\ tick' = IF w = "tick" THEN [at |-> "off", message |-> None] ELSE tick
  /\ compacting' = IF w = "compact" THEN "no" ELSE compacting
  /\ command' = IF w = "command" THEN "send" ELSE command

AtSave(w) ==
  \/ w \in Thread /\ turn[w] \in {"mid", "end", "tail"}
  \/ w = "tick" /\ tick.at = "save" /\ tick.message \notin opening
  \/ w = "compact" /\ compacting = "save"
  \/ w = "command" /\ command = "save"

\* nothing is saved of a session that is being closed
Gather(w) ==
  /\ AtSave(w) /\ saving[w] = None
  /\ IF Closing THEN AfterSave(w) /\ UNCHANGED saving
     ELSE saving' = [saving EXCEPT ![w] = told] /\ UNCHANGED <<turn, tick, compacting, command>>
  /\ UNCHANGED <<control, approval, opening, told, helper, disk, overtaken, unsaved, deleting, left, sent>>

\* the file is replaced as a whole, under _save_lock
Write(w) ==
  /\ saving[w] # None
  /\ overtaken' = (overtaken \/ (disk # Gone /\ ~(disk \subseteq saving[w])))
  /\ disk' = saving[w] /\ saving' = [saving EXCEPT ![w] = None]
  /\ unsaved' = unsaved \ saving[w]
  /\ AfterSave(w)
  /\ UNCHANGED <<control, approval, opening, told, helper, deleting, left, sent>>

\* save() logs an error of the disk or of the encoding and goes on as if it had saved
WriteFails(w) ==
  /\ saving[w] # None /\ Used("fault")
  /\ saving' = [saving EXCEPT ![w] = None] /\ unsaved' = unsaved \cup saving[w]
  /\ AfterSave(w)
  /\ UNCHANGED <<control, approval, opening, told, helper, disk, overtaken, deleting, sent>>

Save(w) == Gather(w) \/ Write(w) \/ WriteFails(w)

-----------------------------------------------------------------------------
(* Stopping, compacting and deleting. *)

\* the helper is stopped for good: what it has not begun it will not begin
StopNow ==
  /\ stopped' = TRUE /\ queue' = <<>>
  /\ call' = [c \in Calls |-> IF c \in HelperCall /\ call[c].at = "new"
                             THEN [call[c] EXCEPT !.at = "done"] ELSE call[c]]
  /\ UNCHANGED <<status, mode, asking, pending>>

Stop ==
  /\ ~Closing /\ Used("stop") /\ StopNow
  /\ UNCHANGED <<turn, opening, told, helper, compacting, files, tick, command, deleting, sent>>

Compact ==
  /\ ~Closing /\ status = "idle" /\ Used("compact")
  /\ status' = "running" /\ compacting' = "on"
  /\ UNCHANGED <<stopped, queue, approval, turn, opening, told, helper, files, tick, command, deleting, sent>>

Compacted ==
  /\ compacting = "on"
  /\ status' = "idle" /\ compacting' = "save"
  /\ UNCHANGED <<stopped, queue, approval, turn, opening, told, helper, files, outside, sent>>

\* the session is taken out of the manager and closed
Delete ==
  /\ deleting.at = "no" /\ Used("delete")
  /\ deleting' = [deleting EXCEPT !.at = "closing"]
  /\ UNCHANGED <<control, approval, turn, opening, told, helper, compacting, files, tick, command, sent>>

CloseStops ==
  /\ deleting.at = "closing" /\ StopNow
  /\ deleting' = [at |-> "joining", joined |-> {t \in Thread : turn[t] # "off"}]
  /\ UNCHANGED <<turn, opening, told, helper, compacting, files, tick, command, left, sent>>

\* Mutant: the turn's thread is not waited for
UnlinkAtOnce ==
  /\ deleting.at = "joining"
  /\ disk' = Gone /\ deleting' = [deleting EXCEPT !.at = "done"]
  /\ UNCHANGED <<control, approval, turn, opening, told, helper, compacting, saving, overtaken, unsaved, tick, command, left, sent>>

\* the join ends with the threads or after 30 s, which is longer than a save takes
Unlink ==
  /\ deleting.at = "joining" /\ \A t \in deleting.joined : saving[t] = None
  /\ disk' = Gone /\ deleting' = [deleting EXCEPT !.at = "done"]
  /\ UNCHANGED <<control, approval, turn, opening, told, helper, compacting, saving, overtaken, unsaved, tick, command, left, sent>>

-----------------------------------------------------------------------------
TurnStep(t) ==
  \/ Top(t) \/ Model(t) \/ Recorded(t) \/ More(t) \/ Over(t) \/ Settle(t)
  \/ Save(t)
  \/ \E u \in Thread : Renew(t, u)

CallStep(c) == StartCall(c) \/ RunFreely(c) \/ Ask(c) \/ Wake(c) \/ FinishCall(c)

User ==
  \/ Send \/ Stop \/ Compact \/ Delete
  \/ \E answer \in {"allow", "allow_all", "deny"} : Decide(answer)

Next ==
  \/ User
  \/ \E m \in Message, t \in Thread : Begin(m, t)
  \/ TickDue \/ TickSend \/ Save("tick")
  \/ Command \/ CommandSend \/ CommandDone \/ Save("command")
  \/ \E t \in Thread : TurnStep(t) \/ \E c \in Call : Spawn(t, c)
  \/ \E c \in Calls : CallStep(c)
  \/ HelperEnds
  \/ Compacted \/ Save("compact")
  \/ CloseStops \/ Unlink

\* threads are scheduled, the model and the tools answer or time out; the user need not do anything
Fairness ==
  /\ \A t \in Thread : WF_vars(TurnStep(t))
  /\ WF_vars(\E m \in Message, t \in Thread : Begin(m, t))
  /\ \A c \in Calls : WF_vars(CallStep(c))
  /\ WF_vars(HelperEnds)

Spec == Init /\ [][Next]_vars /\ Fairness

-----------------------------------------------------------------------------
TypeOK ==
  /\ status \in {"idle", "running", "waiting"} /\ stopped \in BOOLEAN
  /\ queue \in Seq(Message) /\ mode \in {"ask", "edits"}
  /\ asking \in Calls \cup {None} /\ pending = asking
  /\ call \in [Calls -> [at : {"none", "new", "checked", "shown", "go", "done"},
                         was : {None, "idle", "running"},
                         answer : {None, "allow", "allow_all", "deny"}]]
  /\ turn \in [Thread -> Pc] /\ opening \subseteq Message /\ told \subseteq Message
  /\ helper \in {"none", "on", "ended"} /\ compacting \in {"no", "on", "save"}
  /\ saving \in [Writer -> (SUBSET Message) \cup {None}]
  /\ disk \in (SUBSET Message) \cup {Gone}
  /\ tick \in [at : {"off", "due", "save"}, message : Message \cup {None}]
  /\ deleting \in [at : {"no", "closing", "joining", "done"}, joined : SUBSET Thread]
  /\ command \in {"no", "save", "send"} /\ unsaved \subseteq Message
  /\ overtaken \in BOOLEAN /\ sent \in 0..MaxMessages /\ left \in [Ops -> Nat]

\* There is one turn at a time: a thread runs it, or is about to, or the conversation
\* is being compacted, whatever was sent, asked, stopped or answered in between.
OneTurn == Cardinality(Working) + Cardinality(opening) + (IF compacting = "on" THEN 1 ELSE 0) <= 1

\* While the session waits for the user, a card is shown that the wait is for,
\* and its call is the only one that is asked about.
WaitHasCard ==
  /\ status = "waiting" => pending # None
  /\ \A c \in Calls : call[c].at = "shown" <=> asking = c

\* The session is well formed, with one turn and one card at a time.
TurnOK == TypeOK /\ OneTurn /\ WaitHasCard

\* Whoever sees the session idle finds the whole conversation on disk, but for what a save
\* failed to write and none has written since, and unless a save that had begun earlier was
\* written over it (session.py:961-975, 4118).
IdleIsSaved ==
  status = "idle" /\ ~Closing /\ ~overtaken => told \subseteq disk \cup unsaved

\* The comment of session.py:4118 says it without the failed saves.  It fails: save() logs
\* the error, and the session goes idle all the same.
IdleIsOnDisk == status = "idle" /\ ~Closing /\ ~overtaken => told \subseteq disk

\* A deleted session does not come back, except by a save of the scheduler, of a compaction
\* or of a command that had begun: their threads are not waited for, that of a turn is.
DeletedStaysDeleted ==
  [][deleting.at = "done" /\ disk = Gone /\ disk' # Gone
       => \E w \in {"tick", "compact", "command"} : saving[w] # None /\ disk' = saving[w]]_vars

\* A stop ends the turn: no thread works on, until a new turn is started.
StopEnds == stopped ~> (Working = {} \/ ~stopped)

\* A message that a running turn was to pick up is told to the model,
\* unless the user stops the turn or leaves a question unanswered.
QueuedIsTold ==
  queue # <<>> /\ Working # {} ~> queue = <<>> \/ stopped \/ pending # None

\* A session that is not idle has someone who will end what it is busy with.
NotWedged ==
  status # "idle" => Working # {} \/ opening # {} \/ compacting = "on" \/ asking # None
=============================================================================
