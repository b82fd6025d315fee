-------------------------- MODULE AgentTurnProofs --------------------------
(***************************************************************************)
(* Proofs about AgentTurn: for any threads, calls, budgets and number of   *)
(* messages there is one turn and one card at a time, an idle session is   *)
(* saved, and no turn brings a deleted session back.                       *)
(***************************************************************************)
EXTENDS AgentTurn, FiniteSetTheorems, TLAPS

-----------------------------------------------------------------------------
(* The inductive invariant. *)

Busy == Working # {} \/ opening # {} \/ compacting = "on"

\* TurnOK says this with cardinalities.
OneAtATime ==
  /\ \A t, u \in Working : t = u
  /\ \A m, n \in opening : m = n
  /\ Working # {} => opening = {} /\ compacting # "on"
  /\ opening # {} => compacting # "on"

\* What a question puts back when it is answered is the status of a session that did not wait.
ShownAsks == \A c \in Calls : call[c].at = "shown" => call[c].was \in {"idle", "running"}

IdleIsQuiet == status = "idle" => ~Busy

\* A question that came up in an idle session keeps it from starting anything.
AskedIdle ==
  \A c \in Calls : call[c].at = "shown" /\ call[c].was = "idle" => ~Busy /\ status = "waiting"

\* Calls belong to the turn that made them, and to the helper that works.
CallsOfTurn == \A c \in Call : call[c].at # "none" => \E t \in Thread : turn[t] = "calls"
CallsOfHelper == helper # "on" => \A c \in HelperCall : call[c].at \in {"none", "done"}

\* What a turn saves at its end is what it was told: nobody else tells it anything meanwhile.
SavesInPlace == \A t \in Thread : saving[t] # None => turn[t] \in {"mid", "end", "tail"}
LastSave == \A t \in Thread : turn[t] = "end" /\ saving[t] # None => saving[t] = told
Saved == ~Closing /\ ~overtaken => told \subseteq disk \cup unsaved \/ \E t \in Working : turn[t] # "settle"
NotGone == ~Closing => disk # Gone

\* A turn that saves while the session is closed had begun to before, and is waited for.
Joined ==
  \A t \in Thread : saving[t] # None =>
    (deleting.at = "joining" => t \in deleting.joined) /\ deleting.at # "done"

Asked == WaitHasCard /\ ShownAsks
Turns == IdleIsQuiet /\ AskedIdle /\ OneAtATime
Owned == CallsOfTurn /\ CallsOfHelper
Stored == SavesInPlace /\ LastSave /\ Saved /\ NotGone /\ Joined

TurnInv == TypeOK /\ Asked /\ Turns /\ Owned /\ Stored
-----------------------------------------------------------------------------
(* Types. *)

CallRow == [at : {"none", "new", "checked", "shown", "go", "done"},
            was : {None, "idle", "running"},
            answer : {None, "allow", "allow_all", "deny"}]

LEMMA NoCallTyped == NoCall \in CallRow
BY DEF NoCall, CallRow

LEMMA MessagesTyped == ASSUME AgentAssumption PROVE Message \subseteq Nat \ {0} /\ MaxMessages \in Nat
BY DEF AgentAssumption, Message

LEMMA UsedTyped ==
  ASSUME TypeOK, NEW op \in Ops, Used(op)
  PROVE  left' \in [Ops -> Nat]
BY DEF TypeOK, Used

LEMMA NextMessage ==
  ASSUME AgentAssumption, TypeOK, sent < MaxMessages
  PROVE  sent + 1 \in Message /\ sent + 1 \in 0..MaxMessages
BY DEF AgentAssumption, TypeOK, Message

LEMMA AcceptedTyped ==
  ASSUME TypeOK, NEW m \in Message, Accepted(m)
  PROVE  /\ status' \in {"idle", "running", "waiting"} /\ stopped' \in BOOLEAN
         /\ queue' \in Seq(Message) /\ opening' \subseteq Message
<1>1. /\ status \in {"idle", "running", "waiting"} /\ stopped \in BOOLEAN
      /\ queue \in Seq(Message) /\ opening \subseteq Message
  BY DEF TypeOK
<1>2. Append(queue, m) \in Seq(Message) /\ opening \cup {m} \subseteq Message
  BY <1>1
<1>3. QED
  BY <1>1, <1>2 DEF Accepted

LEMMA GoesTyped ==
  ASSUME TypeOK, NEW t \in Thread, NEW pc \in Pc, Goes(t, pc)
  PROVE  turn' \in [Thread -> Pc]
BY DEF TypeOK, Goes

LEMMA AfterSaveTyped ==
  ASSUME TypeOK, NEW w \in Writer, AfterSave(w)
  PROVE  /\ turn' \in [Thread -> Pc]
         /\ tick' \in [at : {"off", "due", "save"}, message : Message \cup {None}]
         /\ compacting' \in {"no", "on", "save"}
         /\ command' \in {"no", "save", "send"}
BY DEF TypeOK, AfterSave, Pc, InTurn

\* A step that leaves the session's data alone is typed by the variables it moves.
LEMMA StopTyped ==
  ASSUME TypeOK, StopNow
  PROVE  /\ stopped' \in BOOLEAN /\ queue' \in Seq(Message)
         /\ call' \in [Calls -> CallRow]
         /\ status' = status /\ mode' = mode /\ asking' = asking /\ pending' = pending
<1>1. call \in [Calls -> CallRow]
  BY DEF TypeOK, CallRow
<1>2. \A c \in Calls : [call[c] EXCEPT !.at = "done"] \in CallRow
  BY <1>1 DEF CallRow
<1>3. QED
  BY <1>1, <1>2 DEF StopNow

LEMMA DrainTyped ==
  ASSUME TypeOK
  PROVE  ToSet(queue) \subseteq Message /\ <<>> \in Seq(Message)
BY DEF TypeOK, ToSet

LEMMA TypeNext ==
  ASSUME AgentAssumption, TypeOK, Asked, [Next]_vars
  PROVE  TypeOK'
<1> USE DEF control, approval, files, outside
<1>0. /\ status \in {"idle", "running", "waiting"} /\ asking \in Calls \cup {None}
      /\ None \notin Calls /\ call \in [Calls -> CallRow] /\ turn \in [Thread -> Pc]
      /\ left \in [Ops -> Nat]
      /\ deleting \in [at : {"no", "closing", "joining", "done"}, joined : SUBSET Thread]
  BY DEF AgentAssumption, TypeOK, CallRow, Calls
<1>1. ASSUME Send PROVE TypeOK'
  <2>1. sent + 1 \in Message /\ sent + 1 \in 0..MaxMessages
    BY <1>1, NextMessage DEF Send
  <2>2. left' \in [Ops -> Nat]
    BY <1>1, UsedTyped DEF Send, Ops
  <2>3. /\ status' \in {"idle", "running", "waiting"} /\ stopped' \in BOOLEAN
        /\ queue' \in Seq(Message) /\ opening' \subseteq Message
    BY <1>1, <2>1, AcceptedTyped DEF Send
  <2>4. QED
    BY <1>1, <2>1, <2>2, <2>3 DEF Send, TypeOK
<1>2. ASSUME NEW m \in Message, NEW t \in Thread, Begin(m, t) PROVE TypeOK'
  BY <1>2 DEF Begin, TypeOK, Pc, InTurn
<1>3. CASE TickDue
  <2>1. left' \in [Ops -> Nat]
    BY <1>3, UsedTyped DEF TickDue, Ops
  <2>2. QED
    <3>1. tick' \in [at : {"off", "due", "save"}, message : Message \cup {None}]
      BY <1>3 DEF TickDue, TypeOK
    <3>2. UNCHANGED <<control, approval, turn, opening, told, helper, compacting, files, command, deleting, sent>>
      BY <1>3 DEF TickDue
    <3>3. QED
      BY <2>1, <3>1, <3>2 DEF TypeOK
<1>4. CASE TickSend
  BY <1>4, NextMessage, AcceptedTyped DEF TickSend, TypeOK
<1>5. ASSUME NEW t \in Thread, Top(t) PROVE TypeOK'
  <2>1. turn' \in [Thread -> Pc]
    BY <1>5, GoesTyped DEF Top, Pc, InTurn
  <2>2. queue' \in Seq(Message) /\ told' \subseteq Message
    BY <1>5, DrainTyped DEF Top, TypeOK
  <2>3. QED
    BY <1>5, <2>1, <2>2 DEF Top, TypeOK
<1>6. ASSUME NEW t \in Thread, Model(t) PROVE TypeOK'
  <2>1. call' \in [Calls -> CallRow]
    BY <1>0, <1>6, NoCallTyped DEF Model, NoCall, CallRow
  <2>2. left' \in [Ops -> Nat]
    BY <1>0, <1>6, UsedTyped DEF Model, Ops
  <2>3. turn' \in [Thread -> Pc]
    BY <1>0, <1>6 DEF Model, Goes, Pc, InTurn
  <2>4. QED
    BY <1>6, <2>1, <2>2, <2>3 DEF Model, TypeOK, CallRow
<1>7. ASSUME NEW t \in Thread, NEW c \in Call, Spawn(t, c) PROVE TypeOK'
  <2>1. call' \in [Calls -> CallRow]
    <3>1. [NoCall EXCEPT !.at = "new"] \in CallRow
      BY DEF NoCall, CallRow
    <3>2. \A d \in Calls : [call[d] EXCEPT !.at = "done"] \in CallRow
      BY <1>0 DEF CallRow
    <3>3. QED
      BY <1>0, <1>7, <3>1, <3>2 DEF Spawn
  <2>2. left' \in [Ops -> Nat]
    BY <1>0, <1>7, UsedTyped DEF Spawn, Ops
  <2>3. QED
    <3>1. /\ UNCHANGED <<control, mode, asking, pending, turn, opening, told, compacting, files>>
          /\ UNCHANGED <<tick, command, deleting, sent>> /\ helper' = "on"
      BY <1>7 DEF Spawn
    <3>2. QED
      BY <2>1, <2>2, <3>1 DEF TypeOK, CallRow
<1>8. ASSUME NEW t \in Thread, Recorded(t) PROVE TypeOK'
  <2>1. call' \in [Calls -> CallRow]
    BY <1>0, <1>8, NoCallTyped DEF Recorded
  <2>2. turn' \in [Thread -> Pc]
    BY <1>0, <1>8 DEF Recorded, Goes, Pc, InTurn
  <2>3. QED
    BY <1>8, <2>1, <2>2 DEF Recorded, TypeOK, CallRow
<1>9. ASSUME NEW t \in Thread, More(t) \/ Over(t) PROVE TypeOK'
  <2>1. turn' \in [Thread -> Pc]
    BY <1>9, GoesTyped DEF More, Over, Pc, InTurn
  <2>2. QED
    BY <1>9, <2>1 DEF More, Over, TypeOK
<1>10. ASSUME NEW t \in Thread, Settle(t) PROVE TypeOK'
  <2>1. turn' \in [Thread -> Pc]
    BY <1>10, GoesTyped DEF Settle, Pc, InTurn
  <2>2. QED
    BY <1>10, <2>1 DEF Settle, TypeOK
<1>11. ASSUME NEW t \in Thread, NEW u \in Thread, Renew(t, u) PROVE TypeOK'
  <2>1. turn' \in [Thread -> Pc]
    BY <1>0, <1>11 DEF Renew, Pc, InTurn
  <2>2. QED
    <3>1. UNCHANGED <<control, approval, opening, told, helper, compacting, files, outside, sent>>
      BY <1>11 DEF Renew
    <3>2. QED
      BY <2>1, <3>1 DEF TypeOK
<1>12. ASSUME NEW c \in Calls, CallStep(c) PROVE TypeOK'
  <2> DEFINE Step(at) == [call EXCEPT ![c].at = at] \in [Calls -> CallRow]
  <2>1. /\ Step("done") /\ Step("checked") /\ Step("go")
        /\ [NoCall EXCEPT !.at = "go"] \in CallRow /\ [NoCall EXCEPT !.at = "done"] \in CallRow
    BY <1>0 DEF CallRow, NoCall
  <2>2. ASSUME StartCall(c) \/ RunFreely(c) \/ FinishCall(c) PROVE TypeOK'
    <3>1. call' \in [Calls -> CallRow]
      BY <2>1, <2>2 DEF StartCall, RunFreely, FinishCall, Moves
    <3>2. QED
      BY <2>2, <3>1 DEF StartCall, RunFreely, FinishCall, Moves, TypeOK, CallRow
  <2>3. CASE Ask(c)
    <3>1. status \in {"idle", "running"}
      BY <1>0, <2>3 DEF Ask, Asked, WaitHasCard, TypeOK
    <3>2. [at |-> "shown", was |-> status, answer |-> None] \in CallRow
      BY <3>1 DEF CallRow
    <3>3. call' \in [Calls -> CallRow]
      BY <1>0, <2>3, <3>2 DEF Ask
    <3>4. QED
      BY <2>3, <3>3 DEF Ask, TypeOK, CallRow
  <2>4. CASE Wake(c)
    <3>1. call[c].was \in {"idle", "running"}
      BY <2>4 DEF Wake, Asked, WaitHasCard, ShownAsks
    <3>2. call' \in [Calls -> CallRow]
      BY <1>0, <2>1, <2>4 DEF Wake
    <3>3. QED
      BY <2>4, <3>1, <3>2 DEF Wake, TypeOK, CallRow
  <2>5. QED
    BY <1>12, <2>2, <2>3, <2>4 DEF CallStep
<1>13. ASSUME NEW answer \in {"allow", "allow_all", "deny"}, Decide(answer) PROVE TypeOK'
  <2>1. pending \in Calls /\ [call[pending] EXCEPT !.answer = answer] \in CallRow
    <3>1. pending \in Calls
      BY <1>0, <1>13 DEF Decide, TypeOK
    <3>2. \A c \in Calls : [call[c] EXCEPT !.answer = answer] \in CallRow
      BY <1>0 DEF CallRow
    <3>3. QED
      BY <3>1, <3>2
  <2>2. call' \in [Calls -> CallRow]
    <3> HIDE DEF CallRow
    <3>1. PICK row \in CallRow : row = [call[pending] EXCEPT !.answer = answer]
      BY <2>1
    <3>2. call' = [call EXCEPT ![pending] = row]
      BY <1>13, <3>1 DEF Decide
    <3>3. QED
      BY <1>0, <2>1, <3>2
  <2>3. QED
    BY <1>13, <2>2 DEF Decide, TypeOK, CallRow
<1>14. CASE HelperEnds
  BY <1>14 DEF HelperEnds, TypeOK
<1>15. ASSUME NEW w \in Writer, Gather(w) PROVE TypeOK'
  <2>1. CASE Closing
    BY <1>15, <2>1, AfterSaveTyped DEF Gather, TypeOK
  <2>2. CASE ~Closing
    <3>1. saving' \in [Writer -> (SUBSET Message) \cup {None}]
      BY <1>15, <2>2 DEF Gather, TypeOK
    <3>2. /\ UNCHANGED <<control, approval, opening, told, helper, disk, overtaken, unsaved, deleting, left, sent>>
          /\ UNCHANGED <<turn, tick, compacting, command>>
      BY <1>15, <2>2 DEF Gather
    <3>3. QED
      BY <3>1, <3>2 DEF TypeOK
  <2>3. QED
    BY <2>1, <2>2
<1>16. ASSUME NEW w \in Writer, Write(w) PROVE TypeOK'
  <2>1. saving[w] \in SUBSET Message
    BY <1>16 DEF Write, TypeOK
  <2>2. saving' \in [Writer -> (SUBSET Message) \cup {None}]
    BY <1>16 DEF Write, TypeOK
  <2>3. QED
    BY <1>16, <2>1, <2>2, AfterSaveTyped DEF Write, TypeOK
<1>f. ASSUME NEW w \in Writer, WriteFails(w) PROVE TypeOK'
  <2>1. saving[w] \in SUBSET Message
    BY <1>f DEF WriteFails, TypeOK
  <2>2. saving' \in [Writer -> (SUBSET Message) \cup {None}] /\ unsaved' \subseteq Message
    BY <1>f, <2>1 DEF WriteFails, TypeOK
  <2>3. left' \in [Ops -> Nat]
    BY <1>f, UsedTyped DEF WriteFails, Ops
  <2>4. UNCHANGED <<control, approval, opening, told, helper, disk, overtaken, deleting, sent>>
    BY <1>f DEF WriteFails
  <2>5. /\ turn' \in [Thread -> Pc]
        /\ tick' \in [at : {"off", "due", "save"}, message : Message \cup {None}]
        /\ compacting' \in {"no", "on", "save"}
        /\ command' \in {"no", "save", "send"}
    BY <1>f, AfterSaveTyped DEF WriteFails
  <2>6. QED
    BY <2>2, <2>3, <2>4, <2>5 DEF TypeOK
<1>c. ASSUME Command \/ CommandDone PROVE TypeOK'
  <2>1. left' \in [Ops -> Nat]
    BY <1>0, <1>c, UsedTyped DEF Command, CommandDone, Ops
  <2>2. /\ command' \in {"no", "save", "send"}
        /\ UNCHANGED <<control, approval, turn, opening, told, helper, compacting, files, tick, deleting, sent>>
    BY <1>c DEF Command, CommandDone
  <2>3. QED
    BY <2>1, <2>2 DEF TypeOK
<1>s. CASE CommandSend
  <2>1. sent + 1 \in Message /\ sent + 1 \in 0..MaxMessages
    BY <1>s, NextMessage DEF CommandSend
  <2>2. /\ status' \in {"idle", "running", "waiting"} /\ stopped' \in BOOLEAN
        /\ queue' \in Seq(Message) /\ opening' \subseteq Message
    BY <1>s, <2>1, AcceptedTyped DEF CommandSend
  <2>3. QED
    BY <1>s, <2>1, <2>2 DEF CommandSend, TypeOK
<1>17. CASE Stop
  <2>1. left' \in [Ops -> Nat]
    BY <1>17, UsedTyped DEF Stop, Ops
  <2>2. QED
    BY <1>17, <2>1, StopTyped DEF Stop, TypeOK, CallRow
<1>18. CASE Compact
  <2>1. left' \in [Ops -> Nat]
    BY <1>18, UsedTyped DEF Compact, Ops
  <2>2. QED
    BY <1>18, <2>1 DEF Compact, TypeOK
<1>19. CASE Compacted
  BY <1>19 DEF Compacted, TypeOK
<1>20. CASE Delete
  <2>1. deleting' \in [at : {"no", "closing", "joining", "done"}, joined : SUBSET Thread]
    BY <1>0, <1>20 DEF Delete
  <2>2. QED
    <3>1. left' \in [Ops -> Nat]
      BY <1>20, UsedTyped DEF Delete, Ops
    <3>2. QED
      <4>1. UNCHANGED <<control, approval, turn, opening, told, helper, compacting, files, tick, command, sent>>
        BY <1>20 DEF Delete
      <4>2. QED
        BY <2>1, <3>1, <4>1 DEF TypeOK
<1>21. CASE CloseStops
  <2>1. deleting' \in [at : {"no", "closing", "joining", "done"}, joined : SUBSET Thread]
    BY <1>21 DEF CloseStops
  <2>2. QED
    BY <1>21, <2>1, StopTyped DEF CloseStops, TypeOK, CallRow
<1>22. CASE Unlink
  <2>1. deleting' \in [at : {"no", "closing", "joining", "done"}, joined : SUBSET Thread]
    BY <1>0, <1>22 DEF Unlink
  <2>2. QED
    BY <1>22, <2>1 DEF Unlink, TypeOK
<1>23. CASE UNCHANGED vars
  BY <1>23 DEF TypeOK, vars
<1>24. QED
  BY <1>1, <1>2, <1>3, <1>4, <1>5, <1>6, <1>7, <1>8, <1>9, <1>10, <1>11, <1>12, <1>13, <1>14,
     <1>15, <1>16, <1>f, <1>c, <1>s, <1>17, <1>18, <1>19, <1>20, <1>21, <1>22, <1>23
     DEF Next, User, TurnStep, Save, Writer
-----------------------------------------------------------------------------
(* Cards. *)

\* The card, and the calls that are asked about, are as before.
SameCards ==
  /\ asking' = asking /\ pending' = pending
  /\ \A c \in Calls : /\ call'[c].at = "shown" <=> call[c].at = "shown"
                      /\ call[c].at = "shown" => call'[c].was = call[c].was

CallMoves ==
  \/ \E t \in Thread : Model(t) \/ Recorded(t) \/ \E c \in Call : Spawn(t, c)
  \/ \E c \in Calls : CallStep(c)
  \/ \E answer \in {"allow", "allow_all", "deny"} : Decide(answer)
  \/ StopNow

LEMMA CardSteps ==
  ASSUME [Next]_vars
  PROVE  (UNCHANGED approval /\ status' \in {status, "running", "idle"}) \/ CallMoves
<1> USE DEF control
<1>1. ASSUME Send \/ TickSend \/ CommandSend
      PROVE  UNCHANGED approval /\ status' \in {status, "running", "idle"}
  BY <1>1 DEF Send, TickSend, CommandSend, Accepted
<1>2. ASSUME NEW t \in Thread, Settle(t)
      PROVE  UNCHANGED approval /\ status' \in {status, "running", "idle"}
  BY <1>2 DEF Settle
<1>3. ASSUME Compact \/ Compacted PROVE UNCHANGED approval /\ status' \in {status, "running", "idle"}
  BY <1>3 DEF Compact, Compacted
<1>4. ASSUME NEW t \in Thread,
             Top(t) \/ More(t) \/ Over(t) \/ (\E u \in Thread : Renew(t, u)) \/ (\E m \in Message : Begin(m, t))
      PROVE  UNCHANGED approval /\ status' = status
  BY <1>4 DEF Top, More, Over, Renew, Begin
<1>5. ASSUME NEW w \in Writer, Save(w) PROVE UNCHANGED approval /\ status' = status
  BY <1>5 DEF Save, Gather, Write, WriteFails
<1>6. ASSUME TickDue \/ HelperEnds \/ Delete \/ Unlink \/ Command \/ CommandDone
      PROVE  UNCHANGED approval /\ status' = status
  BY <1>6 DEF TickDue, HelperEnds, Delete, Unlink, Command, CommandDone
<1>7. ASSUME Stop \/ CloseStops PROVE CallMoves
  BY <1>7 DEF Stop, CloseStops, CallMoves
<1>8. ASSUME UNCHANGED vars PROVE UNCHANGED approval /\ status' = status
  BY <1>8 DEF vars
<1>9. QED
  BY <1>1, <1>2, <1>3, <1>4, <1>5, <1>6, <1>7, <1>8 DEF Next, User, TurnStep, Writer, CallMoves

\* While a turn asks the model, it has no calls.
LEMMA NoCallsElsewhere ==
  ASSUME Turns, CallsOfTurn, NEW t \in Thread, turn[t] \in InTurn, turn[t] # "calls"
  PROVE  \A c \in Call : call[c].at = "none"
BY DEF Turns, OneAtATime, CallsOfTurn, Working, InTurn

LEMMA CardsKept ==
  ASSUME AgentAssumption, TypeOK, Asked, Turns, Owned, [Next]_vars
  PROVE  SameCards \/ \E c \in Calls : Ask(c) \/ Wake(c)
<1>0. /\ call \in [Calls -> CallRow] /\ asking \in Calls \cup {None} /\ pending = asking
      /\ HelperCall \cap Call = {} /\ Calls = Call \cup HelperCall /\ None \notin Calls
  BY DEF TypeOK, CallRow, AgentAssumption, Calls
<1>1. CASE UNCHANGED approval
  BY <1>1 DEF approval, SameCards
<1>2. ASSUME NEW t \in Thread, Model(t) PROVE SameCards
  <2>1. \A c \in Call : call[c].at = "none"
    BY <1>2, NoCallsElsewhere DEF Model, Owned, InTurn
  <2>2. PICK batch \in SUBSET Call :
          call' = [c \in Calls |-> IF c \in batch THEN [NoCall EXCEPT !.at = "new"] ELSE call[c]]
    <3>1. CASE call' = call
      BY <1>0, <3>1
    <3>2. CASE call' # call
      BY <1>2, <3>2 DEF Model
    <3>3. QED
      BY <3>1, <3>2
  <2>3. \A c \in Calls : call[c].at = "shown" => call'[c] = call[c]
    BY <1>0, <2>1, <2>2
  <2>4. \A c \in Calls : call'[c].at = "shown" => call'[c] = call[c]
    BY <1>0, <2>2 DEF NoCall
  <2>5. asking' = asking /\ pending' = pending
    BY <1>2 DEF Model
  <2>6. QED
    BY <2>3, <2>4, <2>5 DEF SameCards
<1>3. ASSUME NEW t \in Thread, Recorded(t) PROVE SameCards
  <2>1. \A c \in Call : call'[c].at = "none" /\ call[c].at # "shown"
    BY <1>0, <1>3 DEF Recorded, NoCall
  <2>2. \A c \in HelperCall : call'[c] = call[c]
    BY <1>0, <1>3 DEF Recorded
  <2>3. asking' = asking /\ pending' = pending
    BY <1>3 DEF Recorded
  <2>4. QED
    BY <1>0, <2>1, <2>2, <2>3 DEF SameCards
<1>4. ASSUME NEW t \in Thread, NEW c \in Call, Spawn(t, c) PROVE SameCards
  <2>1. \A d \in HelperCall : call[d].at # "shown"
    BY <1>4 DEF Spawn, Owned, CallsOfHelper
  <2>2. \A d \in HelperCall : call'[d].at = "new"
    BY <1>0, <1>4 DEF Spawn, NoCall
  <2>3. \A d \in Call \ {c} : call'[d] = call[d]
    BY <1>0, <1>4 DEF Spawn
  <2>4. call[c].at = "go" /\ call'[c].at = "done"
    <3>1. call'[c] = [call[c] EXCEPT !.at = "done"]
      BY <1>0, <1>4 DEF Spawn
    <3>2. QED
      BY <1>0, <1>4, <3>1 DEF Spawn, CallRow
  <2>5. asking' = asking /\ pending' = pending
    BY <1>4 DEF Spawn
  <2>6. QED
    BY <1>0, <2>1, <2>2, <2>3, <2>4, <2>5 DEF SameCards
<1>5. ASSUME NEW c \in Calls, StartCall(c) \/ RunFreely(c) \/ FinishCall(c) PROVE SameCards
  <2>1. \A d \in Calls \ {c} : call'[d] = call[d]
    BY <1>0, <1>5 DEF StartCall, RunFreely, FinishCall, Moves
  <2>2. call[c].at # "shown" /\ call'[c].at # "shown"
    BY <1>0, <1>5 DEF StartCall, RunFreely, FinishCall, Moves, CallRow
  <2>3. asking' = asking /\ pending' = pending
    BY <1>5 DEF StartCall, RunFreely, FinishCall
  <2>4. QED
    BY <2>1, <2>2, <2>3 DEF SameCards
<1>6. ASSUME NEW answer \in {"allow", "allow_all", "deny"}, Decide(answer) PROVE SameCards
  <2>1. pending \in Calls
    BY <1>0, <1>6 DEF Decide
  <2>2. \A d \in Calls \ {pending} : call'[d] = call[d]
    BY <1>0, <1>6, <2>1 DEF Decide
  <2>3. call'[pending].at = call[pending].at /\ call'[pending].was = call[pending].was
    BY <1>0, <1>6, <2>1 DEF Decide, CallRow
  <2>4. asking' = asking /\ pending' = pending
    BY <1>6 DEF Decide
  <2>5. QED
    BY <2>1, <2>2, <2>3, <2>4 DEF SameCards
<1>7. CASE StopNow
  <2>1. \A c \in Calls : call'[c] = call[c] \/ (call[c].at = "new" /\ call'[c].at = "done")
    BY <1>0, <1>7 DEF StopNow, CallRow
  <2>2. asking' = asking /\ pending' = pending
    BY <1>7 DEF StopNow
  <2>3. QED
    BY <2>1, <2>2 DEF SameCards
<1>8. QED
  BY <1>1, <1>2, <1>3, <1>4, <1>5, <1>6, <1>7, CardSteps DEF CallMoves, CallStep

\* Only asking and answering change the card, so a wait has one.
LEMMA AskedNext ==
  ASSUME AgentAssumption, TypeOK, Asked, Turns, Owned, [Next]_vars
  PROVE  Asked'
<1>0. /\ call \in [Calls -> CallRow] /\ asking \in Calls \cup {None} /\ pending = asking
      /\ None \notin Calls /\ status \in {"idle", "running", "waiting"}
  BY DEF TypeOK, CallRow, AgentAssumption, Calls
<1>1. ASSUME NEW c \in Calls, Ask(c) PROVE Asked'
  <2>1. status \in {"idle", "running"}
    BY <1>0, <1>1 DEF Ask, Asked, WaitHasCard
  <2>2. \A d \in Calls : call[d].at # "shown"
    BY <1>0, <1>1 DEF Ask, Asked, WaitHasCard
  <2>3. /\ asking' = c /\ pending' = c /\ status' = "waiting"
        /\ call'[c].at = "shown" /\ call'[c].was = status
        /\ \A d \in Calls \ {c} : call'[d] = call[d]
    BY <1>0, <1>1 DEF Ask
  <2>4. QED
    BY <1>0, <2>1, <2>2, <2>3 DEF Asked, WaitHasCard, ShownAsks
<1>2. ASSUME NEW c \in Calls, Wake(c) PROVE Asked'
  <2>1. call[c].at = "shown" /\ call[c].was \in {"idle", "running"}
    BY <1>2 DEF Wake, Asked, WaitHasCard, ShownAsks
  <2>2. \A d \in Calls \ {c} : call[d].at # "shown"
    BY <1>2 DEF Wake, Asked, WaitHasCard
  <2>3. /\ asking' = None /\ pending' = None /\ status' = call[c].was
        /\ \A d \in Calls \ {c} : call'[d] = call[d]
    BY <1>0, <1>2 DEF Wake
  <2>4. call'[c].at # "shown"
    BY <1>0, <1>2 DEF Wake, NoCall
  <2>5. QED
    BY <1>0, <2>1, <2>2, <2>3, <2>4 DEF Asked, WaitHasCard, ShownAsks
<1>3. ASSUME SameCards, ~ \E c \in Calls : Ask(c) \/ Wake(c) PROVE Asked'
  <2>1. status' \in {status, "running", "idle"}
    <3>1. ASSUME NEW t \in Thread, Model(t) \/ Recorded(t) \/ \E c \in Call : Spawn(t, c)
          PROVE  status' = status
      BY <3>1 DEF Model, Recorded, Spawn, control
    <3>2. ASSUME NEW c \in Calls, StartCall(c) \/ RunFreely(c) \/ FinishCall(c)
          PROVE  status' = status
      BY <3>2 DEF StartCall, RunFreely, FinishCall, control
    <3>3. ASSUME NEW answer \in {"allow", "allow_all", "deny"}, Decide(answer) PROVE status' = status
      BY <3>3 DEF Decide, control
    <3>4. ASSUME StopNow PROVE status' = status
      BY <3>4 DEF StopNow
    <3>5. QED
      BY <1>3, <3>1, <3>2, <3>3, <3>4, CardSteps DEF CallMoves, CallStep
  <2>2. QED
    BY <1>3, <2>1 DEF Asked, WaitHasCard, ShownAsks, SameCards
<1>4. QED
  BY <1>1, <1>2, <1>3, CardsKept
-----------------------------------------------------------------------------
(* Turns. *)

\* Nobody begins to work, and the page is shown what it was.
SameWork ==
  /\ status' = status
  /\ Working' \subseteq Working /\ opening' \subseteq opening
  /\ compacting' = "on" => compacting = "on"

LEMMA WorkKept ==
  ASSUME Turns, SameWork, SameCards
  PROVE  Turns'
<1>1. Busy' => Busy
  BY DEF SameWork, Busy
<1>2. OneAtATime'
  BY DEF Turns, OneAtATime, SameWork
<1>3. IdleIsQuiet'
  BY <1>1 DEF Turns, IdleIsQuiet, SameWork
<1>4. AskedIdle'
  BY <1>1 DEF Turns, AskedIdle, SameWork, SameCards
<1>5. QED
  BY <1>2, <1>3, <1>4 DEF Turns

\* The steps that do begin or end something.
WorkMoves ==
  \/ Send \/ TickSend \/ CommandSend \/ Compact \/ Compacted
  \/ \E t \in Thread :
       Settle(t) \/ (\E u \in Thread : Renew(t, u)) \/ (\E m \in Message : Begin(m, t))
  \/ \E c \in Calls : Ask(c) \/ Wake(c)

LEMMA WorkSteps ==
  ASSUME TypeOK, [Next]_vars
  PROVE  SameWork \/ WorkMoves
<1> USE DEF control, InTurn
<1>0. turn \in [Thread -> Pc]
  BY DEF TypeOK
<1>1. ASSUME NEW t \in Thread, Top(t) \/ Model(t) \/ Recorded(t) \/ More(t) \/ Over(t) PROVE SameWork
  <2>1. /\ \E pc \in Pc : Goes(t, pc)
        /\ turn[t] \in InTurn
        /\ UNCHANGED <<status, opening, compacting>>
    BY <1>1 DEF Top, Model, Recorded, More, Over, Pc
  <2>2. Working' \subseteq Working
    BY <1>0, <2>1 DEF Working, Goes
  <2>3. QED
    BY <2>1, <2>2 DEF SameWork
<1>2. ASSUME NEW t \in Thread, NEW c \in Call, Spawn(t, c) PROVE SameWork
  BY <1>2 DEF Spawn, SameWork, Working
<1>3. ASSUME NEW c \in Calls, StartCall(c) \/ RunFreely(c) \/ FinishCall(c) PROVE SameWork
  BY <1>3 DEF StartCall, RunFreely, FinishCall, SameWork, Working
<1>4. ASSUME NEW answer \in {"allow", "allow_all", "deny"}, Decide(answer) PROVE SameWork
  BY <1>4 DEF Decide, SameWork, Working
<1>5. ASSUME Stop \/ CloseStops PROVE SameWork
  BY <1>5 DEF Stop, CloseStops, StopNow, SameWork, Working
<1>6. ASSUME TickDue \/ HelperEnds \/ Delete \/ Unlink \/ Command \/ CommandDone PROVE SameWork
  BY <1>6 DEF TickDue, HelperEnds, Delete, Unlink, Command, CommandDone, SameWork, Working
<1>7. ASSUME NEW w \in Writer, Save(w) PROVE SameWork
  <2>1. status' = status /\ opening' = opening
    BY <1>7 DEF Save, Gather, Write, WriteFails
  <2>2. AfterSave(w) \/ UNCHANGED <<turn, tick, compacting>>
    BY <1>7 DEF Save, Gather, Write, WriteFails
  <2>3. Working' \subseteq Working
    BY <1>0, <2>2 DEF Working, AfterSave
  <2>4. compacting' = "on" => compacting = "on"
    BY <2>2 DEF AfterSave
  <2>5. QED
    BY <2>1, <2>3, <2>4 DEF SameWork
<1>8. ASSUME UNCHANGED vars PROVE SameWork
  BY <1>8 DEF vars, SameWork, Working
<1>9. QED
  BY <1>1, <1>2, <1>3, <1>4, <1>5, <1>6, <1>7, <1>8
     DEF Next, User, TurnStep, CallStep, Writer, WorkMoves

\* What a message starts is all there is: an idle session had nothing under way.
LEMMA AcceptedAlone ==
  ASSUME TypeOK, Asked, Turns, NEW m \in Message, Accepted(m),
         UNCHANGED <<approval, turn, compacting>>
  PROVE  Turns'
<1> USE DEF approval
<1>1. Working' = Working
  BY DEF Working
<1>2. CASE status \in {"running", "waiting"}
  <2>1. SameWork /\ SameCards
    BY <1>1, <1>2 DEF Accepted, SameWork, SameCards
  <2>2. QED
    BY <2>1, WorkKept
<1>3. CASE status \notin {"running", "waiting"}
  <2>1. status = "idle"
    BY <1>3 DEF TypeOK
  <2>2. Working' = {} /\ opening' = {m} /\ compacting' # "on" /\ status' = "running"
    BY <1>1, <1>3, <2>1 DEF Accepted, Turns, IdleIsQuiet, Busy
  <2>3. \A c \in Calls : call[c].at = "shown" => call[c].was # "idle"
    BY <2>1 DEF Turns, AskedIdle
  <2>4. QED
    BY <2>2, <2>3 DEF Turns, OneAtATime, IdleIsQuiet, AskedIdle
<1>4. QED
  BY <1>2, <1>3

\* One turn after the other; a question that is answered finds the session as it left it.
LEMMA TurnsNext ==
  ASSUME AgentAssumption, TypeOK, Asked, Turns, Owned, [Next]_vars
  PROVE  Turns'
<1> USE DEF control
<1>0. /\ turn \in [Thread -> Pc] /\ call \in [Calls -> CallRow]
      /\ status \in {"idle", "running", "waiting"}
      /\ asking \in Calls \cup {None} /\ pending = asking /\ None \notin Calls
  BY DEF TypeOK, CallRow, AgentAssumption, Calls
<1>1. ASSUME SameWork, ~WorkMoves PROVE Turns'
  BY <1>1, CardsKept, WorkKept DEF WorkMoves
<1>2. CASE Send
  <2>1. sent + 1 \in Message
    BY <1>2, NextMessage DEF Send
  <2>2. Accepted(sent + 1) /\ UNCHANGED <<approval, turn, compacting>>
    BY <1>2 DEF Send
  <2>3. QED
    BY <2>1, <2>2, AcceptedAlone
<1>3. CASE TickSend \/ CommandSend
  <2>1. sent + 1 \in Message
    BY <1>3, NextMessage DEF TickSend, CommandSend
  <2>2. Accepted(sent + 1) /\ UNCHANGED <<approval, turn, compacting>>
    BY <1>3 DEF TickSend, CommandSend
  <2>3. QED
    BY <2>1, <2>2, AcceptedAlone
<1>4. CASE Compact
  <2>1. /\ Working' = {} /\ opening' = {} /\ compacting' = "on" /\ status' = "running"
        /\ call' = call
    BY <1>4 DEF Compact, approval, Turns, IdleIsQuiet, Busy, Working
  <2>2. \A c \in Calls : call[c].at = "shown" => call[c].was # "idle"
    BY <1>4 DEF Compact, Turns, AskedIdle
  <2>3. QED
    BY <2>1, <2>2 DEF Turns, OneAtATime, IdleIsQuiet, AskedIdle
<1>5. CASE Compacted
  <2>1. Working = {} /\ opening = {}
    BY <1>5 DEF Compacted, Turns, OneAtATime
  <2>2. ~Busy' /\ call' = call /\ status' = "idle"
    BY <1>5, <2>1 DEF Compacted, approval, Busy, Working
  <2>3. \A c \in Calls : call[c].at = "shown" => call[c].was # "idle"
    BY <1>5 DEF Compacted, Turns, AskedIdle, Busy
  <2>4. QED
    BY <2>2, <2>3 DEF Turns, OneAtATime, IdleIsQuiet, AskedIdle, Busy
<1>6. ASSUME NEW t \in Thread, Settle(t) PROVE Turns'
  <2>1. t \in Working /\ Working = {t} /\ opening = {} /\ compacting # "on"
    BY <1>6 DEF Settle, Turns, OneAtATime, Working, InTurn
  <2>2. \A c \in Calls : call[c].at = "shown" => call[c].was # "idle"
    BY <2>1 DEF Turns, AskedIdle, Busy
  <2>3. call' = call /\ opening' = {} /\ compacting' # "on"
    BY <1>6, <2>1 DEF Settle, approval
  <2>4. CASE Again
    <3>1. Working' = Working /\ status' = status
      BY <1>0, <1>6, <2>4 DEF Settle, Goes, Working, InTurn
    <3>2. QED
      BY <2>1, <2>2, <2>3, <3>1 DEF Turns, OneAtATime, IdleIsQuiet, AskedIdle, Busy
  <2>5. CASE ~Again
    <3>1. Working' = {} /\ status' = "idle"
      BY <1>0, <1>6, <2>1, <2>5 DEF Settle, Goes, Working, InTurn
    <3>2. QED
      BY <2>1, <2>2, <2>3, <3>1 DEF Turns, OneAtATime, IdleIsQuiet, AskedIdle, Busy
  <2>6. QED
    BY <2>4, <2>5
<1>7. ASSUME NEW t \in Thread, NEW u \in Thread, Renew(t, u) PROVE Turns'
  <2>1. t \in Working /\ Working = {t} /\ opening = {} /\ compacting # "on"
    BY <1>7 DEF Renew, Turns, OneAtATime, Working, InTurn
  <2>2. status # "idle" /\ \A c \in Calls : call[c].at = "shown" => call[c].was # "idle"
    BY <2>1 DEF Turns, IdleIsQuiet, AskedIdle, Busy
  <2>3. call' = call /\ opening' = {} /\ compacting' # "on" /\ status' = status
    BY <1>7, <2>1 DEF Renew, approval
  <2>4. Working' = {u}
    BY <1>0, <1>7, <2>1 DEF Renew, Working, InTurn
  <2>5. QED
    BY <2>2, <2>3, <2>4 DEF Turns, OneAtATime, IdleIsQuiet, AskedIdle
<1>8. ASSUME NEW m \in Message, NEW t \in Thread, Begin(m, t) PROVE Turns'
  <2>1. Working = {} /\ opening = {m} /\ compacting # "on"
    BY <1>8 DEF Begin, Turns, OneAtATime
  <2>2. status # "idle" /\ \A c \in Calls : call[c].at = "shown" => call[c].was # "idle"
    BY <2>1 DEF Turns, IdleIsQuiet, AskedIdle, Busy
  <2>3. call' = call /\ opening' = {} /\ compacting' # "on" /\ status' = status
    BY <1>8, <2>1 DEF Begin, approval
  <2>4. Working' = {t}
    BY <1>0, <1>8, <2>1 DEF Begin, Working, InTurn
  <2>5. QED
    BY <2>2, <2>3, <2>4 DEF Turns, OneAtATime, IdleIsQuiet, AskedIdle
<1>9. ASSUME NEW c \in Calls, Ask(c) PROVE Turns'
  <2>1. /\ status' = "waiting" /\ call'[c].was = status
        /\ Busy' <=> Busy
        /\ OneAtATime' <=> OneAtATime
    BY <1>0, <1>9 DEF Ask, Busy, OneAtATime, Working
  <2>2. \A d \in Calls \ {c} : call'[d].at # "shown"
    BY <1>0, <1>9 DEF Ask, Asked, WaitHasCard
  <2>3. QED
    BY <2>1, <2>2 DEF Turns, IdleIsQuiet, AskedIdle
<1>10. ASSUME NEW c \in Calls, Wake(c) PROVE Turns'
  <2>1. /\ status' = call[c].was /\ call[c].at = "shown"
        /\ Busy' <=> Busy
        /\ OneAtATime' <=> OneAtATime
    BY <1>0, <1>10 DEF Wake, Asked, WaitHasCard, Busy, OneAtATime, Working
  <2>2. \A d \in Calls : call'[d].at # "shown"
    <3>1. \A d \in Calls \ {c} : call'[d] = call[d] /\ call[d].at # "shown"
      BY <1>0, <1>10 DEF Wake, Asked, WaitHasCard
    <3>2. call'[c].at # "shown"
      BY <1>0, <1>10 DEF Wake, NoCall
    <3>3. QED
      BY <3>1, <3>2
  <2>3. QED
    BY <2>1, <2>2 DEF Turns, IdleIsQuiet, AskedIdle
<1>11. QED
  BY <1>1, <1>2, <1>3, <1>4, <1>5, <1>6, <1>7, <1>8, <1>9, <1>10, WorkSteps DEF WorkMoves
-----------------------------------------------------------------------------
(* Whose calls they are. *)

LEMMA OwnedNext ==
  ASSUME AgentAssumption, TypeOK, Asked, Turns, Owned, SavesInPlace, [Next]_vars
  PROVE  Owned'
<1> USE DEF control, InTurn
<1>0. /\ turn \in [Thread -> Pc] /\ call \in [Calls -> CallRow]
      /\ helper \in {"none", "on", "ended"}
      /\ Calls = Call \cup HelperCall /\ Call \cap HelperCall = {}
      /\ asking \in Calls \cup {None} /\ None \notin Calls
  BY DEF TypeOK, CallRow, AgentAssumption, Calls
\* Steps that leave the calls alone, and let no turn out of its calls.
<1>1. ASSUME call' = call, helper' = helper,
             \A t \in Thread : turn[t] = "calls" => turn'[t] = "calls"
      PROVE  Owned'
  BY <1>1 DEF Owned, CallsOfTurn, CallsOfHelper
<1>2. ASSUME turn' = turn, helper' = helper,
             \A c \in Calls : call'[c].at = call[c].at \/ call[c].at # "none",
             \A c \in HelperCall : call[c].at = "done" => call'[c].at = "done"
      PROVE  Owned'
  BY <1>0, <1>2 DEF Owned, CallsOfTurn, CallsOfHelper
<1>3. ASSUME \/ Send \/ TickDue \/ TickSend \/ Compact \/ Compacted \/ Delete \/ Unlink
             \/ Command \/ CommandSend \/ CommandDone \/ UNCHANGED vars
      PROVE  Owned'
  <2>1. call' = call /\ helper' = helper /\ turn' = turn
    BY <1>3 DEF Send, TickDue, TickSend, Compact, Compacted, Delete, Unlink, Command, CommandSend,
       CommandDone, vars, approval
  <2>2. QED
    BY <1>1, <2>1
<1>4. ASSUME NEW t \in Thread,
             More(t) \/ Over(t) \/ Settle(t) \/ (\E u \in Thread : Renew(t, u)) \/ (\E m \in Message : Begin(m, t))
      PROVE  Owned'
  <2>1. call' = call /\ helper' = helper
    BY <1>4 DEF More, Over, Settle, Renew, Begin, approval
  <2>2. \A u \in Thread : turn[u] = "calls" => turn'[u] = "calls"
    BY <1>0, <1>4 DEF More, Over, Settle, Renew, Begin, Goes
  <2>3. QED
    BY <1>1, <2>1, <2>2
<1>5. ASSUME NEW t \in Thread, Top(t) PROVE Owned'
  <2>1. /\ call' = call /\ (helper' = helper \/ (helper = "ended" /\ helper' = "none"))
        /\ \A u \in Thread : turn[u] = "calls" => turn'[u] = "calls"
    BY <1>0, <1>5 DEF Top, Goes, approval
  <2>2. QED
    BY <2>1 DEF Owned, CallsOfTurn, CallsOfHelper
<1>6. ASSUME NEW w \in Writer, Save(w) PROVE Owned'
  <2>1. call' = call /\ helper' = helper /\ (AfterSave(w) \/ turn' = turn)
    BY <1>6 DEF Save, Gather, Write, WriteFails, approval
  <2>2. AtSave(w) \/ saving[w] # None
    BY <1>6 DEF Save, Gather, Write, WriteFails
  <2>3. \A t \in Thread : turn[t] = "calls" => turn'[t] = "calls"
    <3>1. CASE w \in Thread
      <4>1. turn[w] # "calls"
        BY <1>6, <2>2, <3>1 DEF AtSave, SavesInPlace, AgentAssumption
      <4>2. QED
        BY <1>0, <2>1, <4>1 DEF AfterSave
    <3>2. CASE w \notin Thread
      BY <1>0, <2>1, <3>2 DEF AfterSave
    <3>3. QED
      BY <3>1, <3>2
  <2>4. QED
    BY <1>1, <2>1, <2>3
<1>7. ASSUME NEW t \in Thread, Model(t) PROVE Owned'
  <2>1. \A c \in Call : call[c].at = "none"
    BY <1>7, NoCallsElsewhere DEF Model, Owned
  <2>2. helper' = helper /\ \A c \in HelperCall : call'[c] = call[c]
    BY <1>0, <1>7 DEF Model
  <2>3. CallsOfHelper'
    BY <2>2 DEF Owned, CallsOfHelper
  <2>4. CallsOfTurn'
    <3>1. CASE call' = call
      BY <2>1, <3>1 DEF CallsOfTurn
    <3>2. CASE call' # call
      <4>1. turn'[t] = "calls"
        BY <1>0, <1>7, <3>2 DEF Model, Goes
      <4>2. QED
        BY <4>1 DEF CallsOfTurn
    <3>3. QED
      BY <3>1, <3>2
  <2>5. QED
    BY <2>3, <2>4 DEF Owned
<1>8. ASSUME NEW t \in Thread, Recorded(t) PROVE Owned'
  <2>1. /\ \A c \in Call : call'[c].at = "none"
        /\ helper' = helper /\ \A c \in HelperCall : call'[c] = call[c]
    BY <1>0, <1>8 DEF Recorded, NoCall
  <2>2. QED
    BY <2>1 DEF Owned, CallsOfTurn, CallsOfHelper
<1>9. ASSUME NEW t \in Thread, NEW c \in Call, Spawn(t, c) PROVE Owned'
  <2>1. helper' = "on" /\ turn'[t] = "calls"
    BY <1>9 DEF Spawn
  <2>2. QED
    BY <2>1 DEF Owned, CallsOfTurn, CallsOfHelper
<1>10. ASSUME NEW c \in Calls, CallStep(c) PROVE Owned'
  <2>1. turn' = turn /\ helper' = helper
    BY <1>10 DEF CallStep, StartCall, RunFreely, Ask, Wake, FinishCall
  <2>2. /\ \A d \in Calls \ {c} : call'[d] = call[d]
        /\ call[c].at \notin {"none", "done"}
    BY <1>0, <1>10 DEF CallStep, StartCall, RunFreely, Ask, Wake, FinishCall, Moves, Asked, WaitHasCard
  <2>3. QED
    BY <1>0, <1>2, <2>1, <2>2
<1>11. ASSUME NEW answer \in {"allow", "allow_all", "deny"}, Decide(answer) PROVE Owned'
  <2>1. turn' = turn /\ helper' = helper
    BY <1>11 DEF Decide
  <2>2. \A d \in Calls : call'[d].at = call[d].at
    BY <1>0, <1>11 DEF Decide, CallRow
  <2>3. QED
    BY <1>0, <1>2, <2>1, <2>2
<1>12. ASSUME Stop \/ CloseStops PROVE Owned'
  <2>1. turn' = turn /\ helper' = helper
    BY <1>12 DEF Stop, CloseStops
  <2>2. \A d \in Calls : call'[d] = call[d] \/ (call[d].at = "new" /\ call'[d].at = "done")
    BY <1>0, <1>12 DEF Stop, CloseStops, StopNow, CallRow
  <2>3. QED
    BY <1>0, <1>2, <2>1, <2>2
<1>13. CASE HelperEnds
  <2>1. /\ call' = call /\ turn' = turn /\ \A c \in HelperCall : call[c].at = "done"
    BY <1>13 DEF HelperEnds, approval
  <2>2. QED
    BY <2>1 DEF Owned, CallsOfTurn, CallsOfHelper
<1>14. QED
  BY <1>3, <1>4, <1>5, <1>6, <1>7, <1>8, <1>9, <1>10, <1>11, <1>12, <1>13
     DEF Next, User, TurnStep, Writer

-----------------------------------------------------------------------------
(* What is on disk. *)

\* A thread works alone.
LEMMA WorksAlone ==
  ASSUME Turns, NEW t \in Thread, turn[t] \in InTurn \cup {"mid"}
  PROVE  Working = {t} /\ opening = {} /\ \A u \in Thread \ {t} : turn[u] # "end"
BY DEF Turns, OneAtATime, Working, InTurn

\* A turn that goes on has yet to save, so it may learn of messages.
LEMMA GoesOn ==
  ASSUME TypeOK, Turns, Stored, NEW t \in Thread, NEW pc \in InTurn \cup {"mid"},
         turn[t] \in InTurn, turn[t] # "end", pc # "settle",
         Goes(t, pc), UNCHANGED <<files, deleting>>
  PROVE  Stored'
<1> USE DEF InTurn
<1>1. turn \in [Thread -> Pc]
  BY DEF TypeOK
<1>2. saving[t] = None /\ \A u \in Thread \ {t} : turn[u] # "end" /\ turn'[u] = turn[u]
  BY <1>1, WorksAlone DEF Stored, SavesInPlace, Goes
<1>3. t \in Working' /\ turn'[t] # "settle"
  BY <1>1 DEF Working, Goes
<1>4. SavesInPlace' /\ LastSave'
  BY <1>2 DEF Stored, SavesInPlace, LastSave, files
<1>5. Saved'
  BY <1>3 DEF Saved
<1>6. NotGone' /\ Joined'
  BY DEF Stored, NotGone, Joined, files, Closing
<1>7. QED
  BY <1>4, <1>5, <1>6 DEF Stored

\* What a save writes, or fails to write, is accounted for.
LEMMA WriteStored ==
  ASSUME AgentAssumption, TypeOK, Stored, NEW w \in Writer, Write(w) \/ WriteFails(w)
  PROVE  Stored'
<1>0. /\ turn \in [Thread -> Pc] /\ saving \in [Writer -> (SUBSET Message) \cup {None}]
      /\ Thread \subseteq Writer /\ 0 \notin Message
  BY MessagesTyped DEF TypeOK, Writer
<1>1. /\ saving[w] # None /\ told' = told /\ deleting' = deleting
      /\ saving'[w] = None /\ \A v \in Writer \ {w} : saving'[v] = saving[v]
      /\ \A t \in Thread \ {w} : turn'[t] = turn[t]
      /\ AfterSave(w)
  BY <1>0 DEF Write, WriteFails, AfterSave
<1>2. SavesInPlace' /\ LastSave' /\ Joined'
  BY <1>0, <1>1 DEF Stored, SavesInPlace, LastSave, Joined
<1>3. NotGone'
  <2>1. disk' = disk \/ disk' = saving[w]
    BY DEF Write, WriteFails
  <2>2. QED
    BY <1>0, <1>1, <2>1 DEF Gone, Stored, NotGone, Closing
<1>w. ASSUME ~Closing', ~overtaken'
      PROVE  /\ ~Closing /\ ~overtaken
             /\ disk \cup unsaved \cup saving[w] \subseteq disk' \cup unsaved'
  <2>1. ~Closing /\ disk # Gone
    BY <1>1, <1>w DEF Stored, NotGone, Closing
  <2>2. CASE Write(w)
    <3>1. ~overtaken /\ disk \subseteq disk' /\ disk' = saving[w] /\ unsaved' = unsaved \ saving[w]
      BY <1>w, <2>1, <2>2 DEF Write
    <3>2. QED
      BY <2>1, <3>1
  <2>3. CASE WriteFails(w)
    <3>1. overtaken' = overtaken /\ disk' = disk /\ unsaved' = unsaved \cup saving[w]
      BY <2>3 DEF WriteFails
    <3>2. QED
      BY <1>w, <2>1, <3>1
  <2>4. QED
    BY <2>2, <2>3
<1>4. ASSUME ~Closing', ~overtaken'
      PROVE  told' \subseteq disk' \cup unsaved' \/ \E t \in Working' : turn'[t] # "settle"
  <2>1. /\ ~Closing /\ ~overtaken
        /\ disk \cup unsaved \cup saving[w] \subseteq disk' \cup unsaved'
    BY <1>4, <1>w
  <2>2. CASE told \subseteq disk \cup unsaved
    BY <1>1, <2>1, <2>2
  <2>3. ASSUME NEW t \in Working, turn[t] # "settle"
        PROVE  told' \subseteq disk' \cup unsaved' \/ \E u \in Working' : turn'[u] # "settle"
    <3>1. CASE t # w
      <4>1. turn'[t] = turn[t]
        BY <1>1, <3>1 DEF Working
      <4>2. t \in Working'
        BY <4>1 DEF Working
      <4>3. QED
        BY <2>3, <4>1, <4>2
    <3>2. CASE t = w /\ turn[t] = "mid"
      <4>1. turn'[t] = "top"
        BY <1>0, <1>1, <3>2 DEF AfterSave, Working
      <4>2. t \in Working'
        BY <4>1 DEF Working, InTurn
      <4>3. QED
        BY <4>1, <4>2
    <3>3. CASE t = w /\ turn[t] # "mid"
      <4>1. turn[t] = "end"
        BY <1>1, <3>3 DEF Stored, SavesInPlace, Working, InTurn
      <4>2. saving[t] = told
        BY <1>1, <3>3, <4>1 DEF Stored, LastSave, Working
      <4>3. QED
        BY <1>1, <2>1, <3>3, <4>2
    <3>4. QED
      BY <3>1, <3>2, <3>3
  <2>4. QED
    BY <2>1, <2>2, <2>3 DEF Stored, Saved
<1>5. QED
  BY <1>2, <1>3, <1>4 DEF Stored, Saved

LEMMA GatherStored ==
  ASSUME AgentAssumption, TypeOK, Stored, NEW w \in Writer, Gather(w)
  PROVE  Stored'
<1>0. /\ turn \in [Thread -> Pc] /\ saving \in [Writer -> (SUBSET Message) \cup {None}]
      /\ Thread \subseteq Writer
  BY DEF TypeOK, Writer
<1>1. UNCHANGED <<told, disk, overtaken, unsaved, deleting>>
  BY DEF Gather
<1>2. NotGone'
  BY <1>1 DEF Stored, NotGone, Closing
<1>3. CASE Closing
  <2>1. /\ saving' = saving /\ saving[w] = None
        /\ \A t \in Thread \ {w} : turn'[t] = turn[t]
    BY <1>3 DEF Gather, AfterSave
  <2>2. SavesInPlace' /\ LastSave' /\ Joined'
    BY <1>0, <1>1, <2>1 DEF Stored, SavesInPlace, LastSave, Joined
  <2>3. Saved'
    BY <1>1, <1>3 DEF Saved, Closing
  <2>4. QED
    BY <1>2, <2>2, <2>3 DEF Stored
<1>4. CASE ~Closing
  <2>1. /\ turn' = turn /\ saving'[w] = told /\ AtSave(w)
        /\ \A v \in Writer \ {w} : saving'[v] = saving[v]
    BY <1>0, <1>4 DEF Gather
  <2>2. w \in Thread => turn[w] \in {"mid", "end", "tail"}
    BY <2>1 DEF AtSave, AgentAssumption
  <2>3. SavesInPlace' /\ LastSave'
    BY <1>0, <1>1, <2>1, <2>2 DEF Stored, SavesInPlace, LastSave
  <2>4. Joined'
    BY <1>1, <1>4 DEF Joined, Closing
  <2>5. Saved'
    BY <1>1, <2>1 DEF Stored, Saved, Closing, Working
  <2>6. QED
    BY <1>2, <2>3, <2>4, <2>5 DEF Stored
<1>5. QED
  BY <1>3, <1>4

LEMMA StoredNext ==
  ASSUME AgentAssumption, TypeOK, Turns, Stored, [Next]_vars
  PROVE  Stored'
<1> USE DEF control, InTurn
<1>0. /\ turn \in [Thread -> Pc]
      /\ deleting \in [at : {"no", "closing", "joining", "done"}, joined : SUBSET Thread]
  BY DEF TypeOK
<1>1. ASSUME UNCHANGED <<turn, told, files, deleting>> PROVE Stored'
  BY <1>1 DEF Stored, SavesInPlace, LastSave, Saved, NotGone, Joined, files, Closing, Working
<1>2. ASSUME \/ Send \/ TickDue \/ TickSend \/ HelperEnds \/ Stop \/ Compact \/ Compacted
             \/ Command \/ CommandSend \/ CommandDone \/ UNCHANGED vars
      PROVE  Stored'
  <2>1. UNCHANGED <<turn, told, files, deleting>>
    BY <1>2 DEF Send, TickDue, TickSend, HelperEnds, Stop, Compact, Compacted, Command, CommandSend,
       CommandDone, outside, vars
  <2>2. QED
    BY <1>1, <2>1
<1>3. ASSUME \/ \E t \in Thread, c \in Call : Spawn(t, c)
             \/ \E c \in Calls : CallStep(c)
             \/ \E answer \in {"allow", "allow_all", "deny"} : Decide(answer)
      PROVE  Stored'
  <2>1. UNCHANGED <<turn, told, files, deleting>>
    BY <1>3 DEF Spawn, CallStep, StartCall, RunFreely, Ask, Wake, FinishCall, Decide, outside
  <2>2. QED
    BY <1>1, <2>1
<1>4. ASSUME NEW t \in Thread, Top(t) \/ Model(t) \/ Recorded(t) \/ More(t) \/ Over(t) PROVE Stored'
  <2>1. /\ turn[t] \in {"top", "model", "calls", "more", "over"}
        /\ \E pc \in (InTurn \cup {"mid"}) \ {"settle"} : Goes(t, pc)
        /\ UNCHANGED <<files, deleting>>
    BY <1>4 DEF Top, Model, Recorded, More, Over, outside
  <2>2. QED
    BY <2>1, GoesOn
<1>5. ASSUME NEW t \in Thread, NEW m \in Message, Begin(m, t) PROVE Stored'
  <2>1. Working = {}
    BY <1>5 DEF Begin, Turns, OneAtATime
  <2>2. /\ saving[t] = None /\ turn'[t] = "top"
        /\ \A u \in Thread \ {t} : turn'[u] = turn[u] /\ turn[u] # "end"
        /\ UNCHANGED <<files, deleting>>
    BY <1>0, <1>5, <2>1 DEF Begin, Stored, SavesInPlace, Working, outside
  <2>3. SavesInPlace' /\ LastSave' /\ NotGone' /\ Joined'
    BY <2>2 DEF Stored, SavesInPlace, LastSave, NotGone, Joined, files, Closing
  <2>4. Saved'
    BY <2>2 DEF Saved, Working
  <2>5. QED
    BY <2>3, <2>4 DEF Stored
<1>6. ASSUME NEW t \in Thread, Settle(t) PROVE Stored'
  <2>1. Working = {t}
    BY <1>6, WorksAlone DEF Settle
  <2>2. ~Closing /\ ~overtaken => told \subseteq disk \cup unsaved
    BY <1>6, <2>1 DEF Settle, Stored, Saved
  <2>3. /\ saving[t] = None /\ turn'[t] \in {"renew", "off"}
        /\ \A u \in Thread \ {t} : turn'[u] = turn[u]
        /\ UNCHANGED <<told, files, deleting>>
    BY <1>0, <1>6 DEF Settle, Goes, Stored, SavesInPlace, outside
  <2>4. SavesInPlace' /\ LastSave' /\ NotGone' /\ Joined'
    BY <2>3 DEF Stored, SavesInPlace, LastSave, NotGone, Joined, files, Closing
  <2>5. Saved'
    BY <2>2, <2>3 DEF Saved, files, Closing
  <2>6. QED
    BY <2>4, <2>5 DEF Stored
<1>7. ASSUME NEW t \in Thread, NEW u \in Thread, Renew(t, u) PROVE Stored'
  <2>1. /\ saving[t] = None /\ saving[u] = None /\ turn'[t] = "tail" /\ turn'[u] = "top"
        /\ \A v \in Thread \ {t, u} : turn'[v] = turn[v]
        /\ UNCHANGED <<told, files, deleting>>
    BY <1>0, <1>7 DEF Renew, Stored, SavesInPlace, outside
  <2>2. SavesInPlace' /\ LastSave' /\ NotGone' /\ Joined'
    BY <2>1 DEF Stored, SavesInPlace, LastSave, NotGone, Joined, files, Closing
  <2>3. Saved'
    BY <2>1 DEF Saved, Working
  <2>4. QED
    BY <2>2, <2>3 DEF Stored
<1>8. ASSUME Delete \/ CloseStops \/ Unlink PROVE Stored'
  <2>1. /\ UNCHANGED <<turn, told, saving>> /\ deleting'.at \in {"closing", "joining", "done"}
    BY <1>0, <1>8 DEF Delete, CloseStops, Unlink, files
  <2>2. SavesInPlace' /\ LastSave' /\ Saved' /\ NotGone'
    BY <2>1 DEF Stored, SavesInPlace, LastSave, Saved, NotGone, Closing
  <2>3. CASE Delete
    <3>1. deleting'.at = "closing"
      BY <1>0, <2>3 DEF Delete
    <3>2. QED
      BY <2>2, <3>1 DEF Stored, Joined
  <2>4. CASE CloseStops
    <3>1. deleting' = [at |-> "joining", joined |-> {t \in Thread : turn[t] # "off"}]
      BY <2>4 DEF CloseStops
    <3>2. \A t \in Thread : saving'[t] # None => t \in deleting'.joined
      BY <2>1, <3>1 DEF Stored, SavesInPlace
    <3>3. QED
      BY <2>2, <3>1, <3>2 DEF Stored, Joined
  <2>5. CASE Unlink
    <3>1. \A t \in Thread : saving'[t] = None
      BY <2>1, <2>5 DEF Unlink, Stored, Joined
    <3>2. QED
      BY <2>2, <3>1 DEF Stored, Joined
  <2>6. QED
    BY <1>8, <2>3, <2>4, <2>5
<1>9. QED
  BY <1>2, <1>3, <1>4, <1>5, <1>6, <1>7, <1>8, WriteStored, GatherStored
     DEF Next, User, TurnStep, Save, Writer
-----------------------------------------------------------------------------
(* The theorems. *)

\* Only a save writes the file, and only a deletion removes it.
LEMMA FileSteps ==
  ASSUME [Next]_vars
  PROVE  disk' = disk \/ (\E w \in Writer : Write(w)) \/ Unlink
<1> USE DEF files, outside
<1>1. ASSUME \/ Send \/ TickDue \/ TickSend \/ HelperEnds \/ Stop \/ Compact \/ Compacted \/ Delete
             \/ CloseStops \/ Command \/ CommandSend \/ CommandDone
      PROVE  disk' = disk
  BY <1>1 DEF Send, TickDue, TickSend, HelperEnds, Stop, Compact, Compacted, Delete, CloseStops,
     Command, CommandSend, CommandDone
<1>2. ASSUME NEW t \in Thread, \/ Top(t) \/ Model(t) \/ Recorded(t) \/ More(t) \/ Over(t) \/ Settle(t)
                               \/ (\E u \in Thread : Renew(t, u)) \/ (\E m \in Message : Begin(m, t))
                               \/ (\E c \in Call : Spawn(t, c))
      PROVE  disk' = disk
  BY <1>2 DEF Top, Model, Recorded, More, Over, Settle, Renew, Begin, Spawn
<1>3. ASSUME NEW c \in Calls, CallStep(c) PROVE disk' = disk
  BY <1>3 DEF CallStep, StartCall, RunFreely, Ask, Wake, FinishCall
<1>4. ASSUME NEW answer \in {"allow", "allow_all", "deny"}, Decide(answer) PROVE disk' = disk
  BY <1>4 DEF Decide
<1>5. ASSUME NEW w \in Writer, Gather(w) \/ WriteFails(w) PROVE disk' = disk
  BY <1>5 DEF Gather, WriteFails
<1>6. ASSUME UNCHANGED vars PROVE disk' = disk
  BY <1>6 DEF vars
<1>7. QED
  BY <1>1, <1>2, <1>3, <1>4, <1>5, <1>6 DEF Next, User, TurnStep, Save, Writer

LEMMA InitInv ==
  ASSUME AgentAssumption, Init
  PROVE  TurnInv
<1>1. TypeOK
  <2>1. \A op \in Ops : left[op] \in Nat
    BY DEF Init, AgentAssumption
  <2>2. left \in [Ops -> Nat] /\ 0 \in 0..MaxMessages
    BY DEF Init, AgentAssumption
  <2>3. [c \in Calls |-> NoCall] \in [Calls -> CallRow]
    BY NoCallTyped
  <2>4. /\ opening = {} /\ told = {} /\ disk \in SUBSET Message
        /\ queue \in Seq(Message) /\ turn \in [Thread -> Pc]
        /\ saving \in [Writer -> (SUBSET Message) \cup {None}]
    BY DEF Init, Pc
  <2>5. /\ tick \in [at : {"off", "due", "save"}, message : Message \cup {None}]
        /\ deleting \in [at : {"no", "closing", "joining", "done"}, joined : SUBSET Thread]
    BY DEF Init
  <2>6. /\ status = "idle" /\ stopped = FALSE /\ mode = "ask" /\ asking = None /\ pending = None
        /\ helper = "none" /\ compacting = "no" /\ overtaken = FALSE /\ sent = 0
        /\ command = "no" /\ unsaved = {}
        /\ call = [c \in Calls |-> NoCall]
    BY DEF Init
  <2>7. QED
    BY <2>2, <2>3, <2>4, <2>5, <2>6 DEF TypeOK, CallRow
<1>2. Working = {} /\ \A c \in Calls : call[c].at = "none"
  BY DEF Init, Working, InTurn, NoCall
<1>3. Asked /\ Turns
  BY <1>2 DEF Init, AgentAssumption, Calls, Asked, WaitHasCard, ShownAsks, Turns, IdleIsQuiet, Busy,
     AskedIdle, OneAtATime
<1>4. Owned
  BY <1>2 DEF Owned, CallsOfTurn, CallsOfHelper, Calls
<1>5. Stored
  BY DEF Init, Stored, SavesInPlace, LastSave, Saved, NotGone, Joined, Closing, Gone, Writer
<1>6. QED
  BY <1>1, <1>3, <1>4, <1>5 DEF TurnInv

LEMMA InvNext ==
  ASSUME AgentAssumption, TurnInv, [Next]_vars
  PROVE  TurnInv'
BY TypeNext, AskedNext, TurnsNext, OwnedNext, StoredNext DEF TurnInv, Stored

LEMMA TurnInvHolds == Spec => []TurnInv
<1>1. AgentAssumption
  BY AgentAssumption
<1>2. Init => TurnInv
  BY <1>1, InitInv
<1>3. TurnInv /\ [Next]_vars => TurnInv'
  BY <1>1, InvNext
<1>4. QED
  BY <1>2, <1>3, PTL DEF Spec

\* One at a time, counted.
LEMMA OneTurnOf ==
  ASSUME OneAtATime
  PROVE  OneTurn
<1>1. \A S : (\A x, y \in S : x = y) => Cardinality(S) \in {0, 1} /\ (S # {} <=> Cardinality(S) = 1)
  <2> SUFFICES ASSUME NEW S, \A x, y \in S : x = y
               PROVE  Cardinality(S) \in {0, 1} /\ (S # {} <=> Cardinality(S) = 1)
    OBVIOUS
  <2>1. CASE S = {}
    BY <2>1, FS_EmptySet
  <2>2. ASSUME NEW x \in S PROVE S = {x}
    OBVIOUS
  <2>3. \A x : Cardinality({x}) = 1
    BY FS_Singleton
  <2>4. QED
    BY <2>1, <2>2, <2>3
<1>2. /\ Cardinality(Working) \in {0, 1} /\ (Working # {} <=> Cardinality(Working) = 1)
      /\ Cardinality(opening) \in {0, 1} /\ (opening # {} <=> Cardinality(opening) = 1)
  BY <1>1 DEF OneAtATime
<1>3. QED
  BY <1>2 DEF OneAtATime, OneTurn

\* There is one turn at a time, and while the session waits for the user a card is shown
\* (send(), _loop() and _wait_for_decision() of agent/session.py).
THEOREM TurnIsOK == Spec => []TurnOK
<1>1. TurnInv => TurnOK
  BY OneTurnOf DEF TurnInv, Turns, Asked, TurnOK
<1>2. QED
  BY <1>1, TurnInvHolds, PTL

\* A session that is shown as idle has its whole conversation on disk, but for what a save failed
\* to write: the turn saves before it says so, and starts anew when a message came meanwhile.
THEOREM IdleHasSaved == Spec => []IdleIsSaved
<1>1. TurnInv => IdleIsSaved
  BY DEF TurnInv, Turns, IdleIsQuiet, Busy, Stored, Saved, IdleIsSaved
<1>2. QED
  BY <1>1, TurnInvHolds, PTL

\* No turn brings a deleted session back: delete() has waited for those that saved, and the
\* others do not save any more.
THEOREM NoTurnRevives == Spec => DeletedStaysDeleted
<1>1. ASSUME TurnInv, [Next]_vars, deleting.at = "done", disk = Gone, disk' # Gone
      PROVE  \E w \in {"tick", "compact", "command"} : saving[w] # None /\ disk' = saving[w]
  <2>1. ~Unlink
    BY <1>1 DEF Unlink
  <2>2. PICK w \in Writer : Write(w)
    BY <1>1, <2>1, FileSteps
  <2>3. w \notin Thread
    BY <1>1, <2>2 DEF TurnInv, Stored, Joined, Write
  <2>4. QED
    BY <2>2, <2>3 DEF Write, Writer
<1>2. QED
  BY <1>1, TurnInvHolds, PTL DEF Spec, DeletedStaysDeleted
=============================================================================
