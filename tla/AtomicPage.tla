----------------------------- MODULE AtomicPage -----------------------------
(***************************************************************************)
(* What a page artifact transaction promises: the artifacts of a page      *)
(* change together, in one step that also moves the page's                 *)
(* artifact_generation, or not at all.                                     *)
(***************************************************************************)
EXTENDS Naturals

CONSTANTS Path, Txn, NoTxn, Initial, Absent

VARIABLES
  page,        \* the artifacts of the page
  generation,  \* artifact_generation
  owner        \* artifact_transaction_id

pageVars == <<page, generation, owner>>

Init ==
  /\ page \in [Path -> {Initial, Absent}]
  /\ generation = 0
  /\ owner = NoTxn

\* t replaces or removes some artifacts and keeps the others.
Commit(t) ==
  /\ \E new \in [Path -> {t, Absent}], S \in SUBSET Path :
       page' = [p \in Path |-> IF p \in S THEN new[p] ELSE page[p]]
  /\ generation' = generation + 1
  /\ owner # t
  /\ owner' = t

Next == \E t \in Txn : Commit(t)

Spec == Init /\ [][Next]_pageVars
=============================================================================
