---- MODULE MCOcrJobs ----
(* Two boxes in one chapter, which one editor object spans, one in another, *)
(* and a chapter without text.                                              *)
EXTENDS OcrJobs, TLC
CONSTANTS c1, c2, c3, b1, b2, b3, g1
MCChapterOf == (b1 :> c1) @@ (b2 :> c1) @@ (b3 :> c2)
MCSpanned == {b1, b2}

Job(c, items, status) ==
  [chapter |-> c, items |-> items, todo |-> items, force |-> TRUE, cancel |-> FALSE,
   status |-> status, completed |-> 0, stale |-> 0, failed |-> 0, retry |-> {}]
Empty(c) == Job(c, {}, "completed")

\* two more jobs, and no grouped reading beside them: the object has a text of the user
JobsOnly ==
  /\ jobs = <<Empty(c3)>> /\ kept = {1} /\ active = {}
  /\ object = [text |-> {Typed}, auto |-> {}] /\ groups = MaxGroups /\ edits = MaxEdits

\* a grouped reading beside the last job, which was started when only b1 was readable
GroupToo ==
  /\ jobs = <<Empty(c3), Empty(c2), Job(c1, {b1}, "pending")>> /\ kept = {2, 3}
  /\ active = {c1}
  /\ object = [text |-> {}, auto |-> {}] /\ groups = 0 /\ edits = 1

\* as many active jobs as there may be, and as many jobs as are kept
Crowd ==
  /\ jobs = <<Job(c1, {b1}, "pending"), Job(c2, {b3}, "pending")>> /\ kept = {1, 2}
  /\ active = {c1, c2}
  /\ object = [text |-> {Typed}, auto |-> {}] /\ groups = MaxGroups /\ edits = MaxEdits

MCInit ==
  /\ JobsOnly \/ GroupToo \/ Crowd
  /\ box = [b \in Box |-> [crop |-> g1, readable |-> b # b3,
                           text |-> IF b = b2 THEN g1 ELSE Unread]]
  /\ reader = [r \in Reader |-> Idle] /\ group = NoGroup

MCSpec == MCInit /\ [][Next]_vars /\ Fairness
====
