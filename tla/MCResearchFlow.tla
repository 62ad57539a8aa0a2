--------------------------- MODULE MCResearchFlow ---------------------------
(* ResearchFlow for TLC: two datasets, of which one blocks the preparation. *)
EXTENDS ResearchFlow

\* What the next steps depend on: the former view only while it can be put back, a
\* cancellation only while its job is there, a result only if it will be taken, and
\* no history but torn.
WhatMatters ==
  LET back == (busy \/ view.state = "prepare_review") /\ previous.state \in Durable
  IN  <<view, IF back THEN previous ELSE NoRecord, busy, run, event # 0, intake, review,
        {i \in DOMAIN queue : queue[i].run \in cancelled}, queue,
        [i \in DOMAIN posted |-> IF Accepts(posted[i]) THEN posted[i].view ELSE NoRecord],
        rt, pipeline, tasks, torn>>

\* The window is opened on the dataset that can be analysed, and finds no task or one
\* that is not at its end.
MCInit ==
  /\ Init
  /\ data \notin Blocked
  /\ \A t \in DOMAIN tasks : tasks[t].kind \in {"clarify", "candidate", "pending"}
MCSpec == MCInit /\ [][Next]_vars /\ Fairness
==============================================================================
