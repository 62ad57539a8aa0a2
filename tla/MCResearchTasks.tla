--------------------------- MODULE MCResearchTasks ---------------------------
EXTENDS ResearchTasks, TLC

MCQuestions == [d \in Drafts |-> 1]

\* Windows, task ids and identities are names: nothing depends on which is which.
Names == Permutations(Windows) \union Permutations(Tasks) \union Permutations(Identities)

\* Two states are the same when they differ in what no later step reads: how the last
\* job ended, what a step has no use for, what is in a ledger that is closed, and which
\* of the closed tasks a window still has; and all jobs are the same that can only end
\* and leave everything as it is.
Closed1(t) == t \in DOMAIN rows /\ ~rows[t].active
Current(w) == view[w].record = Record(view[w].handle)
Doomed(w) ==
  LET j == job[w]
  IN  \/ j.pc \in {"locate", "look", "allocate", "mark", "lease"} /\ j.stale
      \/ j.pc \in {"look", "check"} /\ j.torn
      \/ /\ j.pc = "lease"
         /\ \/ Closed1(view[w].handle)
            \/ j.op \in {"answer", "resume"} /\ ~Current(w)
            \/ j.op = "initial" /\ ledgers[view[w].handle] # <<>>
JobSeen(w) ==
  LET j == job[w]
  IN  CASE j.pc = "idle"   -> <<>>
        [] Doomed(w)       -> <<"ends">>
        [] j.pc = "check"  -> <<j.pc, j.op, j.identity, j.task>>
        [] j.pc = "lease"  -> <<j.pc, j.op, j.draft>>
        [] j.pc = "locate" -> <<j.pc, j.op, j.draft, j.identity>>
        [] j.pc \in {"commit", "publish"} -> <<j.pc>>
        [] OTHER -> <<j.pc, j.op, j.draft, j.identity, j.task>>
ViewSeen(w) ==
  LET v == view[w]
  IN  CASE v.handle = NoTask  -> <<v.identity>>
        [] Closed1(v.handle)  -> <<"closed">>
        [] OTHER -> <<v.handle, IF Current(w) THEN v.record.kind
                                ELSE ToString(IsDecision(v.record.kind))>>
View == <<rows, [t \in DOMAIN ledgers |-> IF Closed1(t) THEN <<>> ELSE ledgers[t]],
          writer, [w \in Windows |-> <<ViewSeen(w), JobSeen(w)>>]>>
==============================================================================
