------------------------- MODULE DecisionAuthority -------------------------
(***************************************************************************)
(* What the research tasks promise, whatever windows, crashes and races    *)
(* there are: one writer at a time decides, on the one open task of a      *)
(* dataset, in the order request, decision, answer, decision, ..., and a   *)
(* task that is no longer open stays as it was.                            *)
(*                                                                         *)
(*   docs/superpowers/specs/2026-07-17-live-multi-round-research-os-ui-    *)
(*   design.md, sections 6, 9 and 10                                       *)
(***************************************************************************)
EXTENDS Naturals

CONSTANTS
  Tasks,        \* research tasks
  Identities    \* exact dataset identities

VARIABLES
  kept,      \* the tasks that have a ledger
  open,      \* the open task of an identity: a set of at most one task
  closed,    \* the tasks that were open once
  written,   \* how often the ledger of a task was written
  says       \* what it says

tasksVars == <<kept, open, closed, written, says>>

Open == UNION {open[i] : i \in Identities}

Init ==
  /\ kept = {}
  /\ open = [i \in Identities |-> {}]
  /\ closed = {}
  /\ written = [t \in Tasks |-> 0]
  /\ says = [t \in Tasks |-> "empty"]

\* A ledger exists before its task is open.
Create(t) ==
  /\ t \notin kept
  /\ kept' = kept \union {t}
  /\ UNCHANGED <<open, closed, written, says>>

\* A task opens for an identity that has none, or in one step takes the place of the
\* one that is.
OpenTask(t, i) ==
  /\ t \in kept \ (Open \union closed)
  /\ open' = [open EXCEPT ![i] = {t}]
  /\ closed' = closed \union open[i]
  /\ UNCHANGED <<kept, written, says>>

CloseTask(t, i) ==
  /\ t \in open[i]
  /\ open' = [open EXCEPT ![i] = {}]
  /\ closed' = closed \union {t}
  /\ UNCHANGED <<kept, written, says>>

\* What may follow what, in the ledger of an open task.
Follows(kind) ==
  CASE kind = "empty"   -> {"pending"}
    [] kind = "pending" -> {"clarify", "final"}
    [] kind = "clarify" -> {"pending", "retracted"}
    [] kind = "final"   -> {"retracted"}
    [] OTHER            -> {}

Decide(t) ==
  /\ t \in Open
  /\ written' = [written EXCEPT ![t] = @ + 1]
  /\ \E kind \in Follows(says[t]) : says' = [says EXCEPT ![t] = kind]
  /\ UNCHANGED <<kept, open, closed>>

Next ==
  \E t \in Tasks :
    \/ Create(t)
    \/ Decide(t)
    \/ \E i \in Identities : OpenTask(t, i) \/ CloseTask(t, i)

Spec == Init /\ [][Next]_tasksVars
==============================================================================
