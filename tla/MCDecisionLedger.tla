-------------------------- MODULE MCDecisionLedger ---------------------------
(* Two connections on one ledger. *)
EXTENDS DecisionLedger, TLC

Symmetric == Permutations(Conns)

\* What later steps read of a connection.  How its last job ended and the bundle are
\* read by properties of steps only, and these are checked on every step.
Seen(k) ==
  [k EXCEPT !.outcome = "none",
            !.moved = k.pc \in Verifying /\ k.moved,
            !.known = IF k.stale THEN {} ELSE k.known,
            !.read.arts = IF k.pc \in {"v_events", "v_links", "x_events", "x_head", "check"}
                            THEN k.read.arts ELSE {}]
View == <<file, db, lock, [c \in Conns |-> Seen(conn[c])]>>
==============================================================================
