----------------------------- MODULE VerifiedLog -----------------------------
(***************************************************************************)
(* What the Decision Ledger of one research task promises to the           *)
(* connections that share it: an append-only log, in which a connection    *)
(* can write only when it has verified every event that is there.          *)
(* DecisionLedger implements it.                                           *)
(***************************************************************************)
EXTENDS Naturals, Sequences, SequencesExt

CONSTANTS Conns, Events

VARIABLES
  log,    \* the events, from genesis
  known   \* known[c]: how many events connection c has verified or written, if any

vars == <<log, known>>

Init ==
  /\ log = <<>>
  /\ known = [c \in Conns |-> {}]

Verify(c) ==
  /\ known' = [known EXCEPT ![c] = {Len(log)}]
  /\ UNCHANGED log

Write(c) ==
  /\ known[c] = {Len(log)}
  /\ IsStrictPrefix(log, log')
  /\ \A i \in DOMAIN log' \ DOMAIN log : log'[i] \in Events
  /\ known' = [known EXCEPT ![c] = {Len(log')}]

Leave(c) ==
  /\ known' = [known EXCEPT ![c] = {}]
  /\ UNCHANGED log

Next == \E c \in Conns : Verify(c) \/ Write(c) \/ Leave(c)

Spec == Init /\ [][Next]_vars
==============================================================================
