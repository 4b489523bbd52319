----------------------------- MODULE EventStream -----------------------------
(***************************************************************************)
(* What a client of the daemon is promised about the events of a task:     *)
(* it sees a prefix of what the agent emitted, in order and without        *)
(* repetition, and the completion notice comes only after the last event.  *)
(* Events of one run are numbered 1, 2, ... in the order they are emitted. *)
(* TaskLifecycle, with its two bounded channels and three goroutines per   *)
(* run, implements this.                                                   *)
(***************************************************************************)
EXTENDS Naturals

CONSTANT Runs

VARIABLES
  sent,      \* sent[r]: events the agent of run r has emitted
  got,       \* got[r]: events of run r written to the client
  ended,     \* ended[r]: the agent has emitted its last event
  announced  \* announced[r]: the client was told that run r is complete

vars == <<sent, got, ended, announced>>

Init ==
  /\ sent = [r \in Runs |-> 0]
  /\ got = [r \in Runs |-> 0]
  /\ ended = [r \in Runs |-> FALSE]
  /\ announced = [r \in Runs |-> FALSE]

Emit(r) ==
  /\ ~ended[r]
  /\ sent' = [sent EXCEPT ![r] = @ + 1]
  /\ ended' \in {ended, [ended EXCEPT ![r] = TRUE]}
  /\ UNCHANGED <<got, announced>>

Deliver(r) ==
  /\ ~announced[r]
  /\ got[r] < sent[r]
  /\ got' = [got EXCEPT ![r] = @ + 1]
  /\ UNCHANGED <<sent, ended, announced>>

Announce(r) ==
  /\ ended[r]
  /\ got[r] = sent[r]
  /\ ~announced[r]
  /\ announced' = [announced EXCEPT ![r] = TRUE]
  /\ UNCHANGED <<sent, got, ended>>

Next == \E r \in Runs : Emit(r) \/ Deliver(r) \/ Announce(r)

Spec == Init /\ [][Next]_vars
==============================================================================
