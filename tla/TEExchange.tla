----------------------------- MODULE TEExchange -----------------------------
(***************************************************************************)
(* What a TE command of data_structure.c promises its caller: one call at  *)
(* a time, and a call ends either with nothing or with fields of answers   *)
(* that were due: its own, or one that an earlier call did not wait for.   *)
(* Answers come in the order of the calls, so a call that has printed one  *)
(* leaves nothing older for the next; an answer that is not due any more   *)
(* never comes back.                                                       *)
(***************************************************************************)
EXTENDS Naturals

CONSTANT MaxExchanges   \* bound: calls made

VARIABLES
  busy,      \* a command function is executing
  calls,     \* calls made so far; a call is named by its number
  outcome,   \* the calls whose answers the last result was taken from
  due        \* the calls whose answers this call may find

Init == busy = FALSE /\ calls = 0 /\ outcome = {} /\ due = {}

(* What an earlier call may leave: nothing older than what it printed.     *)
Left == {c \in due : \A d \in outcome : c >= d}

Call ==
  /\ ~ busy
  /\ calls < MaxExchanges
  /\ busy' = TRUE
  /\ calls' = calls + 1
  /\ outcome' = {}
  /\ \E kept \in SUBSET Left : due' = kept \cup {calls'}

Return ==
  /\ busy
  /\ busy' = FALSE
  /\ outcome' \in SUBSET due
  /\ UNCHANGED <<calls, due>>

Next == Call \/ Return

vars == <<busy, calls, outcome, due>>

Spec == Init /\ [][Next]_vars /\ WF_vars(Return)
=============================================================================
