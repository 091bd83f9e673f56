---------------------------- MODULE TrialUpdate ----------------------------
(***************************************************************************)
(* What the firmware update promises: the gateway keeps one image it can   *)
(* always come back to.  A new image is a candidate for its place, and     *)
(* takes it only by working; until then it may be given up or spoiled at   *)
(* any moment, and the image that is kept stays what it is.                *)
(***************************************************************************)
CONSTANTS
  Images,    \* the firmware images that exist
  Good,      \* those that work
  Factory    \* the one the gateway was delivered with

VARIABLES
  kept,      \* the image the gateway comes back to
  candidate  \* the images on trial: none or one

vars == <<kept, candidate>>

Init == kept = Factory /\ candidate = {}

Install ==
  /\ \E im \in Images : candidate' = {im}
  /\ UNCHANGED kept

(* Given up after a trial that failed, or overwritten by another download. *)
Drop == candidate' = {} /\ UNCHANGED kept

Accept ==
  /\ kept' \in candidate \cap Good
  /\ candidate' = {}

Next == Install \/ Drop \/ Accept

Spec == Init /\ [][Next]_vars
=============================================================================
