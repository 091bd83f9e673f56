------------------------------ MODULE Follower ------------------------------
(***************************************************************************)
(* What the network manager promises of eth_connected: it goes through     *)
(* the states the cable went through, one by one and in their order,       *)
(* however far behind the handlers are.                                    *)
(***************************************************************************)
EXTENDS Naturals

VARIABLES
  cable,    \* what is followed: the cable, once Ethernet is started
  flag,     \* what follows it
  behind    \* changes of the cable the flag has still to make

vars == <<cable, flag, behind>>

Init == cable = FALSE /\ flag = FALSE /\ behind = 0

Change ==
  /\ cable' = ~ cable
  /\ behind' = behind + 1
  /\ UNCHANGED flag

Follow ==
  /\ behind > 0
  /\ flag' = ~ flag
  /\ behind' = behind - 1
  /\ UNCHANGED cable

Next == Change \/ Follow

Spec == Init /\ [][Next]_vars
=============================================================================
