----------------------------- MODULE MCGateway -----------------------------
(* Gateway for TLC: two centrals; every upgrade sends the same image.     *)
EXTENDS Gateway

CONSTANTS phone, tablet, old
=============================================================================
