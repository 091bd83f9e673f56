------------------------------ MODULE MCTELink ------------------------------
(* Instances of TELink for TLC: some commands of TEFrames with their       *)
(* length checks and the last places they print from.                      *)
EXTENDS TELink, TEFrames

MCGuard == [c \in Commands |-> Table[c].guard]
MCLastRead == [c \in Commands |-> LastPrinted(c)]
=============================================================================
