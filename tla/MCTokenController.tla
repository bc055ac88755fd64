------------------------ MODULE MCTokenController --------------------------
(* A small instance of TokenController for TLC, in ticks of ten minutes:    *)
(* tokens live for an hour, are renewed every half an hour and a retry is   *)
(* delayed by 1000 seconds at most.                                         *)
EXTENDS TokenController

CONSTANTS w1, w2
=============================================================================
