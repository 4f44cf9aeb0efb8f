----------------------------- MODULE MCBreaker -----------------------------
(* Instances of CircuitBreaker for TLC: thresholds 1 and 2, cooldowns of one *)
(* and two ticks, so that an administrator can move either bound past the   *)
(* current counter in both directions.                                      *)
EXTENDS CircuitBreaker

OneTo2 == 1..2
=============================================================================
