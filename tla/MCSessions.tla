---------------------------- MODULE MCSessions ----------------------------
(* Instances of SessionLifecycle for TLC: one user, since sessions of      *)
(* different users share nothing but the pool, with two or three logins    *)
(* and a revocation or a waiting request that overlap in every way.        *)
EXTENDS SessionLifecycle

CONSTANTS u1, s1, s2

OneOwner == [s \in Sids |-> u1]
=============================================================================
