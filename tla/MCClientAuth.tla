---------------------------- MODULE MCClientAuth ----------------------------
(* A student and a super administrator at one browser tab.                 *)
EXTENDS ClientAuth, TLC

CONSTANTS pupil, root

MCPermsOf == (pupil :> {"EXECUTE_AI_TUTOR"}) @@ (root :> {"SUPER_ADMIN"})

MCGroup == (pupil :> "student") @@ (root :> "admin")
=============================================================================
