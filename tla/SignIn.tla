------------------------------- MODULE SignIn -------------------------------
(***************************************************************************)
(* What the web interface promises about who is signed in: the user on the *)
(* screen is one whose credentials the gateway accepted and that has not   *)
(* been withdrawn since.  A withdrawn grant comes back only through a new  *)
(* request for sign-in.                                                    *)
(***************************************************************************)
CONSTANTS Accounts, Nobody

VARIABLES
  user,    \* who the interface says is signed in
  asked,   \* accounts with a request for sign-in under way
  granted  \* accounts the gateway accepted

signInVars == <<user, asked, granted>>

Start == user = Nobody /\ asked = {} /\ granted = {}

Ask(a) ==
  /\ asked' = asked \cup {a}
  /\ UNCHANGED <<user, granted>>

\* A grant may take the place of older ones.
Grant(a) ==
  /\ a \in asked
  /\ asked' \subseteq asked
  /\ a \in granted' /\ granted' \subseteq granted \cup {a}
  /\ UNCHANGED user

Show(a) ==
  /\ a \in granted
  /\ user' = a
  /\ asked' \subseteq asked /\ granted' \subseteq granted

Withdraw ==
  /\ user' \in {user, Nobody}
  /\ asked' \subseteq asked /\ granted' \subseteq granted

Step == Withdraw \/ \E a \in Accounts : Ask(a) \/ Grant(a) \/ Show(a)

SignInSpec == Start /\ [][Step]_signInVars
=============================================================================
