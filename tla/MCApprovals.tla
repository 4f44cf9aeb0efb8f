---------------------------- MODULE MCApprovals ----------------------------
(***************************************************************************)
(* Two administration pages and the profile pages of the people, in scenes *)
(* in which one page's list can be out of date because of the other.       *)
(***************************************************************************)
EXTENDS Approvals, TLC

\* The role matters where a roster page is open, whose calls carry none; one
\* dashboard has two calls under way, so that a second one adds nothing.
MCScenes ==
  {<<f, r>> \in [Desks -> {"roster", "dashboard", "accounts"}] \X {"teacher", "student"} :
     LET open == {f[d] : d \in Desks} IN
     \/ open = {"roster", "accounts"}
     \/ open = {"roster", "dashboard"} /\ r = "teacher"
     \/ open \in {{"dashboard", "accounts"}, {"roster"}} /\ r = "student"}

\* People, their profile pages and the desks are interchangeable.
Symmetry == Permutations(Users) \cup Permutations(Tabs) \cup Permutations(Desks)

MCSeats == [r \in {"teacher", "student"} |-> 1]
=============================================================================
