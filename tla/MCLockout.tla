----------------------------- MODULE MCLockout -----------------------------
(* Instances of LoginLockout for TLC: limits of two failures per account and *)
(* three per address, so that two accounts behind one address reach both.    *)
EXTENDS LoginLockout, TLC

\* Attempts, and the accounts behind one address, are interchangeable.
Symmetry == Permutations(Attempts) \cup Permutations(Accounts)
=============================================================================
