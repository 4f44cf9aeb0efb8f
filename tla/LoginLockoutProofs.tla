------------------------- MODULE LoginLockoutProofs -------------------------
(***************************************************************************)
(* Theorems about LoginLockout for any number of attempts, accounts and    *)
(* addresses, any limits, and however many commands Redis loses.             *)
(***************************************************************************)
EXTENDS LoginLockout, Integers, FiniteSetTheorems, TLAPS

\* Who will lock k or restart its counter; a counter that starts at its limit
\* is still to get its expiry.
Locker(a, k) ==
  /\ key[a] = k
  /\ pc[a] \in {"set", "del"} \/ (pc[a] = "expire" /\ Max(k) = 1)

\* NoMissedLock is not inductive: the attempt that it finds at EXPIRE may not be
\* the one that reached the limit.  The attempt that did is past EXPIRE, unless
\* the limit is one.
LockComing ==
  \A k \in Keys : fail[k] >= Max(k) =>
    (\E a \in Attempts : Locker(a, k)) \/ lost[k] \cap {"del", "incr"} # {}

LEMMA MaxIsNat == \A k \in Keys : Max(k) \in Nat \ {0}
  BY LockoutAssumption DEF Max

\* Going on to the next key concerns the attempt alone.
LEMMA NextKeyFrame ==
  ASSUME TypeOK, NEW a \in Attempts, NextKey(a)
  PROVE  /\ pc' \in [Attempts -> PCs] /\ pc'[a] \in {"idle", "incr"}
         /\ key' \in [Attempts -> Keys]
         /\ \A b \in Attempts \ {a} : pc'[b] = pc[b] /\ key'[b] = key[b]
  BY DEF TypeOK, NextKey, Goto, PCs, Keys

\* Every reachable state of the counters and of the attempts is well typed, and
\* only counters that exist carry an expiry.
THEOREM LockoutTypeCorrect == Spec => []TypeOK
<1>1. Init => TypeOK
  BY LockoutAssumption DEF Init, TypeOK, Keys, PCs
<1>2. TypeOK /\ [Next]_vars => TypeOK'
  <2> SUFFICES ASSUME TypeOK, [Next]_vars PROVE TypeOK'
    OBVIOUS
  <2> USE LockoutAssumption DEF TypeOK, Keys, PCs, loss, Count, Result
  <2>1. CASE UNCHANGED vars
    BY <2>1 DEF vars, attempt, loss
  <2>2. ASSUME NEW a \in Attempts, NEW u \in Accounts, NEW i \in Ips, CheckAccount(a, u, i)
        PROVE  TypeOK'
    BY <2>2 DEF CheckAccount, Goto
  <2>3. ASSUME NEW a \in Attempts, CheckIP(a) PROVE TypeOK'
    BY <2>3 DEF CheckIP, Goto
  <2>4. ASSUME NEW a \in Attempts, VerifyBad(a) PROVE TypeOK'
    BY <2>4 DEF VerifyBad, Goto
  <2>5. ASSUME NEW a \in Attempts, VerifyGood(a) PROVE TypeOK'
    BY <2>5 DEF VerifyGood, Goto
  <2>6. ASSUME NEW a \in Attempts, Incr(a) PROVE TypeOK'
    <3>1. pc' \in [Attempts -> PCs] /\ key' \in [Attempts -> Keys]
      <4>1. CASE NextKey(a)
        BY <4>1, NextKeyFrame
      <4>2. CASE UNCHANGED key /\ \E l \in PCs : Goto(a, l)
        BY <4>2 DEF Goto
      <4> QED
        BY <2>6, <4>1, <4>2 DEF Incr, Judge, CountUnseen
    <3>2. fail' \in [Keys -> Nat] /\ \A k \in ttl' : fail'[k] > 0
      BY <2>6 DEF Incr, CountUnseen
    <3>3. losses' \in 0..MaxLost
      BY <2>6 DEF Incr, CountUnseen, Lose
    <3>4. lost' \in [Keys -> SUBSET {"incr", "expire", "set", "del"}]
      BY <2>6 DEF Incr, CountUnseen, Lose
    <3> QED
      BY <2>6, <3>1, <3>2, <3>3, <3>4 DEF Incr
  <2>7. ASSUME NEW a \in Attempts, Expire(a) PROVE TypeOK'
    <3>1. pc' \in [Attempts -> PCs] /\ key' \in [Attempts -> Keys]
      <4>1. CASE NextKey(a)
        BY <4>1, NextKeyFrame
      <4>2. CASE UNCHANGED key /\ \E l \in PCs : Goto(a, l)
        BY <4>2 DEF Goto
      <4> QED
        BY <2>7, <4>1, <4>2 DEF Expire, Judge
    <3>2. lost' \in [Keys -> SUBSET {"incr", "expire", "set", "del"}] /\ losses' \in 0..MaxLost
      BY <2>7 DEF Expire, Lose
    <3>3. ttl' \in SUBSET Keys /\ \A k \in ttl' : fail'[k] > 0
      BY <2>7 DEF Expire
    <3> QED
      BY <2>7, <3>1, <3>2, <3>3 DEF Expire
  <2>8. ASSUME NEW a \in Attempts, SetLock(a) PROVE TypeOK'
    BY <2>8 DEF SetLock, Goto, Lose
  <2>9. ASSUME NEW a \in Attempts, DelFailures(a) PROVE TypeOK'
    <3>1. pc' \in [Attempts -> PCs] /\ key' \in [Attempts -> Keys]
      BY <2>9, NextKeyFrame DEF DelFailures
    <3>2. lost' \in [Keys -> SUBSET {"incr", "expire", "set", "del"}]
      BY <2>9 DEF DelFailures, Lose
    <3>3. fail' \in [Keys -> Nat] /\ ttl' \in SUBSET Keys /\ \A k \in ttl' : fail'[k] > 0
      BY <2>9 DEF DelFailures
    <3>4. losses' \in 0..MaxLost
      BY <2>9 DEF DelFailures, Lose
    <3> QED
      BY <2>9, <3>1, <3>2, <3>3, <3>4 DEF DelFailures
  <2>10. ASSUME NEW a \in Attempts, ClearFailures(a) PROVE TypeOK'
    BY <2>10 DEF ClearFailures, Goto
  <2>11. ASSUME NEW k \in Keys, FailureExpires(k) PROVE TypeOK'
    BY <2>11 DEF FailureExpires, attempt
  <2>12. ASSUME NEW k \in Keys, LockExpires(k) PROVE TypeOK'
    BY <2>12 DEF LockExpires, attempt
  <2> QED
    BY <2>1, <2>2, <2>3, <2>4, <2>5, <2>6, <2>7, <2>8, <2>9, <2>10, <2>11, <2>12
       DEF Next, Step
<1> QED
  BY <1>1, <1>2, PTL DEF Spec

\* However attempts interleave, a failure counter without an expiry has one on
\* its way, or its EXPIRE was lost, or the reply to one of its INCRs.
THEOREM CountersExpire == Spec => []CounterExpires
<1>1. Init => CounterExpires
  BY DEF Init, CounterExpires
<1>2. TypeOK /\ CounterExpires /\ [Next]_vars => CounterExpires'
  <2> SUFFICES ASSUME TypeOK, CounterExpires, [Next]_vars,
                      NEW k \in Keys, fail'[k] > 0, k \notin ttl'
               PROVE  \/ \E a \in Attempts : pc'[a] = "expire" /\ key'[a] = k
                      \/ lost'[k] \cap {"expire", "incr"} # {}
    BY DEF CounterExpires
  <2> DEFINE Goal == \/ \E a \in Attempts : pc'[a] = "expire" /\ key'[a] = k
                     \/ lost'[k] \cap {"expire", "incr"} # {}
             Due == fail[k] > 0 /\ k \notin ttl
  <2>0. Due => \/ \E a \in Attempts : pc[a] = "expire" /\ key[a] = k
               \/ lost[k] \cap {"expire", "incr"} # {}
    BY DEF CounterExpires
  <2> USE DEF TypeOK, PCs, loss
  <2>1. CASE UNCHANGED vars
    BY <2>0, <2>1 DEF vars, attempt, loss
  <2>2. ASSUME NEW a \in Attempts, NEW u \in Accounts, NEW i \in Ips, CheckAccount(a, u, i)
        PROVE  Goal
    BY <2>0, <2>2 DEF CheckAccount, Goto
  <2>3. ASSUME NEW a \in Attempts, CheckIP(a) PROVE Goal
    BY <2>0, <2>3 DEF CheckIP, Goto
  <2>4. ASSUME NEW a \in Attempts, VerifyBad(a) PROVE Goal
    BY <2>0, <2>4 DEF VerifyBad, Goto
  <2>5. ASSUME NEW a \in Attempts, VerifyGood(a) PROVE Goal
    BY <2>0, <2>5 DEF VerifyGood, Goto
  <2>6. ASSUME NEW a \in Attempts, Incr(a) PROVE Goal
    <3>1. CASE CountUnseen(a)
      <4>1. key[a] = k => "incr" \in lost'[k]
        BY <3>1 DEF CountUnseen, Lose
      <4>2. key[a] # k => Due /\ lost'[k] = lost[k]
        BY <2>6, <3>1 DEF Incr, CountUnseen, Lose
      <4>3. \A b \in Attempts : pc[b] = "expire" => pc'[b] = "expire" /\ key'[b] = key[b]
        BY <2>6, <3>1 DEF Incr, CountUnseen, Goto
      <4> QED
        BY <2>0, <4>1, <4>2, <4>3
    <3>2. CASE ~CountUnseen(a)
      BY <2>0, <2>6, <3>2 DEF Incr, Goto, Judge, NextKey
    <3> QED
      BY <2>6, <3>1, <3>2 DEF Incr
  <2>7. ASSUME NEW a \in Attempts, Expire(a) PROVE Goal
    <3>1. CASE key[a] = k
      <4>1. PICK r \in Result :
              /\ ttl' = IF r = "done" /\ fail[k] > 0 THEN ttl \cup {k} ELSE ttl
              /\ lost' = IF r = "lost" THEN [lost EXCEPT ![k] = @ \cup {"expire"}] ELSE lost
        BY <2>7, <3>1 DEF Expire, Lose
      <4>2. fail[k] > 0
        BY <2>7 DEF Expire
      <4>3. r = "lost" /\ "expire" \in lost'[k]
        BY <4>1, <4>2 DEF Result
      <4> QED
        BY <4>3
    <3>2. CASE key[a] # k
      <4>1. Due /\ lost'[k] = lost[k]
        BY <2>7, <3>2 DEF Expire, Lose
      <4>2. \A b \in Attempts \ {a} : pc'[b] = pc[b] /\ key'[b] = key[b]
        BY <2>7, NextKeyFrame DEF Expire, Judge, Goto
      <4> QED
        BY <2>0, <3>2, <4>1, <4>2
    <3> QED
      BY <3>1, <3>2
  <2>8. ASSUME NEW a \in Attempts, SetLock(a) PROVE Goal
    BY <2>0, <2>8 DEF SetLock, Goto, Lose
  <2>9. ASSUME NEW a \in Attempts, DelFailures(a) PROVE Goal
    BY <2>0, <2>9 DEF DelFailures, Goto, NextKey, Lose
  <2>10. ASSUME NEW a \in Attempts, ClearFailures(a) PROVE Goal
    BY <2>0, <2>10 DEF ClearFailures, Goto
  <2>11. ASSUME NEW j \in Keys, FailureExpires(j) PROVE Goal
    BY <2>0, <2>11 DEF FailureExpires, attempt
  <2>12. ASSUME NEW j \in Keys, LockExpires(j) PROVE Goal
    BY <2>0, <2>12 DEF LockExpires, attempt
  <2> QED
    BY <2>1, <2>2, <2>3, <2>4, <2>5, <2>6, <2>7, <2>8, <2>9, <2>10, <2>11, <2>12
       DEF Next, Step
<1> QED
  BY <1>1, <1>2, LockoutTypeCorrect, PTL DEF Spec

\* However attempts interleave, a counter that reaches its limit leads to a lock:
\* the attempt that took it there is on its way to lock the key.
THEOREM NoLockMissed == Spec => []NoMissedLock
<1>1. Init => LockComing
  BY MaxIsNat DEF Init, LockComing
<1>2. TypeOK /\ LockComing /\ [Next]_vars => LockComing'
  <2> SUFFICES ASSUME TypeOK, LockComing, [Next]_vars, NEW k \in Keys, fail'[k] >= Max(k)
               PROVE  (\E a \in Attempts : Locker(a, k)') \/ lost'[k] \cap {"del", "incr"} # {}
    BY DEF LockComing
  <2> DEFINE Goal == (\E a \in Attempts : Locker(a, k)') \/ lost'[k] \cap {"del", "incr"} # {}
  <2>0. fail[k] >= Max(k) => (\E a \in Attempts : Locker(a, k)) \/ lost[k] \cap {"del", "incr"} # {}
    BY DEF LockComing
  <2>m. Max(k) \in Nat \ {0}
    BY MaxIsNat
  <2> USE <2>m DEF TypeOK, PCs, Locker, loss
  <2>1. CASE UNCHANGED vars
    BY <2>0, <2>1 DEF vars, attempt, loss
  <2>2. ASSUME NEW a \in Attempts, NEW u \in Accounts, NEW i \in Ips, CheckAccount(a, u, i)
        PROVE  Goal
    BY <2>0, <2>2 DEF CheckAccount, Goto
  <2>3. ASSUME NEW a \in Attempts, CheckIP(a) PROVE Goal
    BY <2>0, <2>3 DEF CheckIP, Goto
  <2>4. ASSUME NEW a \in Attempts, VerifyBad(a) PROVE Goal
    BY <2>0, <2>4 DEF VerifyBad, Goto
  <2>5. ASSUME NEW a \in Attempts, VerifyGood(a) PROVE Goal
    BY <2>0, <2>5 DEF VerifyGood, Goto
  <2>6. ASSUME NEW a \in Attempts, Incr(a) PROVE Goal
    <3>1. CASE CountUnseen(a)
      <4>1. key[a] = k => "incr" \in lost'[k]
        BY <3>1 DEF CountUnseen, Lose
      <4>2. key[a] # k => fail'[k] = fail[k] /\ lost'[k] = lost[k]
        BY <3>1 DEF CountUnseen, Lose
      <4>3. \A b \in Attempts \ {a} : pc'[b] = pc[b] /\ key'[b] = key[b]
        BY <3>1 DEF CountUnseen, Goto
      <4> QED
        BY <2>0, <2>6, <4>1, <4>2, <4>3 DEF Incr
    <3>2. CASE ~CountUnseen(a)
      BY <2>0, <2>6, <3>2 DEF Incr, Goto, Judge, NextKey
    <3> QED
      BY <2>6, <3>1, <3>2 DEF Incr
  <2>7. ASSUME NEW a \in Attempts, Expire(a) PROVE Goal
    BY <2>0, <2>7 DEF Expire, Goto, Judge, NextKey, Lose
  <2>8. ASSUME NEW a \in Attempts, SetLock(a) PROVE Goal
    BY <2>0, <2>8 DEF SetLock, Goto, Lose
  <2>9. ASSUME NEW a \in Attempts, DelFailures(a) PROVE Goal
    <3>1. CASE key[a] = k
      <4>1. PICK r \in Result :
              /\ r = "done" => fail' = [fail EXCEPT ![k] = 0]
              /\ lost' = IF r = "lost" THEN [lost EXCEPT ![k] = @ \cup {"del"}] ELSE lost
        BY <2>9, <3>1 DEF DelFailures, Lose
      <4>2. r = "done" => fail'[k] = 0
        BY <4>1
      <4>3. r = "lost" /\ "del" \in lost'[k]
        BY <4>1, <4>2 DEF Result
      <4> QED
        BY <4>3
    <3>2. CASE key[a] # k
      <4>1. fail'[k] = fail[k] /\ lost'[k] = lost[k]
        BY <2>9, <3>2 DEF DelFailures, Lose
      <4>2. \A b \in Attempts \ {a} : pc'[b] = pc[b] /\ key'[b] = key[b]
        BY <2>9, NextKeyFrame DEF DelFailures
      <4> QED
        BY <2>0, <3>2, <4>1, <4>2
    <3> QED
      BY <3>1, <3>2
  <2>10. ASSUME NEW a \in Attempts, ClearFailures(a) PROVE Goal
    BY <2>0, <2>10 DEF ClearFailures, Goto
  <2>11. ASSUME NEW j \in Keys, FailureExpires(j) PROVE Goal
    BY <2>0, <2>11 DEF FailureExpires, attempt
  <2>12. ASSUME NEW j \in Keys, LockExpires(j) PROVE Goal
    BY <2>0, <2>12 DEF LockExpires, attempt
  <2> QED
    BY <2>1, <2>2, <2>3, <2>4, <2>5, <2>6, <2>7, <2>8, <2>9, <2>10, <2>11, <2>12
       DEF Next, Step
<1>3. LockComing => NoMissedLock
  BY DEF LockComing, NoMissedLock, Locker
<1> QED
  BY <1>1, <1>2, <1>3, LockoutTypeCorrect, PTL DEF Spec

-----------------------------------------------------------------------------
(* How often a key can be tried. *)

\* The wrong guess of a at k is counted in tried, and not yet in the counter,
\* or it took the counter to the limit and a is on its way to lock the key.
Holds(a, k) ==
  \/ key[a] = k /\ (pc[a] \in {"incr", "set"} \/ (pc[a] = "expire" /\ Max(k) = 1))
  \/ who[a][2] = k /\ key[a] = who[a][1] /\ pc[a] \in {"incr", "expire", "set", "del"}

\* a is about to restart the counter of k.
Wipes(a, k) == pc[a] = "del" /\ key[a] = k

\* a has passed the check of k and has no verdict yet.
Passes(a, k) ==
  \/ pc[a] = "verify" /\ k \in {who[a][1], who[a][2]}
  \/ pc[a] = "checkIP" /\ k = who[a][1]

Held(k) == {a \in Attempts : Holds(a, k)}
Wiping(k) == {a \in Attempts : Wipes(a, k)}
Passed(k) == {a \in Attempts : Passes(a, k)}

\* Failures the counter can take before one of them reaches the limit.
Room(k) == IF fail[k] < Max(k) THEN Max(k) - 1 - fail[k] ELSE 0

\* Guesses since the key was last cleared, and those that can still follow
\* before it is: on a locked key, one for every attempt that has passed the
\* check; on an open one, the room of the counter, the limit less one for every
\* restart of the counter that is under way, and one for every attempt whose
\* guess is not held.
LockedBudget(k) == tried[k] + Cardinality(Passed(k)) <= Max(k) * Cardinality(Attempts)
OpenBudget(k) ==
  \/ tried[k] = 0
  \/ tried[k] + Room(k) + (Max(k) - 1) * Cardinality(Wiping(k)) + Cardinality(Attempts)
       <= Max(k) * Cardinality(Attempts) + Cardinality(Held(k))
Budget(k) == IF k \in lock THEN LockedBudget(k) ELSE OpenBudget(k)

\* Between the check and the verdict an attempt is at its account.
OnPath(a) ==
  /\ pc[a] \in {"checkIP", "verify", "clear"} => key[a] = who[a][1]
  /\ pc[a] \in {"incr", "expire", "set", "del"} => key[a] \in {who[a][1], who[a][2]}

GuessInv ==
  /\ \A a \in Attempts : OnPath(a)
  /\ losses = 0 => \A k \in Keys : Budget(k)

Bit(b) == IF b THEN 1 ELSE 0

\* A set of attempts in which only one attempt changes.
LEMMA OneMoves ==
  ASSUME NEW S \in SUBSET Attempts, NEW T \in SUBSET Attempts, NEW a \in Attempts,
         \A b \in Attempts \ {a} : b \in S <=> b \in T
  PROVE  /\ Cardinality(S) \in Nat /\ Cardinality(T) \in Nat
         /\ Cardinality(T) = Cardinality(S) + Bit(a \in T) - Bit(a \in S)
<1>1. IsFiniteSet(S) /\ IsFiniteSet(T)
  BY LockoutAssumption, FS_Subset
<1>2. Cardinality(S) \in Nat /\ Cardinality(T) \in Nat
  BY <1>1, FS_CardinalityType
<1>3. CASE a \in S <=> a \in T
  <2>1. S = T BY <1>3
  <2> QED BY <1>2, <2>1 DEF Bit
<1>4. CASE a \in T /\ a \notin S
  <2>1. T = S \cup {a} BY <1>4
  <2>2. Cardinality(T) = Cardinality(S) + 1 BY <1>1, <1>4, <2>1, FS_AddElement
  <2> QED BY <1>2, <1>4, <2>2 DEF Bit
<1>5. CASE a \notin T /\ a \in S
  <2>1. T = S \ {a} BY <1>5
  <2>2. Cardinality(T) = Cardinality(S) - 1 BY <1>1, <1>5, <2>1, FS_RemoveElement
  <2> QED BY <1>2, <1>5, <2>2 DEF Bit
<1> QED BY <1>3, <1>4, <1>5

\* The sizes of the three sets, all disjoint, and of the whole.
LEMMA Sizes ==
  ASSUME NEW k
  PROVE  /\ Cardinality(Held(k)) \in Nat /\ Cardinality(Wiping(k)) \in Nat
         /\ Cardinality(Passed(k)) \in Nat /\ Cardinality(Attempts) \in Nat
         /\ Cardinality(Passed(k)) + Cardinality(Held(k)) <= Cardinality(Attempts)
         /\ Cardinality(Wiping(k)) <= Cardinality(Attempts)
         /\ \A a \in Attempts : ~Wipes(a, k) =>
              Cardinality(Wiping(k)) < Cardinality(Attempts)
<1>1. /\ Held(k) \in SUBSET Attempts /\ Wiping(k) \in SUBSET Attempts
      /\ Passed(k) \in SUBSET Attempts /\ IsFiniteSet(Attempts)
  BY LockoutAssumption DEF Held, Wiping, Passed
<1>2. /\ IsFiniteSet(Held(k)) /\ IsFiniteSet(Wiping(k)) /\ IsFiniteSet(Passed(k))
      /\ Cardinality(Wiping(k)) <= Cardinality(Attempts)
      /\ Cardinality(Attempts) = Cardinality(Wiping(k)) => Attempts = Wiping(k)
  BY <1>1, FS_Subset
<1>3. /\ Cardinality(Held(k)) \in Nat /\ Cardinality(Wiping(k)) \in Nat
      /\ Cardinality(Passed(k)) \in Nat /\ Cardinality(Attempts) \in Nat
  BY <1>1, <1>2, FS_CardinalityType
<1>4. Cardinality(Passed(k)) + Cardinality(Held(k)) <= Cardinality(Attempts)
  <2>1. Passed(k) \in SUBSET (Attempts \ Held(k)) /\ Attempts \cap Held(k) = Held(k)
    BY DEF Held, Passed, Holds, Passes
  <2>2. /\ IsFiniteSet(Attempts \ Held(k))
        /\ Cardinality(Attempts \ Held(k)) = Cardinality(Attempts) - Cardinality(Held(k))
    BY <1>1, <2>1, FS_Difference
  <2>3. Cardinality(Passed(k)) <= Cardinality(Attempts \ Held(k))
    BY <2>1, <2>2, FS_Subset
  <2> QED BY <1>3, <2>2, <2>3
<1>5. ASSUME NEW a \in Attempts, ~Wipes(a, k)
      PROVE  Cardinality(Wiping(k)) < Cardinality(Attempts)
  <2>1. Wiping(k) # Attempts BY <1>5 DEF Wiping
  <2> QED BY <1>2, <1>3, <2>1
<1> QED BY <1>2, <1>3, <1>4, <1>5

\* A step of one attempt changes the sets by that attempt at most.
Others(a) ==
  \A b \in Attempts \ {a} : pc'[b] = pc[b] /\ key'[b] = key[b] /\ who'[b] = who[b]

LEMMA SetsMove ==
  ASSUME NEW k, NEW a \in Attempts, Others(a)
  PROVE  /\ Cardinality(Held(k))' = Cardinality(Held(k)) + Bit(Holds(a, k)') - Bit(Holds(a, k))
         /\ Cardinality(Wiping(k))'
              = Cardinality(Wiping(k)) + Bit(Wipes(a, k)') - Bit(Wipes(a, k))
         /\ Cardinality(Passed(k))'
              = Cardinality(Passed(k)) + Bit(Passes(a, k)') - Bit(Passes(a, k))
<1>1. ASSUME NEW b \in Attempts \ {a}
      PROVE  /\ Holds(b, k)' <=> Holds(b, k)
             /\ Wipes(b, k)' <=> Wipes(b, k)
             /\ Passes(b, k)' <=> Passes(b, k)
  BY <1>1 DEF Others, Holds, Wipes, Passes
<1>2. Cardinality(Held(k)') = Cardinality(Held(k)) + Bit(a \in Held(k)') - Bit(a \in Held(k))
  <2>1. \A b \in Attempts \ {a} : b \in Held(k) <=> b \in Held(k)'
    BY <1>1 DEF Held
  <2> QED BY <2>1, OneMoves DEF Held
<1>3. Cardinality(Wiping(k)')
        = Cardinality(Wiping(k)) + Bit(a \in Wiping(k)') - Bit(a \in Wiping(k))
  <2>1. \A b \in Attempts \ {a} : b \in Wiping(k) <=> b \in Wiping(k)'
    BY <1>1 DEF Wiping
  <2> QED BY <2>1, OneMoves DEF Wiping
<1>4. Cardinality(Passed(k)')
        = Cardinality(Passed(k)) + Bit(a \in Passed(k)') - Bit(a \in Passed(k))
  <2>1. \A b \in Attempts \ {a} : b \in Passed(k) <=> b \in Passed(k)'
    BY <1>1 DEF Passed
  <2> QED BY <2>1, OneMoves DEF Passed
<1>5. /\ a \in Held(k) <=> Holds(a, k)
      /\ a \in Held(k)' <=> Holds(a, k)'
      /\ a \in Wiping(k) <=> Wipes(a, k)
      /\ a \in Wiping(k)' <=> Wipes(a, k)'
      /\ a \in Passed(k) <=> Passes(a, k)
      /\ a \in Passed(k)' <=> Passes(a, k)'
  BY DEF Held, Wiping, Passed
<1> QED BY <1>2, <1>3, <1>4, <1>5 DEF Bit

\* What a step does to the budget of a key is arithmetic: m + 1 is the limit,
\* t the guesses, r the room, w, h and p the sizes of the sets, n the attempts.
LEMMA StillOpen ==
  ASSUME NEW m \in Nat, NEW n \in Nat, NEW t \in Nat, NEW r \in Nat, NEW s \in Nat,
         NEW w \in Nat, NEW v \in Nat, NEW h \in Nat, NEW g \in Nat,
         t + r + m * w + n <= (m + 1) * n + h,
         \/ v = w /\ s <= r + (g - h)
         \/ v + 1 = w /\ s <= r + m /\ h <= g
  PROVE  t + s + m * v + n <= (m + 1) * n + g
<1>1. m * w \in Nat /\ m * v \in Nat /\ (m + 1) * n \in Nat
  OBVIOUS
<1>2. v + 1 = w => m * w = m * v + m
  OBVIOUS
<1> QED BY <1>1, <1>2

LEMMA FirstGuess ==
  ASSUME NEW m \in Nat, NEW n \in Nat, NEW r \in Nat, NEW w \in Nat, NEW h \in Nat,
         r <= m, w < n
  PROVE  1 + r + m * w + n <= (m + 1) * n + (h + 1)
<1>1. m * w + m <= m * n
  <2>1. n = w + 1 + (n - w - 1) /\ n - w - 1 \in Nat
    OBVIOUS
  <2>2. m * n = m * w + m + m * (n - w - 1)
    BY <2>1
  <2>3. m * (n - w - 1) \in Nat
    BY <2>1
  <2> QED BY <2>2, <2>3
<1>2. (m + 1) * n = m * n + n
  OBVIOUS
<1>3. m * w \in Nat /\ m * n \in Nat
  OBVIOUS
<1> QED BY <1>1, <1>2, <1>3

\* An open budget bounds the guesses, with one more for each that has passed.
LEMMA OpenBounds ==
  ASSUME TypeOK, NEW k \in Keys, OpenBudget(k)
  PROVE  tried[k] + Cardinality(Passed(k)) <= Max(k) * Cardinality(Attempts)
<1> DEFINE n == Cardinality(Attempts)
           m == Max(k) - 1
           w == Cardinality(Wiping(k))
           h == Cardinality(Held(k))
           q == Cardinality(Passed(k))
           t == tried[k]
<1>1. /\ n \in Nat /\ w \in Nat /\ h \in Nat /\ q \in Nat /\ q + h <= n
      /\ Max(k) \in Nat \ {0} /\ t \in Nat /\ Room(k) \in Nat
  BY Sizes, MaxIsNat DEF TypeOK, Room
<1>2. t = 0 \/ t + Room(k) + m * w + n <= Max(k) * n + h
  BY DEF OpenBudget
<1>3. m \in Nat BY <1>1
<1>4. Max(k) = m + 1 BY <1>1
<1> HIDE DEF n, m, w, h, q, t
<1>5. m * w \in Nat /\ m * n \in Nat /\ (m + 1) * n = m * n + n
  BY <1>1, <1>3
<1>6. t + q <= (m + 1) * n
  BY <1>1, <1>2, <1>3, <1>4, <1>5
<1> QED BY <1>4, <1>6 DEF n, t, q

\* A step of one attempt that leaves the lock and the guesses at a key alone.
LEMMA BudgetMoves ==
  ASSUME TypeOK, TypeOK', NEW k \in Keys, Budget(k), NEW a \in Attempts, Others(a),
         tried'[k] = tried[k], k \in lock' <=> k \in lock,
         k \in lock => (Passes(a, k)' => Passes(a, k)),
         k \notin lock =>
           \/ /\ Wipes(a, k)' <=> Wipes(a, k)
              /\ Room(k)' <= Room(k) + (Bit(Holds(a, k)') - Bit(Holds(a, k)))
           \/ Wipes(a, k) /\ ~Wipes(a, k)' /\ (Holds(a, k) => Holds(a, k)')
  PROVE  Budget(k)'
<1> DEFINE n == Cardinality(Attempts)
           m == Max(k) - 1
           t == tried[k]
           r == Room(k)
           s == Room(k)'
           w == Cardinality(Wiping(k))
           v == Cardinality(Wiping(k))'
           h == Cardinality(Held(k))
           g == Cardinality(Held(k))'
           q == Cardinality(Passed(k))
           o == Cardinality(Passed(k))'
           x == Bit(Holds(a, k)') - Bit(Holds(a, k))
<1>1. n \in Nat /\ w \in Nat /\ h \in Nat /\ q \in Nat
  BY Sizes
<1>2. /\ g = h + x
      /\ v = w + Bit(Wipes(a, k)') - Bit(Wipes(a, k))
      /\ o = q + Bit(Passes(a, k)') - Bit(Passes(a, k))
  BY SetsMove
<1>3. v \in Nat /\ g \in Nat /\ o \in Nat
  <2>1. /\ Held(k)' \in SUBSET Attempts /\ Wiping(k)' \in SUBSET Attempts
        /\ Passed(k)' \in SUBSET Attempts
    BY DEF Held, Wiping, Passed
  <2> QED BY <2>1, OneMoves
<1>4. /\ Max(k) \in Nat \ {0} /\ m \in Nat /\ Max(k) = m + 1
      /\ t \in Nat /\ tried'[k] = t
      /\ r \in Nat /\ s \in Nat /\ s <= m
  <2>1. Max(k) \in Nat \ {0} /\ tried[k] \in Nat /\ fail[k] \in Nat /\ fail'[k] \in Nat
    BY MaxIsNat DEF TypeOK
  <2>2. m \in Nat /\ Max(k) = m + 1
    BY <2>1
  <2>3. r \in Nat
    BY <2>1 DEF Room
  <2>4. s = (IF fail'[k] < Max(k) THEN Max(k) - 1 - fail'[k] ELSE 0)
    BY DEF Room, Max
  <2> QED BY <2>1, <2>2, <2>3, <2>4
<1>5. CASE k \in lock
  <2>1. o <= q BY <1>1, <1>2, <1>5 DEF Bit
  <2>2. t + q <= Max(k) * n BY <1>5 DEF Budget, LockedBudget
  <2>3. t + o <= Max(k) * n
    <3> HIDE DEF t, o, q, n
    <3>1. Max(k) * n \in Nat BY <1>1, <1>4
    <3> QED BY <2>1, <2>2, <3>1, <1>1, <1>3, <1>4
  <2> QED BY <2>3, <1>4, <1>5 DEF Budget, LockedBudget, Max
<1>6. CASE k \notin lock
  <2>1. t = 0 \/ t + r + m * w + n <= (m + 1) * n + h
    BY <1>4, <1>6 DEF Budget, OpenBudget
  <2>2. CASE t = 0
    BY <2>2, <1>4, <1>6 DEF Budget, OpenBudget
  <2>3. CASE t + r + m * w + n <= (m + 1) * n + h
    <3>1. \/ v = w /\ s <= r + (g - h)
          \/ v + 1 = w /\ s <= r + m /\ h <= g
      <4>1. CASE /\ Wipes(a, k)' <=> Wipes(a, k)
                 /\ s <= r + x
        <5>1. v = w BY <1>1, <1>2, <4>1 DEF Bit
        <5>2. x \in Int BY DEF Bit
        <5>3. g - h = x
          <6> HIDE DEF g, h, x
          <6> QED BY <1>1, <1>2, <5>2
        <5> QED BY <4>1, <5>1, <5>3
      <4>2. CASE Wipes(a, k) /\ ~Wipes(a, k)' /\ (Holds(a, k) => Holds(a, k)')
        <5>1. v + 1 = w /\ h <= g BY <1>1, <1>2, <4>2 DEF Bit
        <5> HIDE DEF s, r, m
        <5> QED BY <5>1, <1>4
      <4> QED BY <1>6, <4>1, <4>2
    <3>2. t + s + m * v + n <= (m + 1) * n + g
      <4> HIDE DEF t, s, m, v, n, g, r, w, h
      <4> QED BY <1>1, <1>3, <1>4, <2>3, <3>1, StillOpen
    <3> QED BY <3>2, <1>4, <1>6 DEF Budget, OpenBudget, Max
  <2> QED BY <2>1, <2>2, <2>3
<1> QED BY <1>5, <1>6

\* A wrong guess: paid for by the attempt, which now holds it.
LEMMA BudgetPays ==
  ASSUME TypeOK, TypeOK', NEW k \in Keys, Budget(k), NEW a \in Attempts, Others(a),
         tried'[k] = tried[k] + 1, lock' = lock, fail' = fail,
         Passes(a, k), ~Passes(a, k)', Holds(a, k)', ~Wipes(a, k)'
  PROVE  Budget(k)'
<1> DEFINE n == Cardinality(Attempts)
           m == Max(k) - 1
           t == tried[k]
           r == Room(k)
           w == Cardinality(Wiping(k))
           v == Cardinality(Wiping(k))'
           h == Cardinality(Held(k))
           g == Cardinality(Held(k))'
           q == Cardinality(Passed(k))
           o == Cardinality(Passed(k))'
<1>0. ~Holds(a, k) /\ ~Wipes(a, k)
  BY DEF Passes, Holds, Wipes
<1>1. n \in Nat /\ w \in Nat /\ h \in Nat /\ q \in Nat /\ w < n
  BY <1>0, Sizes
<1>2. g = h + 1 /\ v = w /\ o = q - 1
  BY <1>0, <1>1, SetsMove DEF Bit
<1>4. /\ Max(k) \in Nat \ {0} /\ m \in Nat /\ Max(k) = m + 1
      /\ t \in Nat /\ tried'[k] = t + 1
      /\ r \in Nat /\ r <= m /\ Room(k)' = r
  <2>1. Max(k) \in Nat \ {0} /\ tried[k] \in Nat /\ fail[k] \in Nat
    BY MaxIsNat DEF TypeOK
  <2>2. m \in Nat /\ Max(k) = m + 1
    BY <2>1
  <2>3. r \in Nat /\ r <= m
    BY <2>1 DEF Room
  <2>4. Room(k)' = r
    BY DEF Room, Max
  <2> QED BY <2>1, <2>2, <2>3, <2>4
<1>5. CASE k \in lock
  <2>1. t + q <= Max(k) * n BY <1>5 DEF Budget, LockedBudget
  <2>2. (t + 1) + o <= Max(k) * n
    <3> HIDE DEF t, o, q, n
    <3>1. Max(k) * n \in Nat BY <1>1, <1>4
    <3> QED BY <2>1, <3>1, <1>1, <1>2, <1>4
  <2> QED BY <2>2, <1>4, <1>5 DEF Budget, LockedBudget, Max
<1>6. CASE k \notin lock
  <2>1. t = 0 \/ t + r + m * w + n <= (m + 1) * n + h
    BY <1>4, <1>6 DEF Budget, OpenBudget
  <2>2. (t + 1) + r + m * v + n <= (m + 1) * n + g
    <3> HIDE DEF t, m, v, n, g, r, w, h
    <3>1. CASE t = 0
      BY <3>1, <1>1, <1>2, <1>4, FirstGuess
    <3>2. CASE t + r + m * w + n <= (m + 1) * n + h
      <4>1. m * w \in Nat /\ (m + 1) * n \in Nat
        BY <1>1, <1>4
      <4> QED BY <3>2, <4>1, <1>1, <1>2, <1>4
    <3> QED BY <2>1, <3>1, <3>2
  <2> QED BY <2>2, <1>4, <1>6 DEF Budget, OpenBudget, Max
<1> QED BY <1>5, <1>6

\* The key is locked: what has passed may still guess.
LEMMA BudgetLocks ==
  ASSUME TypeOK, NEW k \in Keys, Budget(k), NEW a \in Attempts, Others(a),
         tried' = tried, k \in lock', ~Passes(a, k)'
  PROVE  Budget(k)'
<1> DEFINE n == Cardinality(Attempts)
           t == tried[k]
           q == Cardinality(Passed(k))
           o == Cardinality(Passed(k))'
<1>1. n \in Nat /\ q \in Nat
  BY Sizes
<1>2. o = q - Bit(Passes(a, k))
  BY SetsMove, <1>1 DEF Bit
<1>3. t + q <= Max(k) * n
  BY OpenBounds DEF Budget, LockedBudget
<1>4. t \in Nat /\ Max(k) \in Nat
  BY MaxIsNat DEF TypeOK
<1>5. t + o <= Max(k) * n
  <2>1. o \in {q, q - 1} BY <1>1, <1>2 DEF Bit
  <2> HIDE DEF t, o, q, n
  <2>2. Max(k) * n \in Nat BY <1>1, <1>4
  <2> QED BY <2>1, <2>2, <1>1, <1>3, <1>4
<1> QED BY <1>5 DEF Budget, LockedBudget, Max

\* The key is cleared, or its lock or its window is over.
LEMMA BudgetRestarts ==
  ASSUME NEW k \in Keys, tried'[k] = 0, k \notin lock'
  PROVE  Budget(k)'
BY DEF Budget, OpenBudget

\* What recordFailure does after a command, seen from the attempt.
LEMMA NextKeyGoes ==
  ASSUME TypeOK, NEW a \in Attempts, NextKey(a)
  PROVE  \/ key[a] = who[a][1] /\ key'[a] = who[a][2] /\ pc'[a] = "incr"
         \/ key[a] # who[a][1] /\ key'[a] = key[a] /\ pc'[a] = "idle"
  BY DEF TypeOK, NextKey, Goto

\* An account is no address.
LEMMA TwoKeys ==
  ASSUME TypeOK, NEW a \in Attempts
  PROVE  who[a][1] \in Accounts /\ who[a][2] \in Ips /\ who[a][1] # who[a][2]
  BY LockoutAssumption DEF TypeOK

\* Every step keeps an attempt on its path.
LEMMA PathKept ==
  ASSUME TypeOK, \A a \in Attempts : OnPath(a), [Next]_vars
  PROVE  \A a \in Attempts : OnPath(a)'
<1>1. ASSUME NEW a \in Attempts, Others(a), OnPath(a)'
      PROVE  \A b \in Attempts : OnPath(b)'
  <2>1. ASSUME NEW b \in Attempts, b # a PROVE OnPath(b)'
    BY <1>1, <2>1 DEF Others, OnPath
  <2> QED BY <1>1, <2>1
<1>2. ASSUME UNCHANGED attempt PROVE \A b \in Attempts : OnPath(b)'
  BY <1>2 DEF attempt, OnPath
<1>3. ASSUME NEW a \in Attempts, NEW u \in Accounts, NEW i \in Ips, CheckAccount(a, u, i)
      PROVE  Others(a) /\ OnPath(a)'
  BY <1>3 DEF CheckAccount, Goto, Others, OnPath, TypeOK
<1>4. ASSUME NEW a \in Attempts, CheckIP(a) \/ VerifyBad(a) \/ VerifyGood(a)
      PROVE  Others(a) /\ OnPath(a)'
  BY <1>4 DEF CheckIP, VerifyBad, VerifyGood, Goto, Others, OnPath, TypeOK
<1>5. ASSUME NEW a \in Attempts, who' = who,
             \/ NextKey(a)
             \/ key' = key /\ \E l \in {"idle", "incr", "expire", "set", "del"} : Goto(a, l),
             key[a] \in {who[a][1], who[a][2]}
      PROVE  Others(a) /\ OnPath(a)'
  <2>1. CASE NextKey(a)
    BY <1>5, <2>1, NextKeyFrame, NextKeyGoes DEF Others, OnPath
  <2>2. CASE key' = key /\ \E l \in {"idle", "incr", "expire", "set", "del"} : Goto(a, l)
    BY <1>5, <2>2 DEF Goto, Others, OnPath, TypeOK
  <2> QED BY <1>5, <2>1, <2>2
<1>6. ASSUME NEW a \in Attempts, Incr(a) \/ Expire(a) \/ SetLock(a) \/ DelFailures(a)
      PROVE  Others(a) /\ OnPath(a)'
  <2>1. key[a] \in {who[a][1], who[a][2]} /\ who' = who
    BY <1>6 DEF OnPath, Incr, Expire, SetLock, DelFailures
  <2>2. NextKey(a) \/ (key' = key /\ \E l \in {"idle", "incr", "expire", "set", "del"} : Goto(a, l))
    BY <1>6 DEF Incr, CountUnseen, Expire, SetLock, DelFailures, Judge
  <2> QED BY <1>5, <2>1, <2>2
<1>7. ASSUME NEW a \in Attempts, ClearFailures(a) PROVE Others(a) /\ OnPath(a)'
  BY <1>7 DEF ClearFailures, Goto, Others, OnPath, TypeOK
<1>8. ASSUME NEW k \in Keys, FailureExpires(k) \/ LockExpires(k) PROVE UNCHANGED attempt
  BY <1>8 DEF FailureExpires, LockExpires
<1> QED BY <1>1, <1>2, <1>3, <1>4, <1>6, <1>7, <1>8 DEF Next, Step, vars

\* Before the verdict nothing is held and nothing restarts.
LEMMA ChecksKeepBudget ==
  ASSUME TypeOK, TypeOK', NEW k \in Keys, Budget(k), NEW a \in Attempts,
         \/ \E u \in Accounts, i \in Ips : CheckAccount(a, u, i)
         \/ CheckIP(a)
         \/ VerifyGood(a)
  PROVE  Budget(k)'
<1>1. UNCHANGED <<fail, lock, tried>>
  BY DEF CheckAccount, CheckIP, VerifyGood
<1>2. Others(a)
  BY DEF CheckAccount, CheckIP, VerifyGood, Goto, Others, TypeOK
<1>3. pc[a] \in {"idle", "checkIP", "verify"} /\ pc'[a] \in {"idle", "checkIP", "verify", "clear"}
  BY DEF CheckAccount, CheckIP, VerifyGood, Goto, TypeOK
<1>4. /\ ~Holds(a, k) /\ ~Holds(a, k)' /\ ~Wipes(a, k) /\ ~Wipes(a, k)'
  BY <1>3 DEF Holds, Wipes
<1>5. k \in lock => (Passes(a, k)' => Passes(a, k))
  <2>1. ASSUME NEW u \in Accounts, NEW i \in Ips, CheckAccount(a, u, i), k \in lock
        PROVE  ~Passes(a, k)'
    <3>1. pc'[a] = "checkIP" /\ who'[a] = <<u, i>> /\ u \notin lock
      BY <2>1 DEF CheckAccount, Goto, TypeOK
    <3> QED BY <2>1, <3>1 DEF Passes
  <2>2. CASE CheckIP(a)
    <3>1. pc[a] = "checkIP" /\ who' = who
      BY <2>2 DEF CheckIP
    <3>2. pc'[a] = "idle" \/ (pc'[a] = "verify" /\ who[a][2] \notin lock)
      BY <2>2 DEF CheckIP, Goto, TypeOK
    <3> QED BY <3>1, <3>2 DEF Passes
  <2>3. CASE VerifyGood(a)
    <3>1. pc'[a] \in {"clear", "idle"}
      BY <2>3 DEF VerifyGood, Goto, TypeOK
    <3> QED BY <3>1 DEF Passes
  <2> QED BY <2>1, <2>2, <2>3
<1>6. Room(k)' = Room(k) /\ Room(k) \in Int
  <2>1. fail[k] \in Nat /\ Max(k) \in Nat BY MaxIsNat DEF TypeOK
  <2> QED BY <1>1, <2>1 DEF Room, Max
<1>7. Bit(Holds(a, k)') = 0 /\ Bit(Holds(a, k)) = 0
  BY <1>4 DEF Bit
<1>8. Room(k)' <= Room(k) + (Bit(Holds(a, k)') - Bit(Holds(a, k)))
  BY <1>6, <1>7
<1> QED BY <1>1, <1>2, <1>4, <1>5, <1>8, BudgetMoves

LEMMA GuessKeepsBudget ==
  ASSUME TypeOK, TypeOK', NEW k \in Keys, Budget(k), NEW a \in Attempts,
         OnPath(a), VerifyBad(a)
  PROVE  Budget(k)'
<1>1. UNCHANGED <<fail, lock, key, who>> /\ pc[a] = "verify" /\ pc'[a] = "incr"
  BY DEF VerifyBad, Goto, TypeOK
<1>2. Others(a)
  BY <1>1 DEF VerifyBad, Goto, Others, TypeOK
<1>3. key[a] = who[a][1] /\ key'[a] = key[a] /\ who'[a] = who[a]
  BY <1>1 DEF OnPath
<1>4. ~Wipes(a, k) /\ ~Wipes(a, k)' /\ ~Passes(a, k)' /\ ~Holds(a, k)
  BY <1>1 DEF Wipes, Passes, Holds
<1>5. CASE k \in {who[a][1], who[a][2]}
  <2>1. tried'[k] = tried[k] + 1
    BY <1>5 DEF VerifyBad
  <2>2. Passes(a, k) /\ Holds(a, k)'
    BY <1>1, <1>3, <1>5 DEF Passes, Holds
  <2> QED BY <1>1, <1>2, <1>4, <2>1, <2>2, BudgetPays
<1>6. CASE k \notin {who[a][1], who[a][2]}
  <2>1. tried'[k] = tried[k]
    <3>1. tried'[k] = tried[k] + 0 /\ tried[k] \in Nat
      BY <1>6 DEF VerifyBad, TypeOK
    <3> QED BY <3>1
  <2>2. ~Holds(a, k)'
    BY <1>3, <1>6 DEF Holds
  <2>3. Bit(Holds(a, k)') = 0 /\ Bit(Holds(a, k)) = 0
    BY <1>4, <2>2 DEF Bit
  <2>4. Room(k)' = Room(k) /\ Room(k) \in Int
    <3>1. fail[k] \in Nat /\ Max(k) \in Nat BY MaxIsNat DEF TypeOK
    <3> QED BY <1>1, <3>1 DEF Room, Max
  <2>5. Room(k)' <= Room(k) + (Bit(Holds(a, k)') - Bit(Holds(a, k)))
    BY <2>3, <2>4
  <2> QED BY <1>1, <1>2, <1>4, <2>1, <2>5, BudgetMoves
<1> QED BY <1>5, <1>6

\* With the counter at c an attempt holds on to its guess if it has to lock
\* the key, or if the guess at the address is still to be counted.
LEMMA JudgeHolds ==
  ASSUME TypeOK, NEW a \in Attempts, NEW c \in Nat, NEW k \in Keys,
         key[a] \in {who[a][1], who[a][2]}, who' = who, Judge(a, c)
  PROVE  /\ Others(a) /\ pc'[a] \in {"set", "incr", "idle"}
         /\ key[a] = k => (Holds(a, k)' <=> c >= Max(k))
         /\ key[a] # k => (Holds(a, k)' <=> (who[a][2] = k /\ key[a] = who[a][1]))
         /\ ~Wipes(a, k)' /\ ~Passes(a, k)'
<1>1. who[a][1] # who[a][2] /\ who'[a] = who[a]
  BY TwoKeys
<1>2. CASE c >= Max(key[a])
  <2>1. pc'[a] = "set" /\ key' = key /\ Others(a)
    BY <1>2 DEF Judge, Goto, TypeOK, Others
  <2>2. key[a] = k => (Holds(a, k)' /\ c >= Max(k))
    BY <1>2, <2>1 DEF Holds
  <2>3. key[a] # k => (Holds(a, k)' <=> (who[a][2] = k /\ key[a] = who[a][1]))
    BY <1>1, <2>1 DEF Holds
  <2> QED BY <2>1, <2>2, <2>3 DEF Wipes, Passes
<1>3. CASE ~(c >= Max(key[a]))
  <2>0. NextKey(a) BY <1>3 DEF Judge
  <2>1. Others(a)
    BY <2>0, NextKeyFrame DEF Others
  <2>2. \/ key[a] = who[a][1] /\ key'[a] = who[a][2] /\ pc'[a] = "incr"
        \/ key[a] # who[a][1] /\ key'[a] = key[a] /\ pc'[a] = "idle"
    BY <2>0, NextKeyGoes
  <2>3. key[a] = k => ~Holds(a, k)' /\ ~(c >= Max(k))
    BY <1>1, <1>3, <2>2 DEF Holds
  <2>4. key[a] # k => (Holds(a, k)' <=> (who[a][2] = k /\ key[a] = who[a][1]))
    BY <1>1, <2>2 DEF Holds
  <2> QED BY <2>1, <2>2, <2>3, <2>4 DEF Wipes, Passes
<1> QED BY <1>2, <1>3

\* INCR: the guess moves from the attempt into the counter, or stays with the
\* attempt that has to lock the key.
LEMMA IncrKeepsBudget ==
  ASSUME TypeOK, TypeOK', NEW k \in Keys, Budget(k), NEW a \in Attempts,
         OnPath(a), Incr(a), losses' = losses
  PROVE  Budget(k)'
<1>1. /\ pc[a] = "incr" /\ UNCHANGED <<lock, who, tried>>
      /\ fail' = [fail EXCEPT ![key[a]] = @ + 1]
      /\ IF fail[key[a]] = 0 THEN Goto(a, "expire") /\ UNCHANGED key
                             ELSE Judge(a, fail[key[a]] + 1)
  BY LockoutAssumption DEF Incr, CountUnseen, Lose, Count, TypeOK, loss
<1>2. key[a] \in {who[a][1], who[a][2]} /\ key[a] \in Keys
  BY <1>1 DEF OnPath, TypeOK
<1>3. ~Wipes(a, k) /\ ~Passes(a, k) /\ who[a][1] # who[a][2] /\ who'[a] = who[a]
  BY <1>1, TwoKeys DEF Wipes, Passes
<1>4. Holds(a, k) <=> key[a] = k \/ (who[a][2] = k /\ key[a] = who[a][1])
  BY <1>1 DEF Holds
<1>5. /\ Max(k) \in Nat \ {0} /\ fail[k] \in Nat
      /\ fail'[k] = IF key[a] = k THEN fail[k] + 1 ELSE fail[k]
  BY <1>1, MaxIsNat DEF TypeOK
<1>6. /\ Room(k) = (IF fail[k] < Max(k) THEN Max(k) - 1 - fail[k] ELSE 0)
      /\ Room(k)' = (IF fail'[k] < Max(k) THEN Max(k) - 1 - fail'[k] ELSE 0)
  BY DEF Room, Max
<1>7. /\ Others(a) /\ ~Wipes(a, k)' /\ ~Passes(a, k)'
      /\ key[a] = k => (Holds(a, k)' <=> fail[k] + 1 >= Max(k))
      /\ key[a] # k => (Holds(a, k)' <=> (who[a][2] = k /\ key[a] = who[a][1]))
  <2>1. CASE fail[key[a]] = 0
    <3>1. Others(a) /\ pc'[a] = "expire" /\ key' = key
      BY <1>1, <2>1 DEF Goto, Others, TypeOK
    <3>2. key[a] = k => (Holds(a, k)' <=> Max(k) = 1)
      BY <1>3, <3>1 DEF Holds, Max
    <3>3. key[a] = k => (Max(k) = 1 <=> fail[k] + 1 >= Max(k))
      BY <1>5, <2>1
    <3>4. key[a] # k => (Holds(a, k)' <=> (who[a][2] = k /\ key[a] = who[a][1]))
      BY <1>3, <3>1 DEF Holds
    <3> QED BY <3>1, <3>2, <3>3, <3>4 DEF Wipes, Passes
  <2>2. CASE fail[key[a]] # 0
    <3>1. PICK c \in Nat : c = fail[key[a]] + 1 /\ Judge(a, c)
      BY <1>1, <1>2, <2>2 DEF TypeOK
    <3> QED BY <1>1, <1>2, <3>1, JudgeHolds
  <2> QED BY <2>1, <2>2
<1>8. Room(k)' <= Room(k) + (Bit(Holds(a, k)') - Bit(Holds(a, k)))
  <2>1. CASE key[a] = k /\ fail[k] + 1 >= Max(k)
    <3>1. Holds(a, k) /\ Holds(a, k)' BY <1>4, <1>7, <2>1
    <3>2. Bit(Holds(a, k)) = 1 /\ Bit(Holds(a, k)') = 1 BY <3>1 DEF Bit
    <3>3. Room(k)' <= Room(k) /\ Room(k)' \in Int /\ Room(k) \in Int
      BY <1>5, <1>6, <2>1
    <3> QED BY <3>2, <3>3
  <2>2. CASE key[a] = k /\ ~(fail[k] + 1 >= Max(k))
    <3>1. Holds(a, k) /\ ~Holds(a, k)' BY <1>4, <1>7, <2>2
    <3>2. Bit(Holds(a, k)) = 1 /\ Bit(Holds(a, k)') = 0 BY <3>1 DEF Bit
    <3>3. Room(k)' = Room(k) - 1 /\ Room(k) \in Int
      BY <1>5, <1>6, <2>2
    <3> QED BY <3>2, <3>3
  <2>3. CASE key[a] # k
    <3>1. Holds(a, k) <=> Holds(a, k)' BY <1>4, <1>7, <2>3
    <3>2. Bit(Holds(a, k)) = Bit(Holds(a, k)') /\ Bit(Holds(a, k)) \in Int
      BY <3>1 DEF Bit
    <3>3. Room(k)' = Room(k) /\ Room(k) \in Int
      BY <1>5, <1>6, <2>3
    <3> QED BY <3>2, <3>3
  <2> QED BY <2>1, <2>2, <2>3
<1> QED BY <1>1, <1>3, <1>7, <1>8, BudgetMoves

LEMMA ExpireKeepsBudget ==
  ASSUME TypeOK, TypeOK', NEW k \in Keys, Budget(k), NEW a \in Attempts,
         OnPath(a), Expire(a)
  PROVE  Budget(k)'
<1>1. pc[a] = "expire" /\ UNCHANGED <<fail, lock, who, tried>> /\ Judge(a, 1)
  BY DEF Expire
<1>2. key[a] \in {who[a][1], who[a][2]}
  BY <1>1 DEF OnPath
<1>3. ~Wipes(a, k) /\ ~Passes(a, k) /\ who[a][1] # who[a][2] /\ Max(k) \in Nat \ {0}
  BY <1>1, TwoKeys, MaxIsNat DEF Wipes, Passes
<1>4. /\ key[a] = k => (Holds(a, k) <=> Max(k) = 1)
      /\ key[a] # k => (Holds(a, k) <=> (who[a][2] = k /\ key[a] = who[a][1]))
  BY <1>1, <1>3 DEF Holds
<1>5. /\ Others(a) /\ ~Wipes(a, k)' /\ ~Passes(a, k)'
      /\ key[a] = k => (Holds(a, k)' <=> 1 >= Max(k))
      /\ key[a] # k => (Holds(a, k)' <=> (who[a][2] = k /\ key[a] = who[a][1]))
  BY <1>1, <1>2, JudgeHolds
<1>6. Holds(a, k)' <=> Holds(a, k)
  BY <1>3, <1>4, <1>5
<1>7. Bit(Holds(a, k)) = Bit(Holds(a, k)') /\ Bit(Holds(a, k)) \in Int
  BY <1>6 DEF Bit
<1>8. Room(k)' = Room(k) /\ Room(k) \in Int
  <2>1. fail[k] \in Nat /\ Max(k) \in Nat BY MaxIsNat DEF TypeOK
  <2> QED BY <1>1, <2>1 DEF Room, Max
<1>9. Room(k)' <= Room(k) + (Bit(Holds(a, k)') - Bit(Holds(a, k)))
  BY <1>7, <1>8
<1> QED BY <1>1, <1>3, <1>5, <1>9, BudgetMoves

LEMMA LockKeepsBudget ==
  ASSUME TypeOK, TypeOK', NEW k \in Keys, Budget(k), NEW a \in Attempts,
         OnPath(a), SetLock(a), losses' = losses
  PROVE  Budget(k)'
<1>1. /\ pc[a] = "set" /\ pc'[a] = "del" /\ UNCHANGED <<fail, who, key, tried>>
      /\ lock' = lock \cup {key[a]} /\ Others(a)
  <2>1. PICK r \in Result : /\ lock' = IF r = "done" THEN lock \cup {key[a]} ELSE lock
                            /\ losses' = IF r = "lost" THEN losses + 1 ELSE losses
    BY DEF SetLock, Lose, Count
  <2>2. r = "done"
    BY <2>1 DEF Result, TypeOK
  <2>3. pc[a] = "set" /\ pc'[a] = "del" /\ UNCHANGED <<fail, who, key, tried>> /\ Others(a)
    BY DEF SetLock, Goto, Others, TypeOK
  <2> QED BY <2>1, <2>2, <2>3
<1>2. ~Passes(a, k) /\ ~Passes(a, k)'
  BY <1>1 DEF Passes
<1>3. CASE key[a] = k
  BY <1>1, <1>2, <1>3, BudgetLocks
<1>4. CASE key[a] # k
  <2>1. Holds(a, k)' <=> Holds(a, k)
    BY <1>1, <1>4 DEF Holds
  <2>2. ~Wipes(a, k) /\ ~Wipes(a, k)'
    BY <1>1, <1>4 DEF Wipes
  <2>3. Bit(Holds(a, k)) = Bit(Holds(a, k)') /\ Bit(Holds(a, k)) \in Int
    BY <2>1 DEF Bit
  <2>4. Room(k)' = Room(k) /\ Room(k) \in Int
    <3>1. fail[k] \in Nat /\ Max(k) \in Nat BY MaxIsNat DEF TypeOK
    <3> QED BY <1>1, <3>1 DEF Room, Max
  <2>5. Room(k)' <= Room(k) + (Bit(Holds(a, k)') - Bit(Holds(a, k)))
    BY <2>3, <2>4
  <2>6. k \in lock' <=> k \in lock
    BY <1>1, <1>4
  <2> QED BY <1>1, <1>2, <2>2, <2>5, <2>6, BudgetMoves
<1> QED BY <1>3, <1>4

\* DEL: the counter gets its room back, once for every attempt on its way here.
LEMMA DelKeepsBudget ==
  ASSUME TypeOK, TypeOK', NEW k \in Keys, Budget(k), NEW a \in Attempts,
         OnPath(a), DelFailures(a), losses' = losses
  PROVE  Budget(k)'
<1>1. /\ pc[a] = "del" /\ UNCHANGED <<lock, who, tried>> /\ NextKey(a)
      /\ fail' = [fail EXCEPT ![key[a]] = 0]
  <2>1. PICK r \in Result :
          /\ r = "done" => fail' = [fail EXCEPT ![key[a]] = 0]
          /\ losses' = IF r = "lost" THEN losses + 1 ELSE losses
    BY DEF DelFailures, Lose, Count
  <2>2. r = "done"
    BY <2>1 DEF Result, TypeOK
  <2> QED BY <2>1, <2>2 DEF DelFailures
<1>2. /\ key[a] \in {who[a][1], who[a][2]} /\ who[a][1] # who[a][2] /\ who'[a] = who[a]
      /\ Others(a)
  BY <1>1, TwoKeys, NextKeyFrame DEF OnPath, Others
<1>3. \/ key[a] = who[a][1] /\ key'[a] = who[a][2] /\ pc'[a] = "incr"
      \/ key[a] # who[a][1] /\ key'[a] = key[a] /\ pc'[a] = "idle"
  BY <1>1, NextKeyGoes
<1>4. ~Passes(a, k)' /\ ~Wipes(a, k)'
  BY <1>3 DEF Passes, Wipes
<1>5. Holds(a, k) <=> Holds(a, k)'
  BY <1>1, <1>2, <1>3 DEF Holds
<1>6. CASE key[a] = k
  <2>1. Wipes(a, k) BY <1>1, <1>6 DEF Wipes
  <2> QED BY <1>1, <1>2, <1>4, <1>5, <2>1, BudgetMoves
<1>7. CASE key[a] # k
  <2>1. ~Wipes(a, k) BY <1>7 DEF Wipes
  <2>2. Bit(Holds(a, k)) = Bit(Holds(a, k)') /\ Bit(Holds(a, k)) \in Int
    BY <1>5 DEF Bit
  <2>3. Room(k)' = Room(k) /\ Room(k) \in Int
    <3>1. fail[k] \in Nat /\ Max(k) \in Nat /\ fail'[k] = fail[k]
      BY <1>1, <1>7, MaxIsNat DEF TypeOK
    <3> QED BY <3>1 DEF Room, Max
  <2>4. Room(k)' <= Room(k) + (Bit(Holds(a, k)') - Bit(Holds(a, k)))
    BY <2>2, <2>3
  <2> QED BY <1>1, <1>2, <1>4, <2>1, <2>4, BudgetMoves
<1> QED BY <1>6, <1>7

\* No attempt moves.
LEMMA BudgetStays ==
  ASSUME NEW k \in Keys, Budget(k), UNCHANGED attempt, tried'[k] = tried[k],
         k \in lock' <=> k \in lock, k \notin lock => fail'[k] = fail[k]
  PROVE  Budget(k)'
<1>1. Held(k)' = Held(k) /\ Wiping(k)' = Wiping(k) /\ Passed(k)' = Passed(k)
  BY DEF attempt, Held, Wiping, Passed, Holds, Wipes, Passes
<1>2. k \notin lock => Room(k)' = Room(k)
  BY DEF Room
<1> QED BY <1>1, <1>2 DEF Budget, LockedBudget, OpenBudget

LEMMA ClearKeepsBudget ==
  ASSUME TypeOK, TypeOK', NEW k \in Keys, Budget(k), NEW a \in Attempts, ClearFailures(a)
  PROVE  Budget(k)'
<1>1. PICK gone \in SUBSET Keys :
        /\ fail' = [j \in Keys |-> IF j \in gone THEN 0 ELSE fail[j]]
        /\ tried' = [j \in Keys |-> IF j \in gone THEN 0 ELSE tried[j]]
        /\ lock' = lock \ gone
  <2>1. PICK r \in Result :
          LET gone == IF r = "done" THEN {who[a][1], who[a][2]} ELSE {} IN
            /\ fail' = [j \in Keys |-> IF j \in gone THEN 0 ELSE fail[j]]
            /\ tried' = [j \in Keys |-> IF j \in gone THEN 0 ELSE tried[j]]
            /\ lock' = lock \ gone
    BY DEF ClearFailures
  <2> DEFINE gone == IF r = "done" THEN {who[a][1], who[a][2]} ELSE {}
  <2>2. gone \in SUBSET Keys
    BY TwoKeys DEF Keys
  <2> QED BY <2>1, <2>2
<1>2. Others(a) /\ pc[a] = "clear" /\ pc'[a] = "idle"
  BY DEF ClearFailures, Goto, Others, TypeOK
<1>3. CASE k \in gone
  BY <1>1, <1>3, BudgetRestarts
<1>4. CASE k \notin gone
  <2>1. tried'[k] = tried[k] /\ fail'[k] = fail[k] /\ (k \in lock' <=> k \in lock)
    BY <1>1, <1>4
  <2>2. /\ ~Holds(a, k) /\ ~Holds(a, k)' /\ ~Wipes(a, k) /\ ~Wipes(a, k)' /\ ~Passes(a, k)'
    BY <1>2 DEF Holds, Wipes, Passes
  <2>3. Bit(Holds(a, k)) = 0 /\ Bit(Holds(a, k)') = 0
    BY <2>2 DEF Bit
  <2>4. Room(k)' = Room(k) /\ Room(k) \in Int
    <3>1. fail[k] \in Nat /\ Max(k) \in Nat BY MaxIsNat DEF TypeOK
    <3> QED BY <2>1, <3>1 DEF Room, Max
  <2>5. Room(k)' <= Room(k) + (Bit(Holds(a, k)') - Bit(Holds(a, k)))
    BY <2>3, <2>4
  <2> QED BY <1>2, <2>1, <2>2, <2>5, BudgetMoves
<1> QED BY <1>3, <1>4

LEMMA TimeKeepsBudget ==
  ASSUME TypeOK, NEW k \in Keys, Budget(k), NEW j \in Keys,
         FailureExpires(j) \/ LockExpires(j)
  PROVE  Budget(k)'
<1>1. CASE FailureExpires(j)
  <2>1. /\ fail' = [fail EXCEPT ![j] = 0] /\ lock' = lock /\ UNCHANGED attempt
        /\ tried' = IF j \in lock THEN tried ELSE [tried EXCEPT ![j] = 0]
    BY <1>1 DEF FailureExpires
  <2>2. CASE j = k /\ k \notin lock
    <3>1. tried'[k] = 0 BY <2>1, <2>2 DEF TypeOK
    <3> QED BY <2>1, <2>2, <3>1, BudgetRestarts
  <2>3. CASE ~(j = k /\ k \notin lock)
    <3>1. tried'[k] = tried[k] /\ (k \notin lock => fail'[k] = fail[k])
      BY <2>1, <2>3 DEF TypeOK
    <3> QED BY <2>1, <3>1, BudgetStays
  <2> QED BY <2>2, <2>3
<1>2. CASE LockExpires(j)
  <2>1. /\ lock' = lock \ {j} /\ tried' = [tried EXCEPT ![j] = 0]
        /\ fail' = fail /\ UNCHANGED attempt
    BY <1>2 DEF LockExpires
  <2>2. CASE j = k
    <3>1. tried'[k] = 0 /\ k \notin lock' BY <2>1, <2>2 DEF TypeOK
    <3> QED BY <3>1, BudgetRestarts
  <2>3. CASE j # k
    <3>1. tried'[k] = tried[k] /\ (k \in lock' <=> k \in lock)
      BY <2>1, <2>3 DEF TypeOK
    <3> QED BY <2>1, <3>1, BudgetStays
  <2> QED BY <2>2, <2>3
<1> QED BY <1>1, <1>2

LEMMA GuessStep ==
  ASSUME TypeOK, TypeOK', GuessInv, [Next]_vars
  PROVE  GuessInv'
<1>1. \A a \in Attempts : OnPath(a)'
  BY PathKept DEF GuessInv
<1>2. ASSUME losses' = 0, NEW k \in Keys PROVE Budget(k)'
  <2>0. losses \in Nat /\ losses' \in Nat
    BY LockoutAssumption DEF TypeOK
  <2>1. losses' >= losses
    <3>1. CASE UNCHANGED vars BY <2>0, <3>1 DEF vars, loss
    <3>2. CASE Next
      <4>1. losses' \in {losses, losses + 1}
        BY <3>2 DEF Next, Step, CheckAccount, CheckIP, VerifyBad, VerifyGood, Incr, CountUnseen,
                    Expire, SetLock, DelFailures, ClearFailures, FailureExpires, LockExpires,
                    Lose, Count, loss
      <4> QED BY <2>0, <4>1
    <3> QED BY <3>1, <3>2
  <2>2. losses = 0 /\ losses' = losses /\ Budget(k)
    BY <1>2, <2>0, <2>1 DEF GuessInv
  <2>3. CASE UNCHANGED vars
    BY <2>2, <2>3, BudgetStays DEF vars
  <2>4. ASSUME NEW a \in Attempts, Step(a) PROVE Budget(k)'
    <3>1. OnPath(a) BY DEF GuessInv
    <3> QED
      BY <2>2, <2>4, <3>1, ChecksKeepBudget, GuessKeepsBudget, IncrKeepsBudget,
         ExpireKeepsBudget, LockKeepsBudget, DelKeepsBudget, ClearKeepsBudget DEF Step
  <2>5. ASSUME NEW j \in Keys, FailureExpires(j) \/ LockExpires(j) PROVE Budget(k)'
    BY <2>2, <2>5, TimeKeepsBudget
  <2> QED BY <2>3, <2>4, <2>5 DEF Next
<1> QED BY <1>1, <1>2 DEF GuessInv

\* While Redis answers, an account or an address is tried at most its limit
\* times the number of concurrent requests between two clearings: however the
\* checks of allowAttempt and the INCR, SET and DEL of recordFailure
\* interleave, for any number of requests and any limits.
THEOREM GuessesAreBounded == Spec => []GuessesBounded
<1>1. Init => GuessInv
  <2> SUFFICES ASSUME Init PROVE GuessInv
    OBVIOUS
  <2>1. \A a \in Attempts : OnPath(a)
    BY DEF Init, OnPath
  <2>2. \A k \in Keys : Budget(k)
    BY DEF Init, Budget, OpenBudget
  <2> QED BY <2>1, <2>2 DEF GuessInv
<1>2. TypeOK /\ TypeOK' /\ GuessInv /\ [Next]_vars => GuessInv'
  BY GuessStep
<1>3. TypeOK /\ GuessInv => GuessesBounded
  <2> SUFFICES ASSUME TypeOK, GuessInv, losses = 0, NEW k \in Keys
               PROVE  tried[k] <= Max(k) * Cardinality(Attempts)
    BY DEF GuessesBounded
  <2> DEFINE b == Max(k) * Cardinality(Attempts)
  <2>1. tried[k] + Cardinality(Passed(k)) <= b
    BY OpenBounds DEF GuessInv, Budget, LockedBudget
  <2>2. Cardinality(Passed(k)) \in Nat /\ tried[k] \in Nat /\ b \in Nat
    <3>1. Cardinality(Passed(k)) \in Nat /\ Cardinality(Attempts) \in Nat
      BY Sizes
    <3>2. Max(k) \in Nat /\ tried[k] \in Nat
      BY MaxIsNat DEF TypeOK
    <3> QED BY <3>1, <3>2
  <2> HIDE DEF b
  <2>3. tried[k] <= b BY <2>1, <2>2
  <2> QED BY <2>3 DEF b
<1> QED
  BY <1>1, <1>2, <1>3, LockoutTypeCorrect, PTL DEF Spec
=============================================================================
