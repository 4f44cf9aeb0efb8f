---------------------------- MODULE LoginLockout ----------------------------
(***************************************************************************)
(* The failure counters and lockout keys that guard Login.  Every command  *)
(* is its own round trip to Redis: an attempt reads the two lock keys,     *)
(* verifies the password, and then either counts a failure for its account *)
(* and its address (INCR, EXPIRE, SET, DEL, one after the other) or clears *)
(* all four keys, interleaved with other attempts and with expiring keys.  *)
(***************************************************************************)
EXTENDS Naturals, FiniteSets

CONSTANTS
  Attempts,      \* concurrent requests, each of which may log in again
  Accounts, Ips, \* e-mail addresses and client addresses
  MaxAccount,    \* maxFailedAttemptsAccount (5 in the code)
  MaxIp,         \* maxFailedAttemptsIP (10 in the code)
  MaxCount,      \* bound: no attempt is counted past this value
  MaxLost        \* bound: commands lost to Redis or to a cancelled context

Keys == Accounts \cup Ips

ASSUME LockoutAssumption ==
  /\ IsFiniteSet(Attempts) /\ Accounts \cap Ips = {}
  /\ MaxAccount \in Nat \ {0} /\ MaxIp \in Nat \ {0} /\ MaxCount \in Nat
  /\ MaxLost \in Nat

VARIABLES
  fail,   \* value of the failure counter, 0 when the key is absent
  ttl,    \* counters that carry an expiry
  lock,   \* keys that are locked out
  pc,     \* next command of each attempt
  who,    \* account and address of each attempt
  key,    \* the key recordFailure is working on
  tried,  \* history: wrong guesses since the key was last cleared or expired
  lost,   \* history: commands on the key that were lost, or INCRs whose reply was
  losses  \* number of commands lost so far

attempt == <<pc, who, key>>
loss == <<lost, losses>>
vars == <<fail, ttl, lock, attempt, tried, loss>>

PCs == {"idle", "checkIP", "verify", "incr", "expire", "set", "del", "clear"}

TypeOK ==
  /\ fail \in [Keys -> Nat] /\ ttl \in SUBSET Keys /\ lock \in SUBSET Keys
  /\ \A k \in ttl : fail[k] > 0
  /\ pc \in [Attempts -> PCs]
  /\ who \in [Attempts -> Accounts \X Ips]
  /\ key \in [Attempts -> Keys]
  /\ tried \in [Keys -> Nat]
  /\ lost \in [Keys -> SUBSET {"incr", "expire", "set", "del"}] /\ losses \in 0..MaxLost

Init ==
  /\ fail = [k \in Keys |-> 0] /\ ttl = {} /\ lock = {}
  /\ pc = [a \in Attempts |-> "idle"]
  /\ who \in [Attempts -> Accounts \X Ips]
  /\ key = [a \in Attempts |-> who[a][1]]
  /\ tried = [k \in Keys |-> 0]
  /\ lost = [k \in Keys |-> {}] /\ losses = 0

\* What becomes of a command.
Result == IF losses < MaxLost THEN {"done", "lost"} ELSE {"done"}

Goto(a, l) == pc' = [pc EXCEPT ![a] = l]
Count(r) == losses' = IF r = "lost" THEN losses + 1 ELSE losses
Lose(k, r, cmd) ==
  /\ lost' = IF r = "lost" THEN [lost EXCEPT ![k] = @ \cup {cmd}] ELSE lost
  /\ Count(r)

Max(k) == IF k \in Accounts THEN MaxAccount ELSE MaxIp

---------------------------------------------------------------------------
(* Login up to the verdict *)

\* Mutant: the lock of the account is not looked at.
CheckAccountUnlocked(a, u, i) ==
  /\ pc[a] = "idle"
  /\ who' = [who EXCEPT ![a] = <<u, i>>]
  /\ key' = [key EXCEPT ![a] = u]
  /\ Goto(a, "checkIP")
  /\ UNCHANGED <<fail, ttl, lock, tried, loss>>

\* allowAttempt, first EXISTS.
CheckAccount(a, u, i) ==
  /\ pc[a] = "idle"
  /\ u \notin lock
  /\ who' = [who EXCEPT ![a] = <<u, i>>]
  /\ key' = [key EXCEPT ![a] = u]
  /\ Goto(a, "checkIP")
  /\ UNCHANGED <<fail, ttl, lock, tried, loss>>

\* allowAttempt, second EXISTS: refused, failed or allowed.
CheckIP(a) ==
  /\ pc[a] = "checkIP"
  /\ \E r \in Result :
       /\ Goto(a, IF r = "lost" \/ who[a][2] \in lock THEN "idle" ELSE "verify")
       /\ Count(r)
  /\ UNCHANGED <<fail, ttl, lock, who, key, tried, lost>>

\* The password is wrong, the user unknown or not active.
VerifyBad(a) ==
  /\ pc[a] = "verify"
  /\ \A k \in Keys : tried[k] < MaxCount
  /\ tried' = [k \in Keys |-> tried[k] + IF k \in {who[a][1], who[a][2]} THEN 1 ELSE 0]
  /\ Goto(a, "incr")
  /\ UNCHANGED <<fail, ttl, lock, who, key, loss>>

\* The login succeeds, or ends without a verdict (pending, rejected, a database
\* error).
VerifyGood(a) ==
  /\ pc[a] = "verify"
  /\ \/ Goto(a, "clear")
     \/ Goto(a, "idle")
  /\ UNCHANGED <<fail, ttl, lock, who, key, tried, loss>>

---------------------------------------------------------------------------
(* recordFailure *)

\* Where the attempt goes with a key done: from the account to the address.
NextKey(a) ==
  IF key[a] = who[a][1]
    THEN key' = [key EXCEPT ![a] = who[a][2]] /\ Goto(a, "incr")
    ELSE Goto(a, "idle") /\ UNCHANGED key

\* With the counter at c: lock, or go on.
Judge(a, c) == IF c >= Max(key[a]) THEN Goto(a, "set") /\ UNCHANGED key ELSE NextKey(a)

\* Redis counts and its reply is lost: recordFailure returns the error, or
\* go-redis sends INCR once more and gets an answer that is too high by one.
CountUnseen(a) ==
  /\ "lost" \in Result /\ fail[key[a]] < MaxCount
  /\ fail' = [fail EXCEPT ![key[a]] = @ + 1]
  /\ Goto(a, "idle") \/ Goto(a, "incr")
  /\ Lose(key[a], "lost", "incr")
  /\ UNCHANGED key

\* An INCR without an answer ends recordFailure: no EXPIRE, no lock, and the
\* address is not counted.
Incr(a) ==
  /\ pc[a] = "incr"
  /\ \/ /\ fail[key[a]] < MaxCount
        /\ fail' = [fail EXCEPT ![key[a]] = @ + 1]
        /\ IF fail[key[a]] = 0 THEN Goto(a, "expire") /\ UNCHANGED key
                               ELSE Judge(a, fail[key[a]] + 1)
        /\ UNCHANGED loss
     \/ CountUnseen(a)
     \/ /\ "lost" \in Result
        /\ Goto(a, "idle") /\ Count("lost")
        /\ UNCHANGED <<fail, key, lost>>
  /\ UNCHANGED <<ttl, lock, who, tried>>

\* Mutant: only the counter of the account gets its window.
ExpireAccountOnly(a) ==
  /\ pc[a] = "expire"
  /\ ttl' = IF fail[key[a]] > 0 /\ key[a] \in Accounts THEN ttl \cup {key[a]} ELSE ttl
  /\ Judge(a, 1)
  /\ UNCHANGED <<fail, lock, who, tried, loss>>

\* EXPIRE, sent when INCR answered 1; it does nothing to a key that has gone
\* meanwhile.
Expire(a) ==
  /\ pc[a] = "expire"
  /\ \E r \in Result :
       /\ ttl' = IF r = "done" /\ fail[key[a]] > 0 THEN ttl \cup {key[a]} ELSE ttl
       /\ Lose(key[a], r, "expire")
  /\ Judge(a, 1)
  /\ UNCHANGED <<fail, lock, who, tried>>

SetLock(a) ==
  /\ pc[a] = "set"
  /\ \E r \in Result :
       /\ lock' = IF r = "done" THEN lock \cup {key[a]} ELSE lock
       /\ Lose(key[a], r, "set")
  /\ Goto(a, "del")
  /\ UNCHANGED <<fail, ttl, who, key, tried>>

\* Mutant: the counter survives the lock.
DelFailuresKept(a) ==
  /\ pc[a] = "del"
  /\ NextKey(a)
  /\ UNCHANGED <<fail, ttl, lock, who, tried, loss>>

DelFailures(a) ==
  /\ pc[a] = "del"
  /\ \E r \in Result :
       /\ IF r = "done"
            THEN fail' = [fail EXCEPT ![key[a]] = 0] /\ ttl' = ttl \ {key[a]}
            ELSE UNCHANGED <<fail, ttl>>
       /\ Lose(key[a], r, "del")
  /\ NextKey(a)
  /\ UNCHANGED <<lock, who, tried>>

\* clearFailures: one DEL of both counters and both locks.
ClearFailures(a) ==
  /\ pc[a] = "clear"
  /\ \E r \in Result :
       LET gone == IF r = "done" THEN {who[a][1], who[a][2]} ELSE {} IN
         /\ Count(r)
         /\ fail' = [k \in Keys |-> IF k \in gone THEN 0 ELSE fail[k]]
         /\ tried' = [k \in Keys |-> IF k \in gone THEN 0 ELSE tried[k]]
         /\ ttl' = ttl \ gone /\ lock' = lock \ gone
  /\ Goto(a, "idle")
  /\ UNCHANGED <<who, key, lost>>

---------------------------------------------------------------------------
(* Time *)

FailureExpires(k) ==
  /\ k \in ttl
  /\ fail' = [fail EXCEPT ![k] = 0] /\ ttl' = ttl \ {k}
  /\ tried' = IF k \in lock THEN tried ELSE [tried EXCEPT ![k] = 0]
  /\ UNCHANGED <<lock, attempt, loss>>

LockExpires(k) ==
  /\ k \in lock
  /\ lock' = lock \ {k}
  /\ tried' = [tried EXCEPT ![k] = 0]
  /\ UNCHANGED <<fail, ttl, attempt, loss>>

Step(a) ==
  \/ \E u \in Accounts, i \in Ips : CheckAccount(a, u, i)
  \/ CheckIP(a) \/ VerifyBad(a) \/ VerifyGood(a)
  \/ Incr(a) \/ Expire(a) \/ SetLock(a) \/ DelFailures(a) \/ ClearFailures(a)

Next ==
  \/ \E a \in Attempts : Step(a)
  \/ \E k \in Keys : FailureExpires(k) \/ LockExpires(k)

Spec == Init /\ [][Next]_vars

---------------------------------------------------------------------------
(* Properties *)

\* No failure counter lives for ever: one without an expiry has an EXPIRE on
\* its way, however its INCRs, DELs and expiries interleaved, unless that EXPIRE
\* was lost, or the reply of an INCR that Redis carried out, so that nobody saw
\* the 1 that sends it.  A counter that lives for ever locks out a user whose
\* mistakes lie months apart.
CounterExpires ==
  \A k \in Keys : fail[k] > 0 /\ k \notin ttl =>
    \/ \E a \in Attempts : pc[a] = "expire" /\ key[a] = k
    \/ lost[k] \cap {"expire", "incr"} # {}

\* No lock is missed: a counter at its limit has an attempt on its way to lock
\* the key or to restart the counter, unless its DEL was lost, or the reply of an
\* INCR that Redis carried out, so that nobody saw the count that locks.
NoMissedLock ==
  \A k \in Keys : fail[k] >= Max(k) =>
    \/ \E a \in Attempts : pc[a] \in {"expire", "set", "del"} /\ key[a] = k
    \/ lost[k] \cap {"del", "incr"} # {}

\* Requests that pass allowAttempt together are all verified, and the DEL of a
\* slow one may wipe a newer count, but no more than that: while Redis answers
\* an account or an address is tried at most its limit times the number of
\* concurrent requests before it has to sit out a lock or a window.
GuessesBounded ==
  losses = 0 => \A k \in Keys : tried[k] <= Max(k) * Cardinality(Attempts)
=============================================================================
