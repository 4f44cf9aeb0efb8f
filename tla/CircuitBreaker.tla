--------------------------- MODULE CircuitBreaker ---------------------------
(***************************************************************************)
(* The circuit breaker of one plugin and the requests that run under it.   *)
(* ExecuteWithResilience checks that the plugin is enabled, asks the       *)
(* breaker, calls the upstream without any lock and reports the result;    *)
(* each of these is a critical section of its own, so results arrive in    *)
(* any order and in a breaker state other than the one that admitted them. *)
(***************************************************************************)
EXTENDS Naturals

CONSTANTS
  Reqs,          \* concurrent callers, each of which may call again
  Thresholds,    \* values of failureThreshold an administrator sets
  Cooldowns,     \* values of cooldownDuration, in ticks
  MaxThreshold,  \* bound: counters of failures saturate here
  MaxAge         \* bound: the age of the last failure saturates here

ASSUME BreakerAssumption ==
  /\ MaxThreshold \in Nat /\ MaxAge \in Nat
  /\ Thresholds # {} /\ Thresholds \subseteq 1..MaxThreshold
  /\ Cooldowns # {} /\ Cooldowns \subseteq 1..MaxAge

VARIABLES
  state,      \* cb.state
  fails,      \* cb.consecutiveFailures
  succs,      \* cb.consecutiveSuccesses
  failedOnce, \* cb.lastFailureTime # nil
  age,        \* ticks since cb.lastFailureTime
  threshold,  \* cb.failureThreshold
  cooldown,   \* cb.cooldownDuration
  enabled,    \* plugin.Enabled
  req,        \* where each caller is in ExecuteWithResilience
  calm,       \* environment: upstream answers in time and callers wait for it
  streak,     \* history: failures reported since the last success or Reset
  goodRun     \* history: successes reported since a failure or a first probe

breaker == <<state, fails, succs, failedOnce, age>>
params  == <<threshold, cooldown>>
history == <<streak, goodRun>>
vars    == <<breaker, params, enabled, req, calm, history>>

States == {"closed", "open", "half_open"}

\* A caller is idle, past the enabled check, or running towards its result.
ReqStates == {"idle", "checked", "ok", "bad"}

TypeOK ==
  /\ state \in States
  /\ fails \in 0..MaxThreshold
  /\ succs \in 0..1
  /\ failedOnce \in BOOLEAN
  /\ age \in 0..MaxAge
  /\ threshold \in Thresholds
  /\ cooldown \in Cooldowns
  /\ enabled \in BOOLEAN
  /\ req \in [Reqs -> ReqStates]
  /\ calm \in BOOLEAN
  /\ streak \in 0..MaxThreshold
  /\ goodRun \in 0..2

Init ==
  /\ state = "closed" /\ fails = 0 /\ succs = 0
  /\ failedOnce = FALSE /\ age = 0
  /\ threshold \in Thresholds /\ cooldown \in Cooldowns
  /\ enabled \in BOOLEAN
  /\ req = [r \in Reqs |-> "idle"]
  /\ calm \in BOOLEAN
  /\ streak = 0 /\ goodRun = 0

Sat(n, max) == IF n < max THEN n + 1 ELSE max

---------------------------------------------------------------------------
(* ExecuteWithResilience *)

\* The plugin is found and enabled.
CheckEnabled(r) ==
  /\ req[r] = "idle"
  /\ enabled
  /\ req' = [req EXCEPT ![r] = "checked"]
  /\ UNCHANGED <<breaker, params, enabled, calm, history>>

\* The call starts: a calm upstream will answer it, a troubled one may fail it
\* or let it run into its timeout, and the caller may go away.
Run(r) == \E end \in IF calm THEN {"ok"} ELSE {"ok", "bad"} :
            req' = [req EXCEPT ![r] = end]

\* Mutant: half open lets the first probe through and nobody else.
AllowRequestOneProbe(r) ==
  /\ req[r] = "checked"
  /\ IF state = "closed"
       THEN /\ Run(r)
            /\ UNCHANGED <<state, succs, goodRun>>
       ELSE IF state = "open" /\ failedOnce /\ age >= cooldown
         THEN /\ state' = "half_open" /\ succs' = 0
              /\ goodRun' = 0
              /\ Run(r)
         ELSE /\ req' = [req EXCEPT ![r] = "idle"]
              /\ UNCHANGED <<state, succs, goodRun>>
  /\ UNCHANGED <<fails, failedOnce, age, params, enabled, calm, streak>>

\* AllowRequest: a rejected caller gets the fallback or ErrCircuitOpen at once.
AllowRequest(r) ==
  /\ req[r] = "checked"
  /\ \/ /\ state = "closed"
        /\ Run(r)
        /\ UNCHANGED <<state, succs, goodRun>>
     \/ /\ state = "open"
        /\ failedOnce /\ age >= cooldown
        /\ state' = "half_open" /\ succs' = 0
        /\ goodRun' = 0
        /\ Run(r)
     \/ /\ state = "open"
        /\ ~(failedOnce /\ age >= cooldown)
        /\ req' = [req EXCEPT ![r] = "idle"]
        /\ UNCHANGED <<state, succs, goodRun>>
     \/ /\ state = "half_open"
        /\ Run(r)
        /\ UNCHANGED <<state, succs, goodRun>>
  /\ UNCHANGED <<fails, failedOnce, age, params, enabled, calm, streak>>

\* Mutant: one successful probe closes the circuit.
RecordSuccessEager(r) ==
  /\ req[r] = "ok"
  /\ state' = IF state = "half_open" THEN "closed" ELSE state
  /\ fails' = IF state = "open" THEN fails ELSE 0
  /\ succs' = IF state = "half_open" THEN 0 ELSE succs
  /\ req' = [req EXCEPT ![r] = "idle"]
  /\ streak' = 0 /\ goodRun' = Sat(goodRun, 2)
  /\ UNCHANGED <<failedOnce, age, params, enabled, calm>>

\* Mutant: closing the circuit keeps the old count of failures.
RecordSuccessKeeping(r) ==
  /\ req[r] = "ok"
  /\ state' = IF state = "half_open" /\ succs = 1 THEN "closed" ELSE state
  /\ fails' = IF state = "closed" THEN 0 ELSE fails
  /\ succs' = IF state = "half_open" /\ succs = 0 THEN 1
              ELSE IF state = "half_open" THEN 0 ELSE succs
  /\ req' = [req EXCEPT ![r] = "idle"]
  /\ streak' = 0 /\ goodRun' = Sat(goodRun, 2)
  /\ UNCHANGED <<failedOnce, age, params, enabled, calm>>

\* RecordSuccess: the second success in a row of a half-open breaker closes it.
RecordSuccess(r) ==
  /\ req[r] = "ok"
  /\ \/ /\ state = "half_open" /\ succs = 1
        /\ state' = "closed" /\ fails' = 0 /\ succs' = 0
     \/ /\ state = "half_open" /\ succs = 0
        /\ succs' = 1
        /\ UNCHANGED <<state, fails>>
     \/ /\ state = "closed"
        /\ fails' = 0
        /\ UNCHANGED <<state, succs>>
     \/ /\ state = "open"
        /\ UNCHANGED <<state, fails, succs>>
  /\ req' = [req EXCEPT ![r] = "idle"]
  /\ streak' = 0 /\ goodRun' = Sat(goodRun, 2)
  /\ UNCHANGED <<failedOnce, age, params, enabled, calm>>

\* RecordFailure: of an upstream error, of the timeout, or of a caller that
\* went away; in every state it restarts the cooldown.
RecordFailure(r) ==
  /\ req[r] = "bad"
  /\ failedOnce' = TRUE /\ age' = 0
  /\ fails' = Sat(fails, MaxThreshold)
  /\ \/ /\ state = "half_open"
        /\ state' = "open" /\ succs' = 0
     \/ /\ state = "closed" /\ fails' >= threshold
        /\ state' = "open"
        /\ UNCHANGED succs
     \/ /\ state = "closed" /\ fails' < threshold
        /\ UNCHANGED <<state, succs>>
     \/ /\ state = "open"
        /\ UNCHANGED <<state, succs>>
  /\ req' = [req EXCEPT ![r] = "idle"]
  /\ streak' = Sat(streak, MaxThreshold) /\ goodRun' = 0
  /\ UNCHANGED <<params, enabled, calm>>

---------------------------------------------------------------------------
(* Administration, time and the upstream. *)

\* Mutant: values that are not positive are taken over too.
UpdateParamsUnchecked(f, c) ==
  /\ threshold' = f /\ cooldown' = c
  /\ UNCHANGED <<breaker, enabled, req, calm, history>>

\* UpdateParams, through UpdatePluginConfig or UpdatePlugin.
UpdateParams(f, c) ==
  /\ threshold' = IF f > 0 THEN f ELSE threshold
  /\ cooldown' = IF c > 0 THEN c ELSE cooldown
  /\ UNCHANGED <<breaker, enabled, req, calm, history>>

\* ResetCircuit; lastFailureTime stays.
Reset ==
  /\ state' = "closed" /\ fails' = 0 /\ succs' = 0
  /\ streak' = 0 /\ goodRun' = 0
  /\ UNCHANGED <<failedOnce, age, params, enabled, req, calm>>

TogglePlugin ==
  /\ enabled' = ~enabled
  /\ UNCHANGED <<breaker, params, req, calm, history>>

Tick ==
  /\ failedOnce
  /\ age < MaxAge
  /\ age' = age + 1
  /\ UNCHANGED <<state, fails, succs, failedOnce, params, enabled, req, calm, history>>

Weather ==
  /\ calm' = ~calm
  /\ UNCHANGED <<breaker, params, enabled, req, history>>

ReqStep(r) ==
  CheckEnabled(r) \/ AllowRequest(r) \/ RecordSuccess(r) \/ RecordFailure(r)

Next ==
  \/ \E r \in Reqs : ReqStep(r)
  \/ \E f \in Thresholds \cup {0}, c \in Cooldowns \cup {0} : UpdateParams(f, c)
  \/ Reset \/ TogglePlugin \/ Tick \/ Weather

Spec == Init /\ [][Next]_vars

\* Time passes, the plugin timeout ends every call, and callers keep calling.
FairSpec == Spec /\ WF_vars(Tick) /\ \A r \in Reqs : WF_vars(ReqStep(r))

---------------------------------------------------------------------------
(* Properties *)

\* A reported failure opens a closed breaker exactly when it completes a run
\* of failureThreshold failures that no success and no Reset interrupted, with
\* results of every earlier open and half-open phase arriving late in between.
TripsExactly ==
  [][\A r \in Reqs : RecordFailure(r) /\ state = "closed"
       => ((state' = "open") <=> (streak' >= threshold))]_vars

\* A reported success closes a half-open breaker exactly when it is the second
\* in a row since the breaker was first probed.
ClosesExactly ==
  [][\A r \in Reqs : RecordSuccess(r) /\ state = "half_open"
       => ((state' = "closed") <=> (goodRun' = 2))]_vars

\* No breaker stays open for ever: once the upstream answers and the plugin
\* stays enabled, the breaker closes and remains closed, whatever the
\* administrator does to its parameters.
Recovers == <>[](calm /\ enabled) => <>[](state = "closed")

=============================================================================
