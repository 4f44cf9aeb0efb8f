------------------------ MODULE CircuitBreakerProofs ------------------------
(***************************************************************************)
(* The counters of the breaker mean what their names say, for any number   *)
(* of callers and any thresholds and cooldowns.                            *)
(***************************************************************************)
EXTENDS CircuitBreaker, TLAPS

\* In the state that consults it, each counter agrees with the results that
\* were reported.
CountersAgree ==
  /\ state = "closed" => fails = streak
  /\ state = "half_open" => succs = goodRun

BreakerInv == TypeOK /\ CountersAgree

USE DEF States, ReqStates

\* The initial state satisfies the invariant.
LEMMA InitBreaker == Init => BreakerInv
<1> SUFFICES ASSUME Init PROVE BreakerInv
  OBVIOUS
<1>1. TypeOK
  <2>1. 0 \in 0..MaxThreshold /\ 0 \in 0..MaxAge
    BY BreakerAssumption
  <2>2. 0 \in 0..1 /\ 0 \in 0..2
    OBVIOUS
  <2> QED
    BY <2>1, <2>2, Zenon DEF Init, TypeOK, States, ReqStates
<1>2. CountersAgree
  BY DEF Init, CountersAgree
<1> QED
  BY <1>1, <1>2 DEF BreakerInv

\* A saturating counter stays within its bound.
LEMMA SatType == \A max \in Nat : \A n \in 0..max : Sat(n, max) \in 0..max
  BY DEF Sat

\* Every critical section of the breaker preserves the invariant.
LEMMA NextBreaker == BreakerInv /\ [Next]_vars => BreakerInv'
<1> SUFFICES ASSUME BreakerInv, [Next]_vars PROVE BreakerInv'
  OBVIOUS
<1> USE BreakerAssumption DEF BreakerInv, TypeOK, CountersAgree, params, history
<1>1. ASSUME NEW r \in Reqs, CheckEnabled(r) PROVE BreakerInv'
  BY <1>1 DEF CheckEnabled, breaker
<1>2. ASSUME NEW r \in Reqs, AllowRequest(r) PROVE BreakerInv'
  <2>1. req' \in [Reqs -> ReqStates]
    BY <1>2 DEF AllowRequest, Run
  <2>2. CASE UNCHANGED <<state, succs, goodRun>>
    BY <1>2, <2>1, <2>2 DEF AllowRequest
  <2>3. CASE state' = "half_open" /\ succs' = 0 /\ goodRun' = 0
    BY <1>2, <2>1, <2>3 DEF AllowRequest
  <2> QED
    BY <1>2, <2>2, <2>3 DEF AllowRequest
<1>3. ASSUME NEW r \in Reqs, RecordSuccess(r) PROVE BreakerInv'
  BY <1>3 DEF RecordSuccess, Sat
<1>4. ASSUME NEW r \in Reqs, RecordFailure(r) PROVE BreakerInv'
  <2>1. fails' \in 0..MaxThreshold /\ streak' \in 0..MaxThreshold
    BY <1>4, SatType DEF RecordFailure
  <2>2. state = "closed" => fails' = streak'
    BY <1>4 DEF RecordFailure
  <2> QED
    BY <1>4, <2>1, <2>2 DEF RecordFailure
<1>5. ASSUME NEW f \in Thresholds \cup {0}, NEW c \in Cooldowns \cup {0}, UpdateParams(f, c)
      PROVE  BreakerInv'
  BY <1>5 DEF UpdateParams, breaker
<1>6. CASE Reset
  BY <1>6 DEF Reset
<1>7. CASE TogglePlugin
  BY <1>7 DEF TogglePlugin, breaker
<1>8. CASE Tick
  BY <1>8 DEF Tick
<1>9. CASE Weather
  BY <1>9 DEF Weather, breaker
<1>10. CASE UNCHANGED vars
  BY <1>10 DEF vars, breaker
<1> QED
  BY <1>1, <1>2, <1>3, <1>4, <1>5, <1>6, <1>7, <1>8, <1>9, <1>10 DEF Next, ReqStep

\* The invariant holds throughout.
LEMMA BreakerAlways == Spec => []BreakerInv
<1>1. Init => BreakerInv
  BY InitBreaker
<1>2. BreakerInv /\ [Next]_vars => BreakerInv'
  BY NextBreaker
<1> QED
  BY <1>1, <1>2, PTL DEF Spec

\* Every variable of the breaker stays in its range: threshold and cooldown
\* remain positive whatever an administrator sends, and succs never reaches 2.
THEOREM BreakerTypeCorrect == Spec => []TypeOK
<1>1. BreakerInv => TypeOK
  BY DEF BreakerInv
<1> QED
  BY <1>1, BreakerAlways, PTL

\* A failure opens a closed breaker exactly when it completes a run of
\* failureThreshold uninterrupted failures.
THEOREM BreakerTripsExactly == Spec => TripsExactly
<1>1. ASSUME BreakerInv, NEW r \in Reqs, RecordFailure(r), state = "closed"
      PROVE  (state' = "open") <=> (streak' >= threshold)
  <2>1. fails' = streak'
    BY <1>1 DEF RecordFailure, BreakerInv, CountersAgree
  <2>2. fails' >= threshold => state' = "open"
    <3>1. fails' \in Nat /\ threshold \in Nat
      BY <1>1, SatType, BreakerAssumption DEF RecordFailure, BreakerInv, TypeOK
    <3> QED
      BY <1>1, <3>1 DEF RecordFailure
  <2>3. state' = "open" => fails' >= threshold
    BY <1>1 DEF RecordFailure
  <2> QED
    BY <2>1, <2>2, <2>3
<1>2. BreakerInv => [\A r \in Reqs : RecordFailure(r) /\ state = "closed"
                       => ((state' = "open") <=> (streak' >= threshold))]_vars
  BY <1>1
<1> QED
  BY <1>2, BreakerAlways, PTL DEF TripsExactly

\* A success closes a half-open breaker exactly when it is the second in a row
\* since the first probe.
THEOREM BreakerClosesExactly == Spec => ClosesExactly
<1>1. ASSUME BreakerInv, NEW r \in Reqs, RecordSuccess(r), state = "half_open"
      PROVE  (state' = "closed") <=> (goodRun' = 2)
  BY <1>1 DEF RecordSuccess, Sat, BreakerInv, CountersAgree, TypeOK
<1>2. BreakerInv => [\A r \in Reqs : RecordSuccess(r) /\ state = "half_open"
                       => ((state' = "closed") <=> (goodRun' = 2))]_vars
  BY <1>1
<1> QED
  BY <1>2, BreakerAlways, PTL DEF ClosesExactly
=============================================================================
