-------------------------- MODULE ApprovalsProofs --------------------------
(***************************************************************************)
(* Decisions on accounts and on changes of record, for any number of       *)
(* people, administration pages, profile pages, seats and requests: on     *)
(* what a decision acts, what the records contain, who holds which role,   *)
(* how many seats are taken and who is on a roster.                        *)
(***************************************************************************)
EXTENDS Approvals, FiniteSetTheorems, SequenceTheorems, WellFoundedInduction, TLAPS

\* A transaction on u that has read and not yet written, of ApproveUser or of a
\* profile page.
OpenCall(d, s, u) == calls[d][s].u = u /\ calls[d][s].phase = "read"

OpenTab(u, t) == profileTab[u][t].phase = "read"

OneOpen(u) ==
  /\ \A d, e \in Desks, s, r \in Slots : OpenCall(d, s, u) /\ OpenCall(e, r, u) => d = e /\ s = r
  /\ \A t, v \in Tabs : OpenTab(u, t) /\ OpenTab(u, v) => t = v
  /\ \A d \in Desks, s \in Slots, t \in Tabs : ~(OpenCall(d, s, u) /\ OpenTab(u, t))

\* What the transaction has read is still so, and a decision that was not late
\* is on something that waits for one.
FreshCall(c) ==
  /\ c.meta = profile[c.u] /\ c.saw = LatestPending(c.u) /\ c.edit = OnEdit(c.u, c.saw)
  /\ \/ c.late
     \/ c.k = 0 /\ account[c.u] = "pending"
     \/ c.k \in PendingOf(c.u)

FreshTab(u, t) ==
  /\ profileTab[u][t].seen = profile[u]
  /\ profileTab[u][t].op = "edit" => PendingOf(u) = {}

Fresh(u) ==
  /\ \A d \in Desks, s \in Slots : OpenCall(d, s, u) => FreshCall(calls[d][s])
  /\ \A t \in Tabs : OpenTab(u, t) => FreshTab(u, t)

\* At most one request waits, and the records agree with the reviews.
Records(u) ==
  /\ \A j, k \in PendingOf(u) : j = k
  /\ profile[u] \subseteq DOMAIN reqs[u]
  /\ \A k \in DOMAIN reqs[u] : reqs[u][k].type = "edit" =>
       /\ k \in profile[u] => reqs[u][k].state \in {"APPROVED", "ISOLATED"}
       /\ reqs[u][k].state = "APPROVED" => k \in profile[u]

\* A candidate has no profile page yet and has asked for no change.
Candidate(u) ==
  account[u] = "pending" =>
    /\ \A k \in DOMAIN reqs[u] : reqs[u][k].type # "edit"
    /\ \A t \in Tabs : profileTab[u][t].phase = "none"

Undisturbed(u) ==
  u \notin overlap => OneOpen(u) /\ Fresh(u) /\ (account[u] # "deleted" => Records(u))

ReviewInv == \A u \in Users : Candidate(u) /\ Undisturbed(u)

\* Only decisions go through a quota check and a transaction of two steps; one
\* without a role is about a request, and an assignment has a role.
SoundCall(c) ==
  /\ c.phase \in {"allowed", "read"} => c.to \in {"active", "rejected"}
  /\ c.to = "active" => c.grant # "none" \/ c.k # 0
  /\ c.to = "assign" => c.grant # "none"
  /\ c.late => c.u \in late

CallInv == \A d \in Desks, s \in Slots : SoundCall(calls[d][s])

Approving(d, s) == calls[d][s].to = "active" /\ calls[d][s].phase \in {"allowed", "read"}

\* While nothing was rushed, one approval at a time has passed the check, and
\* its seat is free.
SeatInv ==
  ~rush =>
    /\ Taken <= Seats[role]
    /\ \A d \in Desks, s \in Slots : Approving(d, s) =>
         /\ Taken < Seats[role]
         /\ \A e \in Desks, r \in Slots : Approving(e, r) => d = e /\ s = r

-----------------------------------------------------------------------------
(* The operators of the model. *)

\* A bounded set of positions has a last one.
LEMMA Highest ==
  ASSUME NEW n \in Nat, NEW S \in SUBSET (1 .. n), S # {}
  PROVE  \E k \in S : \A j \in S : j <= k
<1> DEFINE T == {n - k : k \in S}
<1>1. T \subseteq Nat /\ T # {}
  <2>1. \A k \in S : n - k \in Nat
    OBVIOUS
  <2>2. PICK k \in S : TRUE
    OBVIOUS
  <2>3. n - k \in T
    BY <2>2
  <2> QED
    BY <2>1, <2>3
<1>2. PICK x \in T : \A y \in T : ~(<<y, x>> \in OpToRel(<, Nat))
  BY <1>1, NatLessThanWellFounded, WFMin
<1>3. PICK k \in S : x = n - k
  OBVIOUS
<1>4. \A y \in T : ~(y < x)
  BY <1>1, <1>2 DEF OpToRel
<1>5. \A j \in S : ~(n - j < n - k)
  BY <1>3, <1>4
<1> QED
  BY <1>5

\* The newest pending request is pending, when there is one.
LEMMA LatestIsPending ==
  ASSUME TypeOK, NEW u \in Users
  PROVE  /\ PendingOf(u) \subseteq DOMAIN reqs[u] /\ PendingOf(u) \subseteq Nat \ {0}
         /\ LatestPending(u) \in Nat
         /\ PendingOf(u) = {} => LatestPending(u) = 0
         /\ PendingOf(u) # {} => LatestPending(u) \in PendingOf(u)
<1>1. reqs[u] \in Seq(Requests)
  BY DEF TypeOK, PeopleType
<1>2. /\ PendingOf(u) \in SUBSET (1 .. Len(reqs[u])) /\ Len(reqs[u]) \in Nat
      /\ PendingOf(u) \subseteq DOMAIN reqs[u]
  BY <1>1 DEF PendingOf
<1>3. PendingOf(u) = {} => LatestPending(u) = 0
  BY DEF LatestPending
<1>4. ASSUME PendingOf(u) # {} PROVE LatestPending(u) \in PendingOf(u)
  <2>1. \E k \in PendingOf(u) : \A j \in PendingOf(u) : j <= k
    BY <1>2, <1>4, Highest
  <2> QED
    BY <2>1, <1>4 DEF LatestPending
<1> QED
  BY <1>2, <1>3, <1>4

\* How a list of requests is changed: the other users' lists and the number and
\* kinds of the requests stay, the states f names change.
Restated(new, u, f) ==
  /\ new \in [Users -> Seq(Requests)]
  /\ \A v \in Users \ {u} : new[v] = reqs[v]
  /\ DOMAIN new[u] = DOMAIN reqs[u]
  /\ \A k \in DOMAIN reqs[u] : new[u][k].type = reqs[u][k].type /\ new[u][k].state = f[k]

LEMMA ReviewedIs ==
  ASSUME TypeOK, NEW u \in Users, NEW state \in {"APPROVED", "REJECTED"}
  PROVE  Restated(Reviewed(u, state), u,
           [k \in DOMAIN reqs[u] |-> IF k \in PendingOf(u) THEN state ELSE reqs[u][k].state])
<1> DEFINE new == [k \in DOMAIN reqs[u] |->
                     IF k \in PendingOf(u) THEN [reqs[u][k] EXCEPT !.state = state] ELSE reqs[u][k]]
<1>1. reqs \in [Users -> Seq(Requests)] /\ reqs[u] \in Seq(Requests)
  BY DEF TypeOK, PeopleType
<1>2. DOMAIN reqs[u] = 1 .. Len(reqs[u]) /\ Len(reqs[u]) \in Nat
  BY <1>1
<1>3. \A k \in DOMAIN reqs[u] : reqs[u][k] \in Requests
  BY <1>1
<1>4. \A k \in DOMAIN reqs[u] :
         /\ new[k] \in Requests /\ new[k].type = reqs[u][k].type
         /\ new[k].state = IF k \in PendingOf(u) THEN state ELSE reqs[u][k].state
  BY <1>3 DEF Requests
<1>5. new \in [1 .. Len(reqs[u]) -> Requests]
  BY <1>2, <1>4
<1>6. new \in Seq(Requests)
  BY <1>2, <1>5, IsASeq
<1>7. Reviewed(u, state) = [reqs EXCEPT ![u] = new]
  BY DEF Reviewed
<1> HIDE DEF new
<1>8. DOMAIN new = DOMAIN reqs[u]
  BY DEF new
<1> QED
  BY <1>1, <1>4, <1>6, <1>7, <1>8 DEF Restated

LEMMA IsolatedIs ==
  ASSUME TypeOK, NEW u \in Users
  PROVE  Restated(Isolated(u), u, [k \in DOMAIN reqs[u] |-> "ISOLATED"])
<1> DEFINE new == [k \in DOMAIN reqs[u] |-> [reqs[u][k] EXCEPT !.state = "ISOLATED"]]
<1>1. reqs \in [Users -> Seq(Requests)] /\ reqs[u] \in Seq(Requests)
  BY DEF TypeOK, PeopleType
<1>2. DOMAIN reqs[u] = 1 .. Len(reqs[u]) /\ Len(reqs[u]) \in Nat
  BY <1>1
<1>3. \A k \in DOMAIN reqs[u] : reqs[u][k] \in Requests
  BY <1>1
<1>4. \A k \in DOMAIN reqs[u] :
         /\ new[k] \in Requests /\ new[k].type = reqs[u][k].type /\ new[k].state = "ISOLATED"
  BY <1>3 DEF Requests
<1>5. new \in [1 .. Len(reqs[u]) -> Requests]
  BY <1>2, <1>4
<1>6. new \in Seq(Requests)
  BY <1>2, <1>5, IsASeq
<1>7. Isolated(u) = [reqs EXCEPT ![u] = new]
  BY DEF Isolated
<1> HIDE DEF new
<1>8. DOMAIN new = DOMAIN reqs[u]
  BY DEF new
<1> QED
  BY <1>1, <1>4, <1>6, <1>7, <1>8 DEF Restated

\* Writing one call leaves the others.
LEMMA SetCall ==
  ASSUME TypeOK, NEW d \in Desks, NEW s \in Slots, NEW c \in Calls,
         c.phase # "none" => c.u \in Users, Set(d, s, c)
  PROVE  /\ CallsType' /\ calls'[d][s] = c
         /\ \A e \in Desks, r \in Slots : (e = d /\ r = s) \/ calls'[e][r] = calls[e][r]
<1>1. calls \in [Desks -> [Slots -> Calls]] /\ calls' = [calls EXCEPT ![d][s] = c]
  BY DEF TypeOK, CallsType, Set
<1>2. /\ calls' \in [Desks -> [Slots -> Calls]] /\ calls'[d][s] = c
      /\ \A e \in Desks, r \in Slots : (e = d /\ r = s) \/ calls'[e][r] = calls[e][r]
  BY <1>1
<1> QED
  BY <1>2 DEF CallsType, TypeOK

\* Writing one profile page leaves the others.
LEMMA SetVisit ==
  ASSUME TypeOK, NEW u \in Users, NEW t \in Tabs, NEW x \in Visits, SetTab(u, t, x)
  PROVE  /\ profileTab' \in [Users -> [Tabs -> Visits]] /\ profileTab'[u][t] = x
         /\ \A v \in Users, w \in Tabs : (v = u /\ w = t) \/ profileTab'[v][w] = profileTab[v][w]
<1>1. profileTab \in [Users -> [Tabs -> Visits]] /\ profileTab' = [profileTab EXCEPT ![u][t] = x]
  BY DEF TypeOK, TabsType, SetTab
<1> QED
  BY <1>1

-----------------------------------------------------------------------------
(* The pages: steps after which no transaction is open that was not before. *)

Quiet ==
  /\ UNCHANGED <<people, role, overlap, late, rush>>
  /\ \A d \in Desks, s \in Slots :
       \/ calls'[d][s] = calls[d][s]
       \/ /\ calls[d][s].phase # "read" /\ calls'[d][s].phase \notin {"allowed", "read", "done"}
          /\ SoundCall(calls'[d][s])
  /\ \A u \in Users, t \in Tabs :
       \/ profileTab'[u][t] = profileTab[u][t]
       \/ profileTab'[u][t].phase # "read" /\ account[u] = "active"

\* A new call waits at the gateway.
LEMMA SendIsQuiet ==
  ASSUME TypeOK, NEW d \in Desks, NEW c \in Calls, c.u \in Users, ~c.late,
         c.to = "active" => c.grant # "none" \/ c.k # 0,
         c.to = "assign" => c.grant # "none", Send(d, c)
  PROVE  TypeOK' /\ Quiet
<1> DEFINE m == [c EXCEPT !.phase = "sent"]
<1>1. PICK s \in Slots : Set(d, s, m) /\ calls[d][s].phase # "read"
  BY DEF Send, NoCall
<1>2. /\ m \in Calls /\ m.phase = "sent" /\ m.u \in Users /\ m.to = c.to /\ m.late = c.late
      /\ m.grant = c.grant /\ m.k = c.k
  BY DEF Calls
<1> HIDE DEF m
<1>3. /\ CallsType' /\ calls'[d][s] = m
      /\ \A e \in Desks, r \in Slots : (e = d /\ r = s) \/ calls'[e][r] = calls[e][r]
  BY <1>1, <1>2, SetCall
<1>4. /\ UNCHANGED <<people, role, page, rejecting, roster, stored, profileTab, banner,
                     overlap, late, rush>>
      /\ clicks < MaxClicks /\ clicks' = clicks + 1
  BY DEF Send, Click
<1>5. TypeOK'
  <2>1. PeopleType' /\ PagesType' /\ TabsType'
    BY <1>4 DEF people, rights, TypeOK, PeopleType, PagesType, TabsType
  <2>2. CountsType'
    BY <1>4, ApprovalsAssumption DEF TypeOK, CountsType
  <2> QED
    BY <1>3, <2>1, <2>2 DEF TypeOK
<1>6. SoundCall(m)
  BY <1>2 DEF SoundCall
<1> QED
  BY <1>1, <1>2, <1>3, <1>4, <1>5, <1>6 DEF Quiet

LEMMA DecisionIsQuiet ==
  ASSUME TypeOK, NEW d \in Desks, NEW u \in Users, NEW k \in Nat,
         NEW g \in {"none", "asked", "other"},
         NEW to \in {"active", "rejected", "ISOLATED", "deleted", "assign"},
         to = "active" => g # "none" \/ k # 0, to = "assign" => g # "none",
         Send(d, [Decision(u, k, to) EXCEPT !.grant = g])
  PROVE  TypeOK' /\ Quiet
<1> DEFINE c == [Decision(u, k, to) EXCEPT !.grant = g]
<1>1. c \in Calls /\ c.u = u /\ ~c.late /\ c.k = k /\ c.to = to /\ c.grant = g
  BY DEF Decision, NoCall, Calls
<1>2. Send(d, c)
  OBVIOUS
<1> HIDE DEF c
<1> QED
  BY <1>1, <1>2, SendIsQuiet

\* Decisions that name no role.
LEMMA PlainDecisionIsQuiet ==
  ASSUME TypeOK, NEW d \in Desks, NEW u \in Users, NEW k \in Nat,
         NEW to \in {"active", "rejected", "ISOLATED", "deleted"},
         to = "active" => k # 0, Send(d, Decision(u, k, to))
  PROVE  TypeOK' /\ Quiet
<1>1. PICK c : c = Decision(u, k, to) /\ Send(d, c)
  OBVIOUS
<1>2. c \in Calls /\ c.u = u /\ ~c.late /\ c.k = k /\ c.to = to
  BY <1>1 DEF Decision, NoCall, Calls
<1> QED
  BY <1>1, <1>2, SendIsQuiet

LEMMA DeskIsQuiet ==
  ASSUME TypeOK, NEW d \in Desks, Desk(d)
  PROVE  TypeOK' /\ Quiet
<1>0. MaxEdits \in Nat /\ Indices \subseteq Nat \ {0}
  BY ApprovalsAssumption DEF Indices
<1>1. CASE Load(d)
  <2>1. /\ UNCHANGED <<people, role, page, rejecting, stored, calls, profileTab, banner,
                       overlap, late, rush>>
        /\ clicks' \in 0 .. MaxClicks
        /\ roster' \in {roster, [roster EXCEPT ![d] = stored]}
    BY <1>1, ApprovalsAssumption DEF Load, Click, TypeOK, CountsType
  <2>2. PagesType'
    BY <2>1 DEF TypeOK, PagesType
  <2>3. PeopleType' /\ CallsType' /\ TabsType' /\ CountsType'
    BY <2>1 DEF people, rights, TypeOK, PeopleType, CallsType, TabsType, CountsType
  <2> QED
    BY <2>1, <2>2, <2>3 DEF TypeOK, Quiet
<1>2. CASE CloseReject(d) \/ \E u \in Users, k \in Indices : OpenReject(d, u, k)
  <2>1. /\ UNCHANGED <<people, role, page, roster, stored, calls, profileTab, banner,
                       clicks, overlap, late, rush>>
        /\ rejecting' = [rejecting EXCEPT ![d] = NoRef]
           \/ \E u \in Users, k \in Indices : rejecting' = [rejecting EXCEPT ![d] = <<u, k>>]
    BY <1>2 DEF CloseReject, OpenReject
  <2>2. rejecting' \in [Desks -> {NoRef} \cup (Users \X Indices)]
    BY <2>1 DEF TypeOK, PagesType
  <2>3. PeopleType' /\ PagesType' /\ CallsType' /\ TabsType' /\ CountsType'
    BY <2>1, <2>2 DEF people, rights, TypeOK, PeopleType, PagesType, CallsType, TabsType, CountsType
  <2> QED
    BY <2>1, <2>3 DEF TypeOK, Quiet
<1>3. CASE HandleConfirmReject(d)
  <2>1. PICK u \in Users, k \in Indices : rejecting[d] = <<u, k>>
    BY <1>3 DEF HandleConfirmReject, TypeOK, PagesType
  <2>2. Send(d, Decision(u, k, "rejected"))
    BY <1>3, <2>1 DEF HandleConfirmReject
  <2> QED
    BY <1>0, <2>2, PlainDecisionIsQuiet
<1>4. ASSUME NEW u \in Users, NEW k \in Indices, HandleApproveOnRoster(d, u, k)
      PROVE  TypeOK' /\ Quiet
  BY <1>0, <1>4, PlainDecisionIsQuiet DEF HandleApproveOnRoster
<1>5. ASSUME NEW u \in Users, NEW k \in Indices, HandleApprove(d, u, k)
      PROVE  TypeOK' /\ Quiet
  <2>1. PICK g \in {"none", "asked", "other"} :
           Send(d, [Decision(u, k, "active") EXCEPT !.grant = g])
    BY <1>5 DEF HandleApprove
  <2> QED
    BY <1>0, <2>1, DecisionIsQuiet
<1>6. ASSUME NEW u \in Users, NEW to \in {"active", "rejected"}, HandleApproval(d, u, to)
      PROVE  TypeOK' /\ Quiet
  <2>1. PICK g \in {"none", "asked", "other"} :
           /\ to = "active" => g # "none"
           /\ Send(d, [Decision(u, 0, to) EXCEPT !.grant = g])
    BY <1>6 DEF HandleApproval
  <2> QED
    BY <2>1, DecisionIsQuiet
<1>7. ASSUME NEW u \in Users, OnAssign(d, u) \/ HandleIsolate(d, u) \/ ExecuteDelete(d, u)
      PROVE  TypeOK' /\ Quiet
  <2>1. CASE OnAssign(d, u)
    <3>1. PICK g \in {"asked", "other"} : Send(d, [Decision(u, 0, "assign") EXCEPT !.grant = g])
      BY <2>1 DEF OnAssign
    <3> QED
      BY <3>1, DecisionIsQuiet
  <2>2. CASE HandleIsolate(d, u) \/ ExecuteDelete(d, u)
    <3>1. PICK to \in {"ISOLATED", "deleted"} : Send(d, Decision(u, 0, to))
      BY <2>2 DEF HandleIsolate, ExecuteDelete
    <3> QED
      BY <3>1, PlainDecisionIsQuiet
  <2> QED
    BY <1>7, <2>1, <2>2
<1>8. ASSUME NEW u \in Users, HandleToggleTool(d, u)
      PROVE  TypeOK' /\ Quiet
  <2>1. /\ UNCHANGED <<people, role, page, rejecting, calls, profileTab, banner,
                       overlap, late, rush>>
        /\ clicks < MaxClicks /\ clicks' = clicks + 1
        /\ \E r \in {"on", "off"} :
              /\ roster' = [roster EXCEPT ![d] = [roster[d] EXCEPT ![u] = r]]
              /\ stored' = [roster[d] EXCEPT ![u] = r]
    BY <1>8 DEF HandleToggleTool, Click, Store, TypeOK, PagesType
  <2>2. PagesType'
    BY <2>1 DEF TypeOK, PagesType
  <2>3. CountsType'
    BY <2>1, ApprovalsAssumption DEF TypeOK, CountsType
  <2>4. PeopleType' /\ CallsType' /\ TabsType'
    BY <2>1 DEF people, rights, TypeOK, PeopleType, CallsType, TabsType
  <2> QED
    BY <2>1, <2>2, <2>3, <2>4 DEF TypeOK, Quiet
<1> QED
  BY <1>1, <1>2, <1>3, <1>4, <1>5, <1>6, <1>7, <1>8 DEF Desk

\* Answers and lost calls.
LEMMA AnswerIsQuiet ==
  ASSUME TypeOK, CallInv, NEW d \in Desks, NEW s \in Slots, Lost(d, s) \/ Answer(d, s)
  PROVE  TypeOK' /\ Quiet
<1> DEFINE c == calls[d][s]
           n == [c EXCEPT !.phase = "refused"]
<1>1. c.phase \notin {"none", "read"} /\ c \in Calls /\ c.u \in Users /\ SoundCall(c)
  BY DEF Lost, Answer, CallOk, CallFails, TypeOK, CallsType, CallInv
<1>2. n \in Calls /\ n.phase = "refused" /\ n.u \in Users /\ SoundCall(n)
  BY <1>1 DEF Calls, SoundCall
<1>3. NoCall \in Calls /\ NoCall.phase = "none" /\ SoundCall(NoCall)
  BY DEF NoCall, Calls, SoundCall
<1> HIDE DEF n
<1>4. CASE Lost(d, s)
  <2>1. /\ Set(d, s, n)
        /\ UNCHANGED <<people, pages, profileTab, banner, clicks, overlap, late, rush>>
    BY <1>4 DEF Lost, n
  <2>2. /\ CallsType' /\ calls'[d][s] = n
        /\ \A e \in Desks, r \in Slots : (e = d /\ r = s) \/ calls'[e][r] = calls[e][r]
    BY <1>2, <2>1, SetCall
  <2>3. PeopleType' /\ PagesType' /\ TabsType' /\ CountsType'
    BY <2>1 DEF people, rights, pages, TypeOK, PeopleType, PagesType, TabsType, CountsType
  <2> QED
    BY <1>1, <1>2, <2>1, <2>2, <2>3 DEF TypeOK, Quiet, pages
<1>5. CASE Answer(d, s)
  <2>1. /\ Set(d, s, NoCall)
        /\ UNCHANGED <<people, role, page, profileTab, banner, clicks, overlap, late, rush>>
    BY <1>5 DEF Answer, CallOk, CallFails
  <2>2. /\ CallsType' /\ calls'[d][s] = NoCall
        /\ \A e \in Desks, r \in Slots : (e = d /\ r = s) \/ calls'[e][r] = calls[e][r]
    BY <1>3, <2>1, SetCall
  <2>3. PeopleType' /\ TabsType' /\ CountsType'
    BY <2>1 DEF people, rights, TypeOK, PeopleType, TabsType, CountsType
  <2>4. /\ rejecting' \in {rejecting, [rejecting EXCEPT ![d] = NoRef]}
        /\ \/ UNCHANGED <<roster, stored>>
           \/ /\ roster' = [roster EXCEPT ![d] = [roster[d] EXCEPT ![c.u] = "on"]]
              /\ stored' = [roster[d] EXCEPT ![c.u] = "on"]
    BY <1>5 DEF Answer, CallOk, CallFails, Store, Enrolled
  <2>5. PagesType'
    <3>1. rejecting' \in [Desks -> {NoRef} \cup (Users \X Indices)]
      BY <2>4 DEF TypeOK, PagesType
    <3>2. /\ roster' \in [Desks -> [Users -> {"out", "on", "off"}]]
          /\ stored' \in [Users -> {"out", "on", "off"}]
      <4>1. /\ roster \in [Desks -> [Users -> {"out", "on", "off"}]]
            /\ stored \in [Users -> {"out", "on", "off"}]
        BY DEF TypeOK, PagesType
      <4>2. [roster[d] EXCEPT ![c.u] = "on"] \in [Users -> {"out", "on", "off"}]
        BY <4>1, <1>1
      <4> QED
        BY <2>4, <4>1, <4>2
    <3> QED
      BY <2>1, <3>1, <3>2 DEF TypeOK, PagesType
  <2> QED
    BY <1>1, <1>3, <2>1, <2>2, <2>3, <2>5 DEF TypeOK, Quiet
<1> QED
  BY <1>4, <1>5

\* Profile pages up to the request.
LEMMA VisitIsQuiet ==
  ASSUME TypeOK, NEW u \in Users, NEW t \in Tabs,
         LoadProfile(u, t) \/ HandleSubmitRequest(u, t) \/ HandleSaveDirect(u, t)
  PROVE  TypeOK' /\ Quiet
<1>1. UNCHANGED <<people, pages, calls, overlap, late, rush>>
  BY DEF LoadProfile, HandleSubmitRequest, HandleSaveDirect
<1>2. account[u] = "active"
  BY DEF LoadProfile, HandleSubmitRequest, HandleSaveDirect
<1>3. clicks' \in 0 .. MaxClicks
  BY ApprovalsAssumption
     DEF LoadProfile, HandleSubmitRequest, HandleSaveDirect, Click, TypeOK, CountsType
<1>4. banner' \in [Users -> [Tabs -> BOOLEAN]]
  <2>1. banner \in [Users -> [Tabs -> BOOLEAN]] /\ banner[u] \in [Tabs -> BOOLEAN]
    BY DEF TypeOK, TabsType
  <2>2. PICK b \in BOOLEAN : b = ~banner[u][t]
    BY <2>1
  <2>3. UNCHANGED banner \/ banner' = [banner EXCEPT ![u][t] = b]
    BY <2>2 DEF LoadProfile, HandleSubmitRequest, HandleSaveDirect
  <2> QED
    BY <2>1, <2>3
<1>5. PICK x \in Visits : x.phase # "read" /\ (UNCHANGED profileTab \/ SetTab(u, t, x))
  <2>1. NoTab \in Visits /\ NoTab.phase # "read"
    BY DEF NoTab, Visits
  <2>2. \A o \in {"edit", "save"} : /\ [NoTab EXCEPT !.op = o, !.phase = "sent"] \in Visits
                                    /\ [NoTab EXCEPT !.op = o, !.phase = "sent"].phase # "read"
    BY DEF NoTab, Visits
  <2> QED
    BY <2>1, <2>2 DEF LoadProfile, HandleSubmitRequest, HandleSaveDirect
<1>6. /\ profileTab' \in [Users -> [Tabs -> Visits]]
      /\ \A v \in Users, w \in Tabs :
           profileTab'[v][w] = profileTab[v][w] \/ (v = u /\ profileTab'[v][w] = x)
  <2>1. CASE UNCHANGED profileTab
    BY <2>1 DEF TypeOK, TabsType
  <2>2. CASE SetTab(u, t, x)
    BY <2>2, SetVisit
  <2> QED
    BY <1>5, <2>1, <2>2
<1>7. PeopleType' /\ PagesType' /\ CallsType' /\ TabsType' /\ CountsType'
  BY <1>1, <1>3, <1>4, <1>6
     DEF people, rights, pages, TypeOK, PeopleType, PagesType, CallsType, TabsType, CountsType
<1> QED
  BY <1>1, <1>2, <1>5, <1>6, <1>7 DEF TypeOK, Quiet, pages

-----------------------------------------------------------------------------
(* What a step of the gateway does. *)

\* What the call at a slot becomes, the others staying.
Becomes(d, s, c) ==
  /\ calls'[d][s] = c
  /\ \A e \in Desks, r \in Slots : (e = d /\ r = s) \/ calls'[e][r] = calls[e][r]

LEMMA QuotaCheckStep ==
  ASSUME TypeOK, NEW d \in Desks, NEW s \in Slots, QuotaCheck(d, s)
  PROVE  /\ TypeOK' /\ calls[d][s] \in Calls /\ calls[d][s].u \in Users
         /\ calls[d][s].to = "active" /\ calls[d][s].phase = "sent"
         /\ \E p \in {"allowed", "refused"} : Becomes(d, s, [calls[d][s] EXCEPT !.phase = p])
<1> DEFINE c == calls[d][s]
<1>1. c.phase = "sent" /\ c.to = "active" /\ c \in Calls /\ c.u \in Users
  BY DEF QuotaCheck, TypeOK, CallsType
<1>2. PICK p \in {"allowed", "refused"} : Set(d, s, [c EXCEPT !.phase = p])
  BY DEF QuotaCheck
<1>3. /\ [c EXCEPT !.phase = p] \in Calls /\ [c EXCEPT !.phase = p].u = c.u
  BY <1>1 DEF Calls
<1>4. CallsType' /\ Becomes(d, s, [c EXCEPT !.phase = p])
  BY <1>1, <1>2, <1>3, SetCall DEF Becomes
<1>5. /\ UNCHANGED <<people, pages, profileTab, banner, clicks, overlap, late>>
      /\ rush' \in BOOLEAN
  BY DEF QuotaCheck, TypeOK, CountsType
<1>6. PeopleType' /\ PagesType' /\ TabsType' /\ CountsType'
  BY <1>5 DEF people, rights, pages, TypeOK, PeopleType, PagesType, TabsType, CountsType
<1> QED
  BY <1>1, <1>4, <1>6 DEF TypeOK

\* The call after the reads of ApproveUser.
ReadBy(c, m) ==
  /\ m \in Calls /\ m.u = c.u /\ m.to = c.to /\ m.k = c.k /\ m.grant = c.grant /\ m.phase = "read"
  /\ m.saw = LatestPending(c.u) /\ m.edit = OnEdit(c.u, m.saw) /\ m.meta = profile[c.u]
  /\ m.late \/ (c.k = 0 /\ account[c.u] = "pending") \/ c.k \in PendingOf(c.u)
  /\ m.late => c.u \in late'

LEMMA TxReadStep ==
  ASSUME TypeOK, NEW d \in Desks, NEW s \in Slots, TxRead(d, s)
  PROVE  /\ TypeOK' /\ calls[d][s] \in Calls /\ calls[d][s].u \in Users
         /\ \/ calls[d][s].phase = "allowed"
            \/ calls[d][s].phase = "sent" /\ calls[d][s].to = "rejected"
         /\ late \subseteq late' /\ UNCHANGED <<people, role, profileTab, rush>>
         /\ \/ /\ UNCHANGED overlap
               /\ Becomes(d, s, [calls[d][s] EXCEPT !.phase = "refused"])
            \/ /\ Begin(calls[d][s].u) /\ account[calls[d][s].u] # "deleted"
               /\ \E m \in Calls : ReadBy(calls[d][s], m) /\ Becomes(d, s, m)
<1> DEFINE c == calls[d][s]
           isLate == IF c.k = 0 THEN account[c.u] # "pending" ELSE c.k \notin PendingOf(c.u)
           m == [c EXCEPT !.phase = "read", !.saw = LatestPending(c.u),
                          !.edit = OnEdit(c.u, LatestPending(c.u)),
                          !.meta = profile[c.u], !.late = isLate]
<1>1. /\ c.phase = "allowed" \/ (c.phase = "sent" /\ c.to = "rejected")
      /\ c \in Calls /\ c.u \in Users
  BY DEF TxRead, TypeOK, CallsType
<1>2. UNCHANGED <<people, pages, profileTab, banner, clicks, rush>>
  BY DEF TxRead
<1>3. PeopleType' /\ PagesType' /\ TabsType'
  BY <1>2 DEF people, rights, pages, TypeOK, PeopleType, PagesType, TabsType
<1>a. UNCHANGED <<people, role, profileTab, rush>>
  BY <1>2 DEF pages
<1>4. CASE account[c.u] = "deleted"
  <2>1. Set(d, s, [c EXCEPT !.phase = "refused"]) /\ UNCHANGED <<overlap, late>>
    BY <1>4 DEF TxRead
  <2>2. [c EXCEPT !.phase = "refused"] \in Calls /\ [c EXCEPT !.phase = "refused"].u = c.u
    BY <1>1 DEF Calls
  <2>3. CallsType' /\ Becomes(d, s, [c EXCEPT !.phase = "refused"])
    BY <1>1, <2>1, <2>2, SetCall DEF Becomes
  <2>4. CountsType'
    BY <1>2, <2>1 DEF TypeOK, CountsType
  <2>5. TypeOK'
    BY <1>3, <2>3, <2>4 DEF TypeOK
  <2> QED
    BY <1>1, <1>a, <2>1, <2>3, <2>5
<1>5. CASE account[c.u] # "deleted"
  <2>1. /\ Set(d, s, m) /\ Begin(c.u)
        /\ late' = IF isLate THEN late \cup {c.u} ELSE late
    BY <1>5 DEF TxRead
  <2>2. /\ LatestPending(c.u) \in Nat /\ profile[c.u] \in SUBSET Nat
        /\ isLate \in BOOLEAN /\ OnEdit(c.u, LatestPending(c.u)) \in BOOLEAN
    BY <1>1, LatestIsPending DEF TypeOK, PeopleType, OnEdit
  <2>3. /\ m \in Calls /\ m.u = c.u /\ m.to = c.to /\ m.k = c.k /\ m.phase = "read"
        /\ m.grant = c.grant
        /\ m.saw = LatestPending(c.u) /\ m.edit = OnEdit(c.u, LatestPending(c.u))
        /\ m.meta = profile[c.u] /\ m.late = isLate
    <3> HIDE DEF isLate
    <3> QED
      BY <1>1, <2>2 DEF Calls
  <2>4. PICK n \in Calls : n = m
    BY <2>3
  <2>5. ReadBy(c, n)
    <3>1. n.late = isLate
      BY <2>3, <2>4
    <3>2. n.late => c.u \in late'
      BY <3>1, <2>1
    <3>3. n.late \/ (c.k = 0 /\ account[c.u] = "pending") \/ c.k \in PendingOf(c.u)
      BY <3>1
    <3> HIDE DEF m
    <3> QED
      BY <2>3, <2>4, <3>2, <3>3 DEF ReadBy
  <2>6. CallsType' /\ Becomes(d, s, n)
    <3> HIDE DEF m
    <3> QED
      BY <1>1, <2>1, <2>3, <2>4, SetCall DEF Becomes
  <2>7. CountsType' /\ late \subseteq late'
    <3>1. late' \subseteq Users /\ late \subseteq late'
      BY <1>1, <2>1 DEF TypeOK, CountsType
    <3>2. overlap' \subseteq Users
      BY <1>1, <2>1 DEF TypeOK, CountsType, Begin
    <3> QED
      BY <1>2, <3>1, <3>2 DEF TypeOK, CountsType
  <2>8. TypeOK'
    BY <1>3, <2>6, <2>7 DEF TypeOK
  <2> HIDE DEF m, isLate
  <2> QED
    BY <1>1, <1>a, <1>5, <2>1, <2>5, <2>6, <2>7, <2>8
<1> QED
  BY <1>4, <1>5

\* How ApproveUser writes: an edit into the metadata, anything else into the
\* account; no request is pending afterwards.
Writes(c) ==
  /\ reqs' = Reviewed(c.u, Outcome(c.to)) /\ UNCHANGED crowd
  /\ c.edit => /\ UNCHANGED <<account, rights>>
               /\ profile' = IF c.to = "active"
                             THEN [profile EXCEPT ![c.u] = c.meta \cup {c.saw}] ELSE profile
  /\ ~c.edit => /\ account' = [account EXCEPT ![c.u] = c.to] /\ UNCHANGED profile
                /\ IF c.to = "active" THEN Granted(c) /\ hired' = hired \cup {c.u}
                   ELSE UNCHANGED rights

LEMMA TxWriteStep ==
  ASSUME TypeOK, CallInv, NEW d \in Desks, NEW s \in Slots, TxWrite(d, s)
  PROVE  /\ TypeOK' /\ calls[d][s] \in Calls /\ calls[d][s].u \in Users
         /\ calls[d][s].phase = "read" /\ calls[d][s].to \in {"active", "rejected"}
         /\ UNCHANGED <<role, profileTab, overlap, late, rush>>
         /\ \E p \in {"done", "refused"} : Becomes(d, s, [calls[d][s] EXCEPT !.phase = p])
         /\ IF account[calls[d][s].u] = "deleted" THEN UNCHANGED people ELSE Writes(calls[d][s])
<1> DEFINE c == calls[d][s]
<1>1. c.phase = "read" /\ c \in Calls /\ c.u \in Users /\ c.to \in {"active", "rejected"}
  BY DEF TxWrite, TypeOK, CallsType, CallInv, SoundCall
<1>2. PICK p \in {"done", "refused"} : Set(d, s, [c EXCEPT !.phase = p])
  BY DEF TxWrite
<1>3. [c EXCEPT !.phase = p] \in Calls /\ [c EXCEPT !.phase = p].u = c.u
  BY <1>1 DEF Calls
<1>4. CallsType' /\ Becomes(d, s, [c EXCEPT !.phase = p])
  BY <1>1, <1>2, <1>3, SetCall DEF Becomes
<1>5. UNCHANGED <<pages, profileTab, banner, clicks, overlap, late, rush>>
  BY DEF TxWrite
<1>6. IF account[c.u] = "deleted" THEN UNCHANGED people ELSE Writes(c)
  <2>1. CASE account[c.u] = "deleted"
    BY <2>1 DEF TxWrite
  <2>2. CASE account[c.u] # "deleted"
    BY <2>2 DEF TxWrite, Writes
  <2> QED
    BY <2>1, <2>2
<1>7. PeopleType'
  <2>1. CASE UNCHANGED people
    BY <2>1 DEF TypeOK, PeopleType, people, rights
  <2>2. CASE Writes(c)
    <3>1. c.meta \in SUBSET Nat /\ c.saw \in Nat
      BY <1>1 DEF Calls
    <3>2. /\ account \in [Users -> {"pending", "active", "rejected", "ISOLATED", "deleted"}]
          /\ granted \subseteq holders /\ holders \subseteq Users /\ hired \subseteq Users
          /\ crowd \in Nat /\ profile \in [Users -> SUBSET Nat]
      BY DEF TypeOK, PeopleType
    <3>3. Outcome(c.to) \in {"APPROVED", "REJECTED"}
      BY DEF Outcome
    <3>4. reqs' \in [Users -> Seq(Requests)]
      BY <1>1, <2>2, <3>3, ReviewedIs DEF Writes, Restated
    <3>5. account' \in [Users -> {"pending", "active", "rejected", "ISOLATED", "deleted"}]
      BY <1>1, <2>2, <3>2 DEF Writes
    <3>6. profile' \in [Users -> SUBSET Nat]
      BY <1>1, <2>2, <3>1, <3>2 DEF Writes
    <3>7. /\ granted' \subseteq holders' /\ holders' \subseteq Users /\ hired' \subseteq Users
          /\ crowd' \in Nat
      BY <1>1, <2>2, <3>2 DEF Writes, Granted, rights
    <3> QED
      BY <3>4, <3>5, <3>6, <3>7 DEF PeopleType
  <2> QED
    BY <1>6, <2>1, <2>2
<1>8. PagesType' /\ TabsType' /\ CountsType'
  BY <1>5 DEF pages, TypeOK, PagesType, TabsType, CountsType
<1>9. TypeOK' /\ UNCHANGED <<role, profileTab, overlap, late, rush>>
  BY <1>4, <1>5, <1>7, <1>8 DEF TypeOK, pages
<1> QED
  BY <1>1, <1>4, <1>6, <1>9

\* One transaction of the account operations.
Changes(c) ==
  /\ UNCHANGED <<hired, profile, crowd>>
  /\ \/ c.to = "assign" /\ UNCHANGED <<account, reqs>> /\ Granted(c) /\ (c.grant = "asked" => rush')
     \/ /\ c.to = "deleted" /\ account' = [account EXCEPT ![c.u] = "deleted"]
        /\ granted' = granted \ {c.u} /\ holders' = holders \ {c.u}
        /\ reqs' = [reqs EXCEPT ![c.u] = <<>>]
     \/ /\ c.to = "ISOLATED" /\ account' = [account EXCEPT ![c.u] = "ISOLATED"]
        /\ UNCHANGED <<granted, holders>> /\ reqs' = Isolated(c.u)

LEMMA AccountTxStep ==
  ASSUME TypeOK, NEW d \in Desks, NEW s \in Slots, AccountTx(d, s)
  PROVE  /\ TypeOK' /\ calls[d][s] \in Calls /\ calls[d][s].u \in Users
         /\ calls[d][s].to \in {"ISOLATED", "deleted", "assign"} /\ calls[d][s].phase = "sent"
         /\ UNCHANGED <<role, profileTab, late>> /\ (rush => rush') /\ Begin(calls[d][s].u)
         /\ \E p \in {"done", "refused"} : Becomes(d, s, [calls[d][s] EXCEPT !.phase = p])
         /\ UNCHANGED people \/ (account[calls[d][s].u] # "deleted" /\ Changes(calls[d][s]))
<1> DEFINE c == calls[d][s]
<1>1. /\ c.phase = "sent" /\ c \in Calls /\ c.u \in Users
      /\ c.to \in {"ISOLATED", "deleted", "assign"}
  BY DEF AccountTx, TypeOK, CallsType
<1>2. PICK p \in {"done", "refused"} : Set(d, s, [c EXCEPT !.phase = p])
  BY DEF AccountTx
<1>3. [c EXCEPT !.phase = p] \in Calls /\ [c EXCEPT !.phase = p].u = c.u
  BY <1>1 DEF Calls
<1>4. CallsType' /\ Becomes(d, s, [c EXCEPT !.phase = p])
  BY <1>1, <1>2, <1>3, SetCall DEF Becomes
<1>5. /\ UNCHANGED <<pages, profileTab, banner, clicks, late>> /\ Begin(c.u)
      /\ rush' = (rush \/ (c.to = "assign" /\ c.grant = "asked"))
  BY DEF AccountTx
<1>6. UNCHANGED people \/ (account[c.u] # "deleted" /\ Changes(c))
  <2>1. CASE account[c.u] = "deleted"
    BY <2>1 DEF AccountTx
  <2>2. CASE account[c.u] # "deleted"
    <3>1. CASE c.to = "assign"
      BY <1>5, <2>2, <3>1 DEF AccountTx, Changes
    <3>2. CASE c.to = "deleted"
      BY <2>2, <3>2 DEF AccountTx, Changes
    <3>3. CASE c.to = "ISOLATED"
      BY <2>2, <3>3 DEF AccountTx, Changes
    <3> QED
      BY <1>1, <3>1, <3>2, <3>3
  <2> QED
    BY <2>1, <2>2
<1>7. PeopleType'
  <2>1. CASE UNCHANGED people
    BY <2>1 DEF TypeOK, PeopleType, people, rights
  <2>2. CASE Changes(c)
    <3>1. /\ account \in [Users -> {"pending", "active", "rejected", "ISOLATED", "deleted"}]
          /\ granted \subseteq holders /\ holders \subseteq Users /\ hired \subseteq Users
          /\ crowd \in Nat /\ profile \in [Users -> SUBSET Nat]
          /\ reqs \in [Users -> Seq(Requests)] /\ <<>> \in Seq(Requests)
      BY DEF TypeOK, PeopleType
    <3>2. Isolated(c.u) \in [Users -> Seq(Requests)]
      BY <1>1, IsolatedIs DEF Restated
    <3>3. reqs' \in [Users -> Seq(Requests)]
      BY <1>1, <2>2, <3>1, <3>2 DEF Changes
    <3>4. /\ account' \in [Users -> {"pending", "active", "rejected", "ISOLATED", "deleted"}]
          /\ profile' \in [Users -> SUBSET Nat]
      BY <1>1, <2>2, <3>1 DEF Changes
    <3>5. /\ granted' \subseteq holders' /\ holders' \subseteq Users /\ hired' \subseteq Users
          /\ crowd' \in Nat
      BY <1>1, <2>2, <3>1 DEF Changes, Granted
    <3> QED
      BY <3>3, <3>4, <3>5 DEF PeopleType
  <2> QED
    BY <1>6, <2>1, <2>2
<1>8. PagesType' /\ TabsType'
  BY <1>5 DEF pages, TypeOK, PagesType, TabsType
<1>9. CountsType'
  BY <1>1, <1>5 DEF TypeOK, CountsType, Begin
<1>10. TypeOK' /\ UNCHANGED <<role, profileTab, late>>
  BY <1>4, <1>5, <1>7, <1>8, <1>9 DEF TypeOK, pages
<1> QED
  BY <1>1, <1>4, <1>5, <1>6, <1>10

\* What the page at a tab becomes, the others staying.
Turns(u, t, x) ==
  /\ profileTab'[u][t] = x
  /\ \A v \in Users, w \in Tabs : (v = u /\ w = t) \/ profileTab'[v][w] = profileTab[v][w]

LEMMA ProfileReadStep ==
  ASSUME TypeOK, NEW u \in Users, NEW t \in Tabs, ProfileRead(u, t)
  PROVE  /\ TypeOK' /\ profileTab[u][t].phase = "sent"
         /\ UNCHANGED <<people, role, calls, late, rush>>
         /\ \/ Turns(u, t, NoTab) /\ UNCHANGED overlap
            \/ /\ Begin(u)
               /\ profileTab[u][t].op = "edit" => PendingOf(u) = {}
               /\ \E x \in Visits : /\ x.phase = "read" /\ x.op = profileTab[u][t].op
                                    /\ x.seen = profile[u] /\ Turns(u, t, x)
<1> DEFINE y == profileTab[u][t]
           x == [y EXCEPT !.phase = "read", !.seen = profile[u]]
<1>1. y \in Visits /\ profile[u] \in SUBSET Nat /\ NoTab \in Visits
  BY DEF TypeOK, TabsType, PeopleType, NoTab, Visits
<1>2. x \in Visits /\ x.phase = "read" /\ x.op = y.op /\ x.seen = profile[u]
  BY <1>1 DEF Visits
<1> HIDE DEF x
<1>3. /\ y.phase = "sent" /\ UNCHANGED <<people, pages, calls, banner, clicks, late, rush>>
      /\ \/ SetTab(u, t, NoTab) /\ UNCHANGED overlap
         \/ /\ SetTab(u, t, x) /\ Begin(u)
            /\ y.op = "edit" => PendingOf(u) = {}
  BY DEF ProfileRead, x
<1>4. PICK z \in Visits : z \in {NoTab, x} /\ SetTab(u, t, z)
  BY <1>1, <1>2, <1>3
<1>5. profileTab' \in [Users -> [Tabs -> Visits]] /\ Turns(u, t, z)
  BY <1>4, SetVisit DEF Turns
<1>6. CountsType'
  BY <1>3 DEF TypeOK, CountsType, Begin
<1>7. PeopleType' /\ PagesType' /\ CallsType' /\ TabsType'
  BY <1>3, <1>5 DEF people, rights, pages, TypeOK, PeopleType, PagesType, CallsType, TabsType
<1>8. /\ SetTab(u, t, NoTab) => Turns(u, t, NoTab)
      /\ SetTab(u, t, x) => Turns(u, t, x)
  BY <1>1, <1>2, SetVisit DEF Turns
<1>9. TypeOK' /\ UNCHANGED <<people, role, calls, late, rush>>
  BY <1>3, <1>6, <1>7 DEF TypeOK, pages
<1> QED
  BY <1>2, <1>3, <1>8, <1>9

LEMMA InsertRequestStep ==
  ASSUME TypeOK, NEW u \in Users, NEW t \in Tabs, InsertRequest(u, t)
  PROVE  /\ TypeOK' /\ profileTab[u][t].phase = "read" /\ profileTab[u][t].op = "edit"
         /\ UNCHANGED <<account, rights, profile, crowd, role, calls, overlap, late, rush>>
         /\ Turns(u, t, NoTab)
         /\ \/ account[u] = "deleted" /\ UNCHANGED reqs
            \/ reqs' = [reqs EXCEPT ![u] = Append(reqs[u], Request("edit", "PENDING"))]
<1>1. NoTab \in Visits /\ Request("edit", "PENDING") \in Requests
  BY DEF NoTab, Visits, Request, Requests
<1>2. /\ SetTab(u, t, NoTab) /\ profileTab[u][t].phase = "read" /\ profileTab[u][t].op = "edit"
      /\ UNCHANGED <<account, rights, profile, crowd, pages, calls, clicks, overlap, late, rush>>
      /\ \/ account[u] = "deleted" /\ UNCHANGED <<reqs, banner>>
         \/ /\ reqs' = [reqs EXCEPT ![u] = Append(reqs[u], Request("edit", "PENDING"))]
            /\ banner' = [banner EXCEPT ![u][t] = TRUE]
  BY DEF InsertRequest
<1>3. profileTab' \in [Users -> [Tabs -> Visits]] /\ Turns(u, t, NoTab)
  BY <1>1, <1>2, SetVisit DEF Turns
<1>4. banner' \in [Users -> [Tabs -> BOOLEAN]]
  <2>1. banner \in [Users -> [Tabs -> BOOLEAN]] /\ banner[u] \in [Tabs -> BOOLEAN]
    BY DEF TypeOK, TabsType
  <2>2. PICK b \in BOOLEAN : b = TRUE
    OBVIOUS
  <2>3. UNCHANGED banner \/ banner' = [banner EXCEPT ![u][t] = b]
    BY <1>2, <2>2
  <2> QED
    BY <2>1, <2>3
<1>5. reqs' \in [Users -> Seq(Requests)]
  <2>1. reqs \in [Users -> Seq(Requests)] /\ reqs[u] \in Seq(Requests)
    BY DEF TypeOK, PeopleType
  <2>2. Append(reqs[u], Request("edit", "PENDING")) \in Seq(Requests)
    BY <1>1, <2>1
  <2> QED
    BY <1>2, <2>1, <2>2
<1>6. PeopleType' /\ PagesType' /\ CallsType' /\ TabsType' /\ CountsType'
  BY <1>2, <1>3, <1>4, <1>5
     DEF pages, rights, TypeOK, PeopleType, PagesType, CallsType, TabsType, CountsType
<1> QED
  BY <1>2, <1>3, <1>6 DEF TypeOK, pages

LEMMA UpdateProfileStep ==
  ASSUME TypeOK, NEW u \in Users, NEW t \in Tabs, UpdateProfile(u, t)
  PROVE  /\ TypeOK' /\ profileTab[u][t].phase = "read"
         /\ UNCHANGED <<account, rights, reqs, crowd, role, calls, overlap, late, rush>>
         /\ Turns(u, t, NoTab) /\ profile' = [profile EXCEPT ![u] = profileTab[u][t].seen]
<1>1. NoTab \in Visits /\ profileTab[u][t] \in Visits
  BY DEF NoTab, Visits, TypeOK, TabsType
<1>2. /\ SetTab(u, t, NoTab) /\ profileTab[u][t].phase = "read"
      /\ profile' = [profile EXCEPT ![u] = profileTab[u][t].seen]
      /\ UNCHANGED <<account, rights, reqs, crowd, pages, calls, banner, clicks, overlap, late, rush>>
  BY DEF UpdateProfile
<1>3. profileTab' \in [Users -> [Tabs -> Visits]] /\ Turns(u, t, NoTab)
  BY <1>1, <1>2, SetVisit DEF Turns
<1>4. profile' \in [Users -> SUBSET Nat]
  BY <1>1, <1>2 DEF TypeOK, PeopleType, Visits
<1>5. PeopleType' /\ PagesType' /\ CallsType' /\ TabsType' /\ CountsType'
  BY <1>2, <1>3, <1>4
     DEF pages, rights, TypeOK, PeopleType, PagesType, CallsType, TabsType, CountsType
<1> QED
  BY <1>2, <1>3, <1>5 DEF TypeOK, pages

\* Seats of other members.
LEMMA CrowdStep ==
  ASSUME TypeOK, SeatTaken \/ SeatFreed
  PROVE  /\ TypeOK'
         /\ UNCHANGED <<account, rights, reqs, profile, role, calls, profileTab, overlap, late>>
<1>1. /\ UNCHANGED <<account, rights, reqs, profile, pages, calls, profileTab, banner, clicks,
                     overlap, late>>
      /\ crowd' \in Nat
  BY DEF SeatTaken, SeatFreed, TypeOK, PeopleType
<1>a. rush' \in BOOLEAN
  <2>1. rush \in BOOLEAN
    BY DEF TypeOK, CountsType
  <2> QED
    BY <2>1, Zenon DEF SeatTaken, SeatFreed
<1>2. PeopleType' /\ PagesType' /\ CallsType' /\ TabsType' /\ CountsType'
  BY <1>1, <1>a DEF pages, rights, TypeOK, PeopleType, PagesType, CallsType, TabsType, CountsType
<1> QED
  BY <1>1, <1>2 DEF TypeOK, pages

LEMMA StepCases ==
  ASSUME TypeOK, CallInv, [Next]_vars
  PROVE  \/ TypeOK' /\ Quiet
         \/ SeatTaken \/ SeatFreed
         \/ \E d \in Desks, s \in Slots :
              QuotaCheck(d, s) \/ TxRead(d, s) \/ TxWrite(d, s) \/ AccountTx(d, s)
         \/ \E u \in Users, t \in Tabs :
              ProfileRead(u, t) \/ InsertRequest(u, t) \/ UpdateProfile(u, t)
<1>1. CASE UNCHANGED vars
  <2>1. /\ UNCHANGED <<people, role, page, rejecting, roster, stored, calls, profileTab, banner,
                       clicks, overlap, late, rush>>
    BY <1>1 DEF vars, pages
  <2>2. PeopleType' /\ PagesType' /\ CallsType' /\ TabsType' /\ CountsType'
    BY <2>1 DEF people, rights, TypeOK, PeopleType, PagesType, CallsType, TabsType, CountsType
  <2> QED
    BY <2>1, <2>2 DEF Quiet, TypeOK
<1>2. ASSUME NEW d \in Desks, Desk(d) PROVE TypeOK' /\ Quiet
  BY <1>2, DeskIsQuiet
<1>3. ASSUME NEW d \in Desks, NEW s \in Slots, Lost(d, s) \/ Answer(d, s) PROVE TypeOK' /\ Quiet
  BY <1>3, AnswerIsQuiet
<1>4. ASSUME NEW u \in Users, NEW t \in Tabs,
             LoadProfile(u, t) \/ HandleSubmitRequest(u, t) \/ HandleSaveDirect(u, t)
      PROVE  TypeOK' /\ Quiet
  BY <1>4, VisitIsQuiet
<1> QED
  BY <1>1, <1>2, <1>3, <1>4 DEF Next, Gateway, ProfilePage

\* Moving a call on, or reading for it, keeps it sound.
LEMMA SoundOn ==
  ASSUME NEW c \in Calls, SoundCall(c), NEW p \in {"refused", "done"}
  PROVE  SoundCall([c EXCEPT !.phase = p])
BY DEF SoundCall, Calls

LEMMA NextTypes == TypeOK /\ CallInv /\ [Next]_vars => TypeOK' /\ CallInv'
<1> SUFFICES ASSUME TypeOK, CallInv, [Next]_vars PROVE TypeOK' /\ CallInv'
  OBVIOUS
<1> USE DEF CallInv
<1>1. CASE TypeOK' /\ Quiet
  <2>1. \A d \in Desks, s \in Slots : SoundCall(calls[d][s]) => SoundCall(calls[d][s])'
                                      \/ calls'[d][s] # calls[d][s]
    BY <1>1 DEF Quiet, SoundCall
  <2>2. \A d \in Desks, s \in Slots : SoundCall(calls'[d][s]) => SoundCall(calls[d][s])'
    BY <1>1 DEF Quiet, SoundCall
  <2> QED
    BY <1>1, <2>1, <2>2 DEF Quiet
<1>2. CASE SeatTaken \/ SeatFreed
  BY <1>2, CrowdStep DEF SoundCall
<1>3. ASSUME NEW d \in Desks, NEW s \in Slots, QuotaCheck(d, s) PROVE TypeOK' /\ CallInv'
  <2>1. UNCHANGED late
    BY <1>3 DEF QuotaCheck
  <2>2. PICK p \in {"allowed", "refused"} : Becomes(d, s, [calls[d][s] EXCEPT !.phase = p])
    BY <1>3, QuotaCheckStep
  <2>3. TypeOK' /\ calls[d][s] \in Calls /\ calls[d][s].to = "active" /\ calls[d][s].phase = "sent"
    BY <1>3, QuotaCheckStep
  <2>4. SoundCall(calls[d][s])'
    BY <2>1, <2>2, <2>3 DEF Becomes, SoundCall, Calls
  <2>5. \A e \in Desks, r \in Slots : (e = d /\ r = s) \/ SoundCall(calls[e][r])'
    BY <2>1, <2>2 DEF Becomes, SoundCall
  <2> QED
    BY <2>3, <2>4, <2>5
<1>4. ASSUME NEW d \in Desks, NEW s \in Slots, TxRead(d, s) PROVE TypeOK' /\ CallInv'
  <2> DEFINE c == calls[d][s]
  <2>1. /\ TypeOK' /\ c \in Calls /\ late \subseteq late' /\ SoundCall(c)
        /\ c.phase = "allowed" \/ (c.phase = "sent" /\ c.to = "rejected")
    BY <1>4, TxReadStep
  <2>2. PICK m \in Calls : Becomes(d, s, m) /\ (m = [c EXCEPT !.phase = "refused"] \/ ReadBy(c, m))
    <3>1. [c EXCEPT !.phase = "refused"] \in Calls
      BY <2>1 DEF Calls
    <3> QED
      BY <1>4, <3>1, TxReadStep
  <2>3. SoundCall(calls[d][s])'
    <3>1. CASE m = [c EXCEPT !.phase = "refused"]
      <4>1. SoundCall(m)
        BY <2>1, <3>1, SoundOn
      <4> QED
        BY <2>1, <2>2, <4>1 DEF Becomes, SoundCall
    <3>2. CASE ReadBy(c, m)
      BY <2>1, <2>2, <3>2 DEF Becomes, SoundCall, ReadBy
    <3> QED
      BY <2>2, <3>1, <3>2
  <2>4. \A e \in Desks, r \in Slots : (e = d /\ r = s) \/ SoundCall(calls[e][r])'
    BY <2>1, <2>2 DEF Becomes, SoundCall
  <2> QED
    BY <2>1, <2>3, <2>4
<1>5. ASSUME NEW d \in Desks, NEW s \in Slots, TxWrite(d, s) \/ AccountTx(d, s)
      PROVE  TypeOK' /\ CallInv'
  <2>1. TypeOK' /\ calls[d][s] \in Calls /\ UNCHANGED late
    BY <1>5, TxWriteStep, AccountTxStep
  <2>2. PICK p \in {"done", "refused"} : Becomes(d, s, [calls[d][s] EXCEPT !.phase = p])
    BY <1>5, TxWriteStep, AccountTxStep
  <2>3. SoundCall([calls[d][s] EXCEPT !.phase = p])
    BY <2>1, SoundOn
  <2>4. SoundCall(calls[d][s])'
    BY <2>1, <2>2, <2>3 DEF Becomes, SoundCall
  <2>5. \A e \in Desks, r \in Slots : (e = d /\ r = s) \/ SoundCall(calls[e][r])'
    BY <2>1, <2>2 DEF Becomes, SoundCall
  <2> QED
    BY <2>1, <2>4, <2>5
<1>6. ASSUME NEW u \in Users, NEW t \in Tabs,
             ProfileRead(u, t) \/ InsertRequest(u, t) \/ UpdateProfile(u, t)
      PROVE  TypeOK' /\ CallInv'
  <2>1. TypeOK' /\ UNCHANGED <<calls, late>>
    BY <1>6, ProfileReadStep, InsertRequestStep, UpdateProfileStep
  <2> QED
    BY <2>1 DEF SoundCall
<1> QED
  BY <1>1, <1>2, <1>3, <1>4, <1>5, <1>6, StepCases

LEMMA InitTypes == Init => TypeOK /\ CallInv
<1> SUFFICES ASSUME Init PROVE TypeOK /\ CallInv
  OBVIOUS
<1> USE ApprovalsAssumption
<1>1. PeopleType
  <2>1. \A b \in {"PENDING", "APPROVED"} : <<Request("signup", b)>> \in Seq(Requests)
    BY DEF Request, Requests
  <2>2. reqs \in [Users -> Seq(Requests)]
    BY <2>1 DEF Init
  <2>3. crowd \in Nat
    BY DEF Init
  <2> QED
    BY <2>2, <2>3 DEF Init, PeopleType
<1>2. PagesType
  BY DEF Init, PagesType
<1>3. NoCall \in Calls /\ NoCall.phase = "none" /\ ~NoCall.late /\ NoCall.to = "none"
  BY DEF NoCall, Calls
<1>4. calls = [d \in Desks |-> [s \in Slots |-> NoCall]]
  BY DEF Init
<1>5. CallsType /\ CallInv
  BY <1>3, <1>4 DEF CallsType, CallInv, SoundCall
<1>6. TabsType
  BY DEF Init, TabsType, NoTab, Visits
<1>7. CountsType
  <2>1. clicks \in 0 .. MaxClicks
    BY DEF Init
  <2>2. rush \in BOOLEAN /\ overlap \subseteq Users /\ late \subseteq Users
    BY Zenon DEF Init
  <2> QED
    BY <2>1, <2>2 DEF CountsType
<1> QED
  BY <1>1, <1>2, <1>5, <1>6, <1>7 DEF TypeOK

LEMMA TypeInvariant == Spec => [](TypeOK /\ CallInv)
BY InitTypes, NextTypes, PTL DEF Spec

\* The state of accounts, requests, profiles, calls and pages is well typed for
\* any number of people and pages; in particular ApproveUser finds a pending
\* request whenever there is one.
THEOREM ApprovalsTypeCorrect == Spec => []TypeOK
BY TypeInvariant, PTL

-----------------------------------------------------------------------------
(* Requests and records of one user. *)

\* A step that opens no transaction on v and changes nothing of v.
Spares(v) ==
  /\ account'[v] = account[v] /\ reqs'[v] = reqs[v] /\ profile'[v] = profile[v]
  /\ v \in overlap => v \in overlap'
  /\ \A d \in Desks, s \in Slots : OpenCall(d, s, v)' => calls'[d][s] = calls[d][s]
  /\ \A t \in Tabs : \/ profileTab'[v][t] = profileTab[v][t]
                     \/ profileTab'[v][t].phase = "none"
                     \/ profileTab'[v][t].phase # "read" /\ account[v] # "pending"

LEMMA SparedIsKept ==
  ASSUME NEW v \in Users, Candidate(v), Undisturbed(v), Spares(v)
  PROVE  Candidate(v)' /\ Undisturbed(v)'
<1>1. Candidate(v)'
  BY DEF Candidate, Spares
<1>2. ASSUME v \notin overlap' PROVE Undisturbed(v)'
  <2>1. OneOpen(v) /\ Fresh(v) /\ (account[v] # "deleted" => Records(v))
    BY <1>2 DEF Undisturbed, Spares
  <2>2. PendingOf(v)' = PendingOf(v) /\ LatestPending(v)' = LatestPending(v)
    BY DEF Spares, PendingOf, LatestPending
  <2>3. \A d \in Desks, s \in Slots : OpenCall(d, s, v)' => OpenCall(d, s, v)
    BY DEF Spares, OpenCall
  <2>4. \A t \in Tabs : OpenTab(v, t)' => OpenTab(v, t) /\ profileTab'[v][t] = profileTab[v][t]
    BY DEF Spares, OpenTab
  <2>5. OneOpen(v)'
    BY <2>1, <2>3, <2>4 DEF OneOpen
  <2>6. ASSUME NEW d \in Desks, NEW s \in Slots, OpenCall(d, s, v)'
        PROVE  FreshCall(calls[d][s])'
    <3>1. calls'[d][s] = calls[d][s] /\ calls[d][s].u = v /\ FreshCall(calls[d][s])
      BY <2>1, <2>3, <2>6 DEF Spares, Fresh, OpenCall
    <3> QED
      BY <2>2, <3>1 DEF FreshCall, OnEdit, Spares
  <2>7. ASSUME NEW t \in Tabs, OpenTab(v, t)' PROVE FreshTab(v, t)'
    BY <2>1, <2>2, <2>4, <2>7 DEF Fresh, FreshTab, Spares
  <2>8. (account[v] # "deleted" => Records(v))'
    BY <2>1, <2>2 DEF Records, Spares
  <2> QED
    BY <2>5, <2>6, <2>7, <2>8 DEF Undisturbed, Fresh
<1> QED
  BY <1>1, <1>2 DEF Undisturbed

\* Nothing is open on v.
Idle(v) == (\A d \in Desks, s \in Slots : ~OpenCall(d, s, v)) /\ (\A t \in Tabs : ~OpenTab(v, t))

LEMMA NotOpen ==
  ASSUME NEW u \in Users, Begin(u)
  PROVE  /\ u \notin overlap' => Idle(u) /\ u \notin overlap
         /\ \A v \in Users : v \in overlap => v \in overlap'
BY DEF Begin, Open, Idle, OpenCall, OpenTab

\* Who has nothing open is undisturbed when the records are in order.
LEMMA IdleIsFresh ==
  ASSUME NEW v \in Users, Idle(v)', account'[v] # "deleted" => Records(v)'
  PROVE  Undisturbed(v)'
BY DEF Idle, Undisturbed, OneOpen, Fresh

LEMMA NextReadReview ==
  ASSUME TypeOK, CallInv, ReviewInv, NEW d \in Desks, NEW s \in Slots, TxRead(d, s)
  PROVE  ReviewInv'
<1> DEFINE c == calls[d][s]
<1>1. /\ c \in Calls /\ c.u \in Users /\ UNCHANGED <<account, reqs, profile, profileTab>>
  BY TxReadStep DEF people
<1> SUFFICES ASSUME NEW v \in Users PROVE Candidate(v)' /\ Undisturbed(v)'
  BY DEF ReviewInv
<1>2. Candidate(v) /\ Undisturbed(v)
  BY DEF ReviewInv
<1>3. CASE UNCHANGED overlap /\ Becomes(d, s, [calls[d][s] EXCEPT !.phase = "refused"])
  <2>a. \A e \in Desks, r \in Slots : OpenCall(e, r, v)' => calls'[e][r] = calls[e][r]
    BY <1>1, <1>3 DEF Becomes, Calls, OpenCall
  <2>1. Spares(v)
    BY <1>1, <1>3, <2>a DEF Spares
  <2> QED
    BY <1>2, <2>1, SparedIsKept
<1>4. CASE /\ Begin(c.u) /\ account[c.u] # "deleted"
           /\ \E m \in Calls : ReadBy(c, m) /\ Becomes(d, s, m)
  <2>1. PICK m \in Calls : ReadBy(c, m) /\ Becomes(d, s, m)
    BY <1>4
  <2>2. CASE v # c.u \/ v \in overlap'
    <3>1. CASE v # c.u
      <4>1. \A e \in Desks, r \in Slots : OpenCall(e, r, v)' => calls'[e][r] = calls[e][r]
        BY <2>1, <3>1 DEF OpenCall, Becomes, ReadBy
      <4>2. v \in overlap => v \in overlap'
        BY <1>1, <1>4, NotOpen
      <4>3. Spares(v)
        BY <1>1, <4>1, <4>2 DEF Spares
      <4> QED
        BY <1>2, <4>3, SparedIsKept
    <3>2. CASE v \in overlap'
      BY <1>1, <1>2, <3>2 DEF Undisturbed, Candidate
    <3> QED
      BY <2>2, <3>1, <3>2
  <2>3. CASE v = c.u /\ v \notin overlap'
    <3>1. Idle(v) /\ v \notin overlap
      BY <1>1, <1>4, <2>3, NotOpen
    <3>2. \A e \in Desks, r \in Slots : OpenCall(e, r, v)' => e = d /\ r = s
      BY <2>1, <3>1 DEF Becomes, Idle, OpenCall
    <3>3. \A t \in Tabs : ~OpenTab(v, t)'
      BY <1>1, <3>1 DEF Idle, OpenTab
    <3>4. PendingOf(v)' = PendingOf(v) /\ LatestPending(v)' = LatestPending(v)
      BY <1>1 DEF PendingOf, LatestPending
    <3>5. FreshCall(calls[d][s])'
      <4>1. calls'[d][s] = m /\ m.u = v
        BY <2>1, <2>3 DEF Becomes, ReadBy
      <4>2. /\ m.meta = profile[v] /\ m.saw = LatestPending(v) /\ m.edit = OnEdit(v, m.saw)
            /\ m.late \/ (m.k = 0 /\ account[v] = "pending") \/ m.k \in PendingOf(v)
        BY <2>1, <2>3 DEF ReadBy
      <4> QED
        BY <1>1, <3>4, <4>1, <4>2 DEF FreshCall, OnEdit
    <3>6. (account[v] # "deleted" => Records(v))'
      BY <1>1, <1>2, <3>1, <3>4 DEF Undisturbed, Records
    <3>7. Candidate(v)'
      BY <1>1, <1>2 DEF Candidate
    <3>8. OneOpen(v)' /\ Fresh(v)'
      BY <3>2, <3>3, <3>5 DEF OneOpen, Fresh
    <3> QED
      BY <3>6, <3>7, <3>8 DEF Undisturbed
  <2> QED
    BY <2>2, <2>3
<1> QED
  BY <1>3, <1>4, TxReadStep

\* A review closes every request that was pending: the one that was read, when
\* nothing came in between.
LEMMA NextWriteReview ==
  ASSUME TypeOK, CallInv, ReviewInv, NEW d \in Desks, NEW s \in Slots, TxWrite(d, s)
  PROVE  ReviewInv'
<1> DEFINE c == calls[d][s]
<1>1. /\ c \in Calls /\ c.u \in Users /\ c.phase = "read" /\ c.to \in {"active", "rejected"}
      /\ UNCHANGED <<profileTab, overlap>>
  BY TxWriteStep
<1>2. PICK p \in {"done", "refused"} : Becomes(d, s, [calls[d][s] EXCEPT !.phase = p])
  BY TxWriteStep
<1>3. IF account[c.u] = "deleted" THEN UNCHANGED people ELSE Writes(c)
  BY TxWriteStep
<1> SUFFICES ASSUME NEW v \in Users PROVE Candidate(v)' /\ Undisturbed(v)'
  BY DEF ReviewInv
<1>4. Candidate(v) /\ Undisturbed(v)
  BY DEF ReviewInv
<1>5. \A e \in Desks, r \in Slots :
         OpenCall(e, r, v)' => /\ calls'[e][r] = calls[e][r] /\ OpenCall(e, r, v)
                               /\ ~(e = d /\ r = s)
  BY <1>1, <1>2 DEF Becomes, Calls, OpenCall
<1>a. Outcome(c.to) \in {"APPROVED", "REJECTED"} /\ (Outcome(c.to) = "APPROVED" <=> c.to = "active")
  BY DEF Outcome
<1>b. account \in [Users -> {"pending", "active", "rejected", "ISOLATED", "deleted"}]
      /\ profile \in [Users -> SUBSET Nat]
  BY DEF TypeOK, PeopleType
<1> DEFINE f == [k \in DOMAIN reqs[c.u] |->
                  IF k \in PendingOf(c.u) THEN Outcome(c.to) ELSE reqs[c.u][k].state]
<1>c. Restated(Reviewed(c.u, Outcome(c.to)), c.u, f)
  BY <1>1, <1>a, ReviewedIs
<1>6. CASE UNCHANGED people
  <2>1. Spares(v)
    BY <1>1, <1>5, <1>6 DEF Spares, people
  <2> QED
    BY <1>4, <2>1, SparedIsKept
<1>7. CASE v # c.u /\ Writes(c)
  <2>1. reqs'[v] = reqs[v]
    BY <1>7, <1>c DEF Writes, Restated
  <2>2. account'[v] = account[v] /\ profile'[v] = profile[v]
    BY <1>1, <1>7, <1>b DEF Writes
  <2>3. Spares(v)
    BY <1>1, <1>5, <2>1, <2>2 DEF Spares
  <2> QED
    BY <1>4, <2>3, SparedIsKept
<1>8. CASE v = c.u /\ Writes(c) /\ account[c.u] # "deleted"
  <2>1. /\ DOMAIN reqs'[v] = DOMAIN reqs[v]
        /\ \A k \in DOMAIN reqs[v] :
             /\ reqs'[v][k].type = reqs[v][k].type
             /\ reqs'[v][k].state = IF k \in PendingOf(v) THEN Outcome(c.to) ELSE reqs[v][k].state
    BY <1>8, <1>c DEF Writes, Restated
  <2>2. account'[v] \in {account[v], c.to}
    BY <1>1, <1>8, <1>b DEF Writes
  <2>3. Candidate(v)'
    BY <1>1, <1>4, <2>1, <2>2 DEF Candidate
  <2>4. ASSUME v \notin overlap PROVE Undisturbed(v)'
    <3>1. OneOpen(v) /\ Fresh(v) /\ Records(v) /\ OpenCall(d, s, v)
      BY <1>1, <1>4, <1>8, <2>4 DEF Undisturbed, OpenCall
    <3>2. Idle(v)'
      <4>1. \A e \in Desks, r \in Slots : ~OpenCall(e, r, v)'
        BY <1>5, <3>1 DEF OneOpen
      <4>2. \A t \in Tabs : ~OpenTab(v, t)'
        BY <1>1, <3>1 DEF OneOpen, OpenTab
      <4> QED
        BY <4>1, <4>2 DEF Idle
    <3>3. /\ c.meta = profile[v] /\ c.saw = LatestPending(v) /\ c.edit = OnEdit(v, c.saw)
          /\ PendingOf(v) = {} => c.saw = 0
          /\ PendingOf(v) # {} => c.saw \in PendingOf(v)
          /\ 0 \notin PendingOf(v) /\ PendingOf(v) \subseteq DOMAIN reqs[v]
      BY <1>8, <3>1, LatestIsPending DEF Fresh, FreshCall
    <3>4. \A k \in PendingOf(v) : /\ k = c.saw
                                  /\ k \notin profile[v] \/ reqs[v][k].type # "edit"
      BY <3>1, <3>3 DEF Records, PendingOf
    <3>5. PendingOf(v)' = {}
      BY <1>a, <2>1 DEF PendingOf
    <3>6. CASE c.edit /\ c.to = "active"
      <4>1. profile'[v] = profile[v] \cup {c.saw}
        BY <1>8, <1>b, <3>3, <3>6 DEF Writes
      <4>2. c.saw \in PendingOf(v) /\ c.saw \in DOMAIN reqs[v]
        BY <3>3, <3>6 DEF OnEdit
      <4>3. Records(v)'
        BY <1>a, <2>1, <3>1, <3>4, <3>5, <3>6, <4>1, <4>2 DEF Records
      <4> QED
        BY <3>2, <4>3, IdleIsFresh
    <3>7. CASE ~(c.edit /\ c.to = "active")
      <4>1. profile'[v] = profile[v]
        BY <1>8, <3>7 DEF Writes
      <4>2. \A k \in PendingOf(v) : reqs[v][k].type # "edit" \/ Outcome(c.to) = "REJECTED"
        BY <1>a, <3>3, <3>4, <3>7 DEF OnEdit
      <4>3. \A k \in PendingOf(v) : reqs[v][k].type = "edit" => k \notin profile[v]
        BY <3>4
      <4>4. Records(v)'
        BY <2>1, <3>1, <3>5, <4>1, <4>2, <4>3 DEF Records
      <4> QED
        BY <3>2, <4>4, IdleIsFresh
    <3> QED
      BY <3>6, <3>7
  <2> QED
    BY <1>1, <2>3, <2>4 DEF Undisturbed
<1> QED
  BY <1>3, <1>6, <1>7, <1>8

LEMMA NextAccountReview ==
  ASSUME TypeOK, CallInv, ReviewInv, NEW d \in Desks, NEW s \in Slots, AccountTx(d, s)
  PROVE  ReviewInv'
<1> DEFINE c == calls[d][s]
<1>1. /\ c \in Calls /\ c.u \in Users /\ UNCHANGED profileTab /\ Begin(c.u)
      /\ UNCHANGED people \/ (account[c.u] # "deleted" /\ Changes(c))
  BY AccountTxStep
<1>2. PICK p \in {"done", "refused"} : Becomes(d, s, [calls[d][s] EXCEPT !.phase = p])
  BY AccountTxStep
<1> SUFFICES ASSUME NEW v \in Users PROVE Candidate(v)' /\ Undisturbed(v)'
  BY DEF ReviewInv
<1>4. Candidate(v) /\ Undisturbed(v) /\ (v \in overlap => v \in overlap')
  BY <1>1, NotOpen DEF ReviewInv
<1>5. \A e \in Desks, r \in Slots :
         OpenCall(e, r, v)' => calls'[e][r] = calls[e][r] /\ OpenCall(e, r, v)
  BY <1>1, <1>2 DEF Becomes, Calls, OpenCall
<1>6. CASE UNCHANGED people
  <2>1. Spares(v)
    BY <1>1, <1>4, <1>5, <1>6 DEF Spares, people
  <2> QED
    BY <1>4, <2>1, SparedIsKept
<1>b. /\ account \in [Users -> {"pending", "active", "rejected", "ISOLATED", "deleted"}]
      /\ reqs \in [Users -> Seq(Requests)]
  BY DEF TypeOK, PeopleType
<1>c. Restated(Isolated(c.u), c.u, [k \in DOMAIN reqs[c.u] |-> "ISOLATED"])
  BY <1>1, IsolatedIs
<1>7. CASE v # c.u /\ Changes(c)
  <2>1. reqs'[v] = reqs[v]
    BY <1>1, <1>7, <1>b, <1>c DEF Changes, Restated
  <2>2. account'[v] = account[v] /\ profile'[v] = profile[v]
    BY <1>1, <1>7, <1>b DEF Changes
  <2>3. Spares(v)
    BY <1>1, <1>4, <1>5, <2>1, <2>2 DEF Spares
  <2> QED
    BY <1>4, <2>3, SparedIsKept
<1>8. CASE v = c.u /\ Changes(c) /\ account[c.u] # "deleted"
  <2>1. \/ account'[v] = account[v] /\ reqs'[v] = reqs[v]
        \/ account'[v] = "deleted"
        \/ /\ account'[v] = "ISOLATED" /\ DOMAIN reqs'[v] = DOMAIN reqs[v]
           /\ \A k \in DOMAIN reqs[v] : /\ reqs'[v][k].type = reqs[v][k].type
                                        /\ reqs'[v][k].state = "ISOLATED"
    BY <1>1, <1>8, <1>b, <1>c DEF Changes, Restated
  <2>2. Candidate(v)'
    BY <1>1, <1>4, <2>1 DEF Candidate
  <2>3. ASSUME v \notin overlap' PROVE Undisturbed(v)'
    <3>1. Idle(v) /\ v \notin overlap
      BY <1>1, <1>8, <2>3, NotOpen
    <3>2. Idle(v)'
      BY <1>1, <1>5, <3>1 DEF Idle, OpenTab
    <3>3. Records(v) /\ profile'[v] = profile[v]
      BY <1>4, <1>8, <3>1 DEF Undisturbed, Changes
    <3>4. account'[v] # "deleted" => Records(v)'
      <4>1. CASE account'[v] = account[v] /\ reqs'[v] = reqs[v]
        BY <3>3, <4>1 DEF Records, PendingOf
      <4>2. CASE /\ account'[v] = "ISOLATED" /\ DOMAIN reqs'[v] = DOMAIN reqs[v]
                 /\ \A k \in DOMAIN reqs[v] : /\ reqs'[v][k].type = reqs[v][k].type
                                              /\ reqs'[v][k].state = "ISOLATED"
        BY <3>3, <4>2 DEF Records, PendingOf
      <4> QED
        BY <2>1, <4>1, <4>2
    <3> QED
      BY <3>2, <3>4, IdleIsFresh
  <2> QED
    BY <2>2, <2>3 DEF Undisturbed
<1> QED
  BY <1>1, <1>6, <1>7, <1>8

LEMMA NextProfileReadReview ==
  ASSUME TypeOK, ReviewInv, NEW u \in Users, NEW t \in Tabs, ProfileRead(u, t)
  PROVE  ReviewInv'
<1>1. /\ profileTab[u][t].phase = "sent" /\ UNCHANGED <<account, reqs, profile, calls>>
      /\ \/ Turns(u, t, NoTab) /\ UNCHANGED overlap
         \/ /\ Begin(u)
            /\ profileTab[u][t].op = "edit" => PendingOf(u) = {}
            /\ \E x \in Visits : /\ x.phase = "read" /\ x.op = profileTab[u][t].op
                                 /\ x.seen = profile[u] /\ Turns(u, t, x)
  BY ProfileReadStep DEF people
<1> SUFFICES ASSUME NEW v \in Users PROVE Candidate(v)' /\ Undisturbed(v)'
  BY DEF ReviewInv
<1>2. Candidate(v) /\ Undisturbed(v)
  BY DEF ReviewInv
<1>3. CASE Turns(u, t, NoTab) /\ UNCHANGED overlap
  <2>1. \A w \in Tabs : profileTab'[v][w] = profileTab[v][w] \/ profileTab'[v][w].phase = "none"
    BY <1>3 DEF Turns, NoTab
  <2>2. Spares(v)
    BY <1>1, <1>3, <2>1 DEF Spares
  <2> QED
    BY <1>2, <2>2, SparedIsKept
<1>4. ASSUME NEW x \in Visits, Begin(u), x.phase = "read", x.op = profileTab[u][t].op,
             x.seen = profile[u], Turns(u, t, x), x.op = "edit" => PendingOf(u) = {}
      PROVE  Candidate(v)' /\ Undisturbed(v)'
  <2>1. v \in overlap => v \in overlap'
    BY <1>4, NotOpen
  <2>2. CASE v # u
    <3>1. Spares(v)
      BY <1>1, <1>4, <2>1, <2>2 DEF Spares, Turns
    <3> QED
      BY <1>2, <3>1, SparedIsKept
  <2>3. CASE v = u
    <3>1. account[v] # "pending"
      BY <1>1, <1>2, <2>3 DEF Candidate
    <3>2. Candidate(v)'
      BY <1>1, <3>1 DEF Candidate
    <3>3. ASSUME v \notin overlap' PROVE Undisturbed(v)'
      <4>1. Idle(v) /\ v \notin overlap
        BY <1>4, <2>3, <3>3, NotOpen
      <4>2. \A e \in Desks, r \in Slots : ~OpenCall(e, r, v)'
        BY <1>1, <4>1 DEF Idle, OpenCall
      <4>3. \A w \in Tabs : OpenTab(v, w)' => w = t
        BY <1>4, <2>3, <4>1 DEF Turns, Idle, OpenTab
      <4>4. PendingOf(v)' = PendingOf(v)
        BY <1>1 DEF PendingOf
      <4>5. FreshTab(v, t)'
        BY <1>1, <1>4, <2>3, <4>4 DEF FreshTab, Turns
      <4>6. (account[v] # "deleted" => Records(v))'
        BY <1>1, <1>2, <4>1, <4>4 DEF Undisturbed, Records
      <4> QED
        BY <4>2, <4>3, <4>5, <4>6 DEF Undisturbed, OneOpen, Fresh
    <3> QED
      BY <3>2, <3>3 DEF Undisturbed
  <2> QED
    BY <2>2, <2>3
<1> QED
  BY <1>1, <1>3, <1>4

\* A request is inserted only when none was pending.
LEMMA NextInsertReview ==
  ASSUME TypeOK, ReviewInv, NEW u \in Users, NEW t \in Tabs, InsertRequest(u, t)
  PROVE  ReviewInv'
<1>1. /\ profileTab[u][t].phase = "read" /\ profileTab[u][t].op = "edit"
      /\ UNCHANGED <<account, profile, calls, overlap>> /\ Turns(u, t, NoTab)
      /\ \/ account[u] = "deleted" /\ UNCHANGED reqs
         \/ reqs' = [reqs EXCEPT ![u] = Append(reqs[u], Request("edit", "PENDING"))]
  BY InsertRequestStep
<1> SUFFICES ASSUME NEW v \in Users PROVE Candidate(v)' /\ Undisturbed(v)'
  BY DEF ReviewInv
<1>2. Candidate(v) /\ Undisturbed(v)
  BY DEF ReviewInv
<1>3. \A w \in Tabs : profileTab'[v][w] = profileTab[v][w] \/ profileTab'[v][w].phase = "none"
  BY <1>1 DEF Turns, NoTab
<1>4. reqs \in [Users -> Seq(Requests)] /\ profile \in [Users -> SUBSET Nat]
  BY DEF TypeOK, PeopleType
<1>5. CASE v # u \/ UNCHANGED reqs
  <2>1. reqs'[v] = reqs[v]
    BY <1>1, <1>4, <1>5
  <2>2. Spares(v)
    BY <1>1, <1>3, <2>1 DEF Spares
  <2> QED
    BY <1>2, <2>2, SparedIsKept
<1>6. CASE v = u /\ reqs' = [reqs EXCEPT ![u] = Append(reqs[u], Request("edit", "PENDING"))]
  <2>1. account[v] # "pending"
    BY <1>1, <1>2, <1>6 DEF Candidate
  <2>2. Candidate(v)'
    BY <1>1, <2>1 DEF Candidate
  <2>3. ASSUME v \notin overlap PROVE Undisturbed(v)'
    <3>1. OneOpen(v) /\ Fresh(v) /\ OpenTab(v, t) /\ (account[v] # "deleted" => Records(v))
      BY <1>1, <1>2, <1>6, <2>3 DEF Undisturbed, OpenTab
    <3>2. PendingOf(v) = {}
      BY <1>1, <1>6, <3>1 DEF Fresh, FreshTab
    <3>3. Idle(v)'
      <4>1. \A e \in Desks, r \in Slots : ~OpenCall(e, r, v)'
        BY <1>1, <3>1 DEF OneOpen, OpenCall
      <4>2. \A w \in Tabs : ~OpenTab(v, w)'
        BY <1>1, <1>6, <3>1 DEF OneOpen, OpenTab, Turns, NoTab
      <4> QED
        BY <4>1, <4>2 DEF Idle
    <3>4. PICK n \in Nat : n = Len(reqs[v]) /\ DOMAIN reqs[v] = 1 .. n
      BY <1>4
    <3>5. /\ reqs'[v] = Append(reqs[v], Request("edit", "PENDING"))
          /\ DOMAIN reqs'[v] = 1 .. n + 1
          /\ reqs'[v][n + 1].state = "PENDING"
          /\ \A k \in 1 .. n : reqs'[v][k] = reqs[v][k]
      <4>1. reqs[v] \in Seq(Requests) /\ Request("edit", "PENDING") \in Requests
        BY <1>4 DEF Request, Requests
      <4>2. reqs'[v] = Append(reqs[v], Request("edit", "PENDING"))
        BY <1>4, <1>6
      <4>3. Request("edit", "PENDING").state = "PENDING"
        BY DEF Request
      <4> QED
        BY <3>4, <4>1, <4>2, <4>3
    <3>6. PendingOf(v)' \subseteq {n + 1}
      BY <3>2, <3>4, <3>5 DEF PendingOf
    <3>7. account'[v] # "deleted" => Records(v)'
      <4> SUFFICES ASSUME account[v] # "deleted" PROVE Records(v)'
        BY <1>1
      <4>1. Records(v) /\ profile'[v] = profile[v] /\ profile[v] \subseteq 1 .. n
        BY <1>1, <3>1, <3>4 DEF Records
      <4>2. \A k \in 1 .. n + 1 : k \in 1 .. n \/ (k = n + 1 /\ k \notin profile[v])
        BY <4>1
      <4> QED
        BY <3>4, <3>5, <3>6, <4>1, <4>2 DEF Records
    <3> QED
      BY <3>3, <3>7, IdleIsFresh
  <2> QED
    BY <1>1, <2>2, <2>3 DEF Undisturbed
<1> QED
  BY <1>1, <1>5, <1>6

LEMMA NextSaveReview ==
  ASSUME TypeOK, ReviewInv, NEW u \in Users, NEW t \in Tabs, UpdateProfile(u, t)
  PROVE  ReviewInv'
<1>1. /\ profileTab[u][t].phase = "read" /\ UNCHANGED <<account, reqs, calls, overlap>>
      /\ Turns(u, t, NoTab) /\ profile' = [profile EXCEPT ![u] = profileTab[u][t].seen]
  BY UpdateProfileStep
<1> SUFFICES ASSUME NEW v \in Users PROVE Candidate(v)' /\ Undisturbed(v)'
  BY DEF ReviewInv
<1>2. Candidate(v) /\ Undisturbed(v) /\ profile \in [Users -> SUBSET Nat]
  BY DEF ReviewInv, TypeOK, PeopleType
<1>3. \A w \in Tabs : profileTab'[v][w] = profileTab[v][w] \/ profileTab'[v][w].phase = "none"
  BY <1>1 DEF Turns, NoTab
<1>4. CASE v \notin overlap \/ v # u
  <2>1. profile'[v] = profile[v]
    <3>1. CASE v # u
      BY <1>1, <1>2, <3>1
    <3>2. CASE v = u /\ v \notin overlap
      BY <1>1, <1>2, <3>2 DEF Undisturbed, Fresh, FreshTab, OpenTab
    <3> QED
      BY <1>4, <3>1, <3>2
  <2>2. Spares(v)
    BY <1>1, <1>3, <2>1 DEF Spares
  <2> QED
    BY <1>2, <2>2, SparedIsKept
<1>5. CASE v \in overlap
  BY <1>1, <1>2, <1>3, <1>5 DEF Undisturbed, Candidate
<1> QED
  BY <1>4, <1>5

LEMMA NextReview == TypeOK /\ CallInv /\ ReviewInv /\ [Next]_vars => ReviewInv'
<1> SUFFICES ASSUME TypeOK, CallInv, ReviewInv, [Next]_vars PROVE ReviewInv'
  OBVIOUS
<1>1. ASSUME \A v \in Users : Spares(v) PROVE ReviewInv'
  BY <1>1, SparedIsKept DEF ReviewInv
<1>2. CASE Quiet
  <2>1. \A v \in Users : Spares(v)
    BY <1>2 DEF Quiet, Spares, OpenCall, people
  <2> QED
    BY <1>1, <2>1
<1>3. CASE SeatTaken \/ SeatFreed
  <2>1. \A v \in Users : Spares(v)
    BY <1>3, CrowdStep DEF Spares
  <2> QED
    BY <1>1, <2>1
<1>4. ASSUME NEW d \in Desks, NEW s \in Slots, QuotaCheck(d, s) PROVE ReviewInv'
  <2>1. UNCHANGED <<account, reqs, profile, profileTab, overlap>> /\ calls[d][s] \in Calls
    BY <1>4, QuotaCheckStep DEF QuotaCheck, people
  <2>2. PICK p \in {"allowed", "refused"} : Becomes(d, s, [calls[d][s] EXCEPT !.phase = p])
    BY <1>4, QuotaCheckStep
  <2>3. \A v \in Users : Spares(v)
    BY <2>1, <2>2 DEF Spares, Becomes, OpenCall, Calls
  <2> QED
    BY <1>1, <2>3
<1> QED
  BY <1>2, <1>3, <1>4, StepCases, NextReadReview, NextWriteReview, NextAccountReview,
     NextProfileReadReview, NextInsertReview, NextSaveReview

LEMMA InitReview == Init => ReviewInv
<1> SUFFICES ASSUME Init, NEW u \in Users PROVE Candidate(u) /\ Undisturbed(u)
  BY DEF ReviewInv
<1>1. PICK b : reqs[u] = <<Request("signup", b)>>
  BY DEF Init
<1>2. DOMAIN reqs[u] = {1} /\ reqs[u][1].type = "signup"
  BY <1>1 DEF Request
<1>3. /\ profile[u] = {} /\ (\A t \in Tabs : profileTab[u][t] = NoTab)
      /\ \A d \in Desks, s \in Slots : calls[d][s] = NoCall
  BY DEF Init
<1>4. Idle(u)
  BY <1>3 DEF Idle, OpenCall, OpenTab, NoCall, NoTab
<1>5. Records(u)
  BY <1>2, <1>3 DEF Records, PendingOf
<1>6. Candidate(u)
  BY <1>2, <1>3 DEF Candidate, NoTab
<1> QED
  BY <1>4, <1>5, <1>6 DEF Undisturbed, OneOpen, Fresh, Idle

LEMMA ReviewInvariant == Spec => []ReviewInv
BY InitReview, NextReview, TypeInvariant, PTL DEF Spec

\* However decisions, requests and saves of any number of pages follow each
\* other, a change of record is in the profile if and only if ApproveUser
\* approved it, unless transactions on the user overlapped.
THEOREM RecordsAgreeWithReviews == Spec => []RecordsMatchReviews
<1>1. ReviewInv => RecordsMatchReviews
  BY DEF ReviewInv, Undisturbed, Records, RecordsMatchReviews
<1> QED
  BY <1>1, ReviewInvariant, PTL

-----------------------------------------------------------------------------
(* Decisions, roles and rosters. *)

\* A call that was read is done by its own write only.
LEMMA DecidedByWrite ==
  ASSUME TypeOK, CallInv, [Next]_vars, NEW d \in Desks, NEW s \in Slots,
         Decides(calls[d][s], d, s)
  PROVE  TxWrite(d, s)
<1>1. calls[d][s].phase = "read" /\ calls'[d][s].phase = "done" /\ calls'[d][s] # calls[d][s]
  BY DEF Decides
<1>2. ~Quiet /\ ~SeatTaken /\ ~SeatFreed
  BY <1>1, CrowdStep DEF Quiet
<1>3. ASSUME NEW e \in Desks, NEW r \in Slots,
             QuotaCheck(e, r) \/ TxRead(e, r) \/ AccountTx(e, r) \/ TxWrite(e, r)
      PROVE  e = d /\ r = s
  <2>1. CASE QuotaCheck(e, r)
    BY <1>1, <2>1, QuotaCheckStep DEF Becomes
  <2>2. CASE TxRead(e, r)
    BY <1>1, <2>2, TxReadStep DEF Becomes
  <2>3. CASE AccountTx(e, r)
    <3>1. \E p \in {"done", "refused"} : Becomes(e, r, [calls[e][r] EXCEPT !.phase = p])
      BY <2>3, AccountTxStep
    <3> QED
      BY <1>1, <3>1 DEF Becomes
  <2>4. CASE TxWrite(e, r)
    <3>1. \E p \in {"done", "refused"} : Becomes(e, r, [calls[e][r] EXCEPT !.phase = p])
      BY <2>4, TxWriteStep
    <3> QED
      BY <1>1, <3>1 DEF Becomes
  <2> QED
    BY <1>3, <2>1, <2>2, <2>3, <2>4
<1>4. ~QuotaCheck(d, s) /\ ~TxRead(d, s) /\ ~AccountTx(d, s)
  BY <1>1, QuotaCheckStep, TxReadStep, AccountTxStep
<1>5. \A u \in Users, t \in Tabs :
         ~(ProfileRead(u, t) \/ InsertRequest(u, t) \/ UpdateProfile(u, t))
  BY <1>1, ProfileReadStep, InsertRequestStep, UpdateProfileStep
<1> QED
  BY <1>2, <1>3, <1>4, <1>5, StepCases

LEMMA DecisionFits ==
  ASSUME TypeOK, CallInv, ReviewInv, [Next]_vars, NEW d \in Desks, NEW s \in Slots,
         Decides(calls[d][s], d, s), ~calls[d][s].late, calls[d][s].u \notin overlap,
         account[calls[d][s].u] # "deleted"
  PROVE  IF OnEdit(calls[d][s].u, calls[d][s].k)
         THEN /\ account' = account
              /\ (calls[d][s].to = "active") = (calls[d][s].k \in profile'[calls[d][s].u])
         ELSE account'[calls[d][s].u] = calls[d][s].to /\ profile' = profile
<1> DEFINE c == calls[d][s]
<1>1. /\ c \in Calls /\ c.u \in Users /\ c.phase = "read" /\ c.to \in {"active", "rejected"}
      /\ Writes(c)
  BY DecidedByWrite, TxWriteStep
<1>2. PICK v \in Users : v = c.u
  BY <1>1
<1>3. Candidate(v) /\ Records(v) /\ FreshCall(c)
  BY <1>1, <1>2 DEF ReviewInv, Undisturbed, Fresh, OpenCall
<1>4. /\ PendingOf(v) \subseteq DOMAIN reqs[v] /\ 0 \notin PendingOf(v)
      /\ PendingOf(v) = {} => c.saw = 0
      /\ PendingOf(v) # {} => c.saw \in PendingOf(v)
  BY <1>2, <1>3, LatestIsPending DEF FreshCall
<1>5. /\ account \in [Users -> {"pending", "active", "rejected", "ISOLATED", "deleted"}]
      /\ profile \in [Users -> SUBSET Nat]
  BY DEF TypeOK, PeopleType
<1>6. CASE c.k = 0 /\ account[v] = "pending"
  <2>1. ~OnEdit(v, c.k) /\ ~c.edit
    BY <1>2, <1>3, <1>4, <1>6 DEF OnEdit, Candidate, FreshCall
  <2> QED
    BY <1>1, <1>2, <1>5, <2>1 DEF Writes
<1>7. CASE c.k \in PendingOf(v)
  <2>1. c.k = c.saw /\ c.k # 0 /\ (c.edit <=> OnEdit(v, c.k))
    BY <1>2, <1>3, <1>4, <1>7 DEF Records, FreshCall
  <2>2. CASE ~OnEdit(v, c.k)
    BY <1>1, <1>2, <1>5, <2>1, <2>2 DEF Writes
  <2>3. CASE OnEdit(v, c.k)
    <3>1. c.k \notin profile[v]
      BY <1>3, <1>4, <1>7, <2>3 DEF Records, OnEdit, PendingOf
    <3>2. /\ account' = account
          /\ c.to = "active" => c.k \in profile'[v]
          /\ c.to = "rejected" => profile'[v] = profile[v]
      BY <1>1, <1>2, <1>5, <2>1, <2>3 DEF Writes
    <3> QED
      BY <1>1, <1>2, <2>3, <3>1, <3>2
  <2> QED
    BY <2>2, <2>3
<1> QED
  BY <1>2, <1>3, <1>6, <1>7 DEF FreshCall

\* For any number of pages, requests and administrators, what ApproveUser does
\* is what was decided: a decision on a change of record leaves the account
\* alone and commits or refuses that change, one on an account leaves the
\* records alone; unless it came late or transactions on the user overlapped.
THEOREM DecisionsHitTheirTarget == Spec => DecisionOnTarget
<1>1. TypeOK /\ CallInv /\ ReviewInv /\ [Next]_vars =>
      [\A d \in Desks, s \in Slots :
         LET c == calls[d][s] IN
         Decides(c, d, s) /\ ~c.late /\ c.u \notin overlap /\ account[c.u] # "deleted" =>
           IF OnEdit(c.u, c.k) THEN /\ account' = account
                                    /\ (c.to = "active") = (c.k \in profile'[c.u])
           ELSE account'[c.u] = c.to /\ profile' = profile]_vars
  BY DecisionFits
<1> QED
  BY <1>1, TypeInvariant, ReviewInvariant, PTL DEF Spec, DecisionOnTarget

\* A role is lost with the account only.
LEMMA NextRole ==
  TypeOK /\ CallInv /\ ReviewInv /\ ActiveHasRole /\ [Next]_vars => ActiveHasRole'
<1> SUFFICES ASSUME TypeOK, CallInv, ReviewInv, ActiveHasRole, [Next]_vars,
                    NEW v \in Users, v \notin late', v \notin overlap', account'[v] = "active"
             PROVE  v \in holders'
  BY DEF ActiveHasRole
<1>a. /\ account \in [Users -> {"pending", "active", "rejected", "ISOLATED", "deleted"}]
      /\ granted \subseteq holders /\ holders \subseteq Users
  BY DEF TypeOK, PeopleType
<1>b. ASSUME late \subseteq late', v \in overlap => v \in overlap', account'[v] = account[v],
             v \in holders => v \in holders'
      PROVE  v \in holders'
  BY <1>b DEF ActiveHasRole
<1>1. CASE Quiet
  BY <1>1, <1>b DEF Quiet, people, rights
<1>2. CASE SeatTaken \/ SeatFreed
  BY <1>2, <1>b, CrowdStep DEF rights
<1>3. ASSUME NEW d \in Desks, NEW s \in Slots, QuotaCheck(d, s) PROVE v \in holders'
  BY <1>3, <1>b DEF QuotaCheck, people, rights
<1>4. ASSUME NEW d \in Desks, NEW s \in Slots, TxRead(d, s) PROVE v \in holders'
  <2>1. late \subseteq late' /\ UNCHANGED <<account, holders>> /\ calls[d][s].u \in Users
    BY <1>4, TxReadStep DEF people, rights
  <2>2. v \in overlap => v \in overlap'
    BY <1>4, <2>1, TxReadStep, NotOpen
  <2> QED
    BY <1>b, <2>1, <2>2
<1>5. ASSUME NEW d \in Desks, NEW s \in Slots, TxWrite(d, s) PROVE v \in holders'
  <2> DEFINE c == calls[d][s]
  <2>1. /\ c \in Calls /\ c.u \in Users /\ c.phase = "read" /\ UNCHANGED <<late, overlap>>
        /\ UNCHANGED people \/ Writes(c)
    BY <1>5, TxWriteStep
  <2>2. CASE UNCHANGED people
    BY <1>b, <2>1, <2>2 DEF people, rights
  <2>3. CASE Writes(c) /\ (c.edit \/ c.u # v)
    <3>1. account'[v] = account[v] /\ (v \in holders => v \in holders')
      BY <1>a, <2>1, <2>3 DEF Writes, Granted, rights
    <3> QED
      BY <1>b, <2>1, <3>1
  <2>4. CASE Writes(c) /\ ~c.edit /\ c.u = v
    <3>1. c.to = "active"
      BY <1>a, <2>1, <2>4 DEF Writes
    <3>2. SoundCall(c) /\ FreshCall(c)
      BY <2>1, <2>4 DEF CallInv, ReviewInv, Undisturbed, Fresh, OpenCall
    <3>3. GrantedRole(c) # "none"
      BY <2>1, <2>4, <3>1, <3>2 DEF SoundCall, FreshCall, GrantedRole
    <3> QED
      BY <2>4, <3>1, <3>3 DEF Writes, Granted
  <2> QED
    BY <2>1, <2>2, <2>3, <2>4
<1>6. ASSUME NEW d \in Desks, NEW s \in Slots, AccountTx(d, s) PROVE v \in holders'
  <2> DEFINE c == calls[d][s]
  <2>1. /\ c.u \in Users /\ UNCHANGED late /\ Begin(c.u)
        /\ UNCHANGED people \/ Changes(c)
    BY <1>6, AccountTxStep
  <2>2. v \in overlap => v \in overlap'
    BY <2>1, NotOpen
  <2>3. account'[v] = account[v] /\ (v \in holders => v \in holders')
    BY <1>a, <2>1 DEF Changes, Granted, people, rights
  <2> QED
    BY <1>b, <2>1, <2>2, <2>3
<1>7. ASSUME NEW u \in Users, NEW t \in Tabs,
             ProfileRead(u, t) \/ InsertRequest(u, t) \/ UpdateProfile(u, t)
      PROVE  v \in holders'
  <2>1. UNCHANGED <<account, holders, late>>
    BY <1>7, ProfileReadStep, InsertRequestStep, UpdateProfileStep DEF people, rights
  <2>2. v \in overlap => v \in overlap'
    BY <1>7, ProfileReadStep, InsertRequestStep, UpdateProfileStep, NotOpen
  <2> QED
    BY <1>b, <2>1, <2>2
<1> QED
  BY <1>1, <1>2, <1>3, <1>4, <1>5, <1>6, <1>7, StepCases

\* For any number of people, pages and decisions, an active account has a
\* role, whichever was picked, unless a decision came after another one on the same user
\* or transactions on the user overlapped.
THEOREM ActiveUsersHaveRoles == Spec => []ActiveHasRole
<1>1. Init => ActiveHasRole
  BY DEF Init, ActiveHasRole
<1> QED
  BY <1>1, NextRole, TypeInvariant, ReviewInvariant, PTL DEF Spec

-----------------------------------------------------------------------------
(* Rosters. *)

OffRosters(u) == stored[u] = "out" /\ \A d \in Desks : roster[d][u] = "out"

Approved(d, s, u) ==
  calls[d][s].u = u /\ calls[d][s].to = "active" /\ calls[d][s].phase = "done"

\* Who was never active has no profile page and has asked for no change.
Stranger(u) ==
  /\ account[u] # "active"
  /\ \A k \in DOMAIN reqs[u] : reqs[u][k].type # "edit"
  /\ \A t \in Tabs : profileTab[u][t].phase = "none"
  /\ \A d \in Desks, s \in Slots : OpenCall(d, s, u) => ~calls[d][s].edit

\* Nothing was decided on an account that was deleted meanwhile.
Untouched(u) ==
  /\ \A d \in Desks, s \in Slots : ~Approved(d, s, u)
  /\ \A d \in Desks, s \in Slots : OpenCall(d, s, u) => account[u] # "deleted"
  /\ OffRosters(u)

RosterInv == \A u \in Users \ hired : Stranger(u) /\ (u \in overlap \/ Untouched(u))

\* A user joins a roster from localStorage or from another page, or when the
\* page is told that the approval was carried out.
LEMMA Enrolment ==
  ASSUME TypeOK, [Next]_vars, NEW u \in Users, OffRosters(u),
         \A d \in Desks, s \in Slots : ~Approved(d, s, u)
  PROVE  OffRosters(u)'
<1>1. /\ roster \in [Desks -> [Users -> {"out", "on", "off"}]]
      /\ stored \in [Users -> {"out", "on", "off"}]
  BY DEF TypeOK, PagesType
<1>2. ASSUME UNCHANGED <<roster, stored>> PROVE OffRosters(u)'
  BY <1>2 DEF OffRosters
<1>a. ASSUME NEW e \in Desks, NEW r \in [Users -> {"out", "on", "off"}], r[u] = "out",
             roster' = [roster EXCEPT ![e] = r], stored' \in {stored, r}
      PROVE  OffRosters(u)'
  BY <1>1, <1>a DEF OffRosters
<1>3. ASSUME NEW e \in Desks, Load(e) PROVE OffRosters(u)'
  BY <1>1, <1>2, <1>a, <1>3 DEF Load, OffRosters
<1>4. ASSUME NEW e \in Desks, NEW v \in Users, HandleToggleTool(e, v) PROVE OffRosters(u)'
  <2>1. PICK x \in {"on", "off"} : Store(e, [roster[e] EXCEPT ![v] = x])
    BY <1>4 DEF HandleToggleTool
  <2>2. PICK r : r = [roster[e] EXCEPT ![v] = x] /\ Store(e, r)
    BY <2>1
  <2>3. roster[e] \in [Users -> {"out", "on", "off"}] /\ v # u /\ roster[e][u] = "out"
    BY <1>1, <1>4 DEF HandleToggleTool, OffRosters
  <2>4. r \in [Users -> {"out", "on", "off"}] /\ r[u] = "out"
    BY <2>2, <2>3
  <2> QED
    BY <1>a, <2>2, <2>4 DEF Store
<1>5. ASSUME NEW e \in Desks, NEW s \in Slots, CallOk(e, s) PROVE OffRosters(u)'
  <2>1. CASE UNCHANGED <<roster, stored>>
    BY <1>2, <2>1
  <2>2. CASE ~UNCHANGED <<roster, stored>>
    <3>1. /\ calls[e][s].phase = "done" /\ calls[e][s].to = "active"
          /\ Store(e, Enrolled(e, calls[e][s].u))
      BY <1>5, <2>2 DEF CallOk
    <3>2. calls[e][s].u # u
      BY <3>1 DEF Approved
    <3>3. PICK r : r = Enrolled(e, calls[e][s].u) /\ Store(e, r)
      BY <3>1
    <3>4. roster[e] \in [Users -> {"out", "on", "off"}] /\ roster[e][u] = "out"
      BY <1>1 DEF OffRosters
    <3>5. r \in [Users -> {"out", "on", "off"}] /\ r[u] = "out"
      BY <3>2, <3>3, <3>4 DEF Enrolled
    <3> QED
      BY <1>a, <3>3, <3>5 DEF Store
  <2> QED
    BY <2>1, <2>2
<1>b. \A e \in Desks : \A c : Send(e, c) => UNCHANGED <<roster, stored>>
  BY DEF Send
<1>6. ASSUME NEW e \in Desks, CloseReject(e) \/ HandleConfirmReject(e) PROVE OffRosters(u)'
  BY <1>2, <1>6, <1>b DEF CloseReject, HandleConfirmReject
<1>7. ASSUME NEW e \in Desks, NEW v \in Users, NEW k \in Indices,
             HandleApproveOnRoster(e, v, k) \/ HandleApprove(e, v, k) \/ OpenReject(e, v, k)
      PROVE  OffRosters(u)'
  BY <1>2, <1>7, <1>b DEF HandleApproveOnRoster, HandleApprove, OpenReject
<1>8. ASSUME NEW e \in Desks, NEW v \in Users,
             \/ \E to \in {"active", "rejected"} : HandleApproval(e, v, to)
             \/ OnAssign(e, v) \/ HandleIsolate(e, v) \/ ExecuteDelete(e, v)
      PROVE  OffRosters(u)'
  BY <1>2, <1>8, <1>b DEF HandleApproval, OnAssign, HandleIsolate, ExecuteDelete
<1>9. ASSUME NEW e \in Desks, NEW s \in Slots, Gateway(e, s) \/ CallFails(e, s)
      PROVE  OffRosters(u)'
  BY <1>2, <1>9 DEF Gateway, QuotaCheck, TxRead, TxWrite, AccountTx, Lost, CallFails, pages
<1>10. ASSUME NEW v \in Users, NEW t \in Tabs, ProfilePage(v, t) PROVE OffRosters(u)'
  BY <1>2, <1>10 DEF ProfilePage, LoadProfile, HandleSubmitRequest, HandleSaveDirect, ProfileRead,
                     InsertRequest, UpdateProfile, pages
<1>11. CASE SeatTaken \/ SeatFreed \/ UNCHANGED vars
  BY <1>2, <1>11 DEF SeatTaken, SeatFreed, pages, vars
<1> QED
  BY <1>3, <1>4, <1>5, <1>6, <1>7, <1>8, <1>9, <1>10, <1>11 DEF Next, Desk, Answer

\* What is left to show of a step for somebody who was never active.
StaysOut(v) ==
  /\ account'[v] # "active"
  /\ \A k \in DOMAIN reqs'[v] : reqs'[v][k].type # "edit"
  /\ \A t \in Tabs : profileTab'[v][t].phase = "none"
  /\ v \in overlap => v \in overlap'
  /\ \A d \in Desks, s \in Slots :
       /\ OpenCall(d, s, v)' => /\ ~calls'[d][s].edit
                                /\ v \in overlap' \/ account'[v] # "deleted"
       /\ Approved(d, s, v)' => v \in overlap'

LEMMA NextRosters == TypeOK /\ CallInv /\ RosterInv /\ [Next]_vars => RosterInv'
<1> SUFFICES ASSUME TypeOK, CallInv, RosterInv, [Next]_vars, NEW v \in Users, v \notin hired'
             PROVE  Stranger(v)' /\ (v \in overlap \/ Untouched(v))'
  BY DEF RosterInv
<1>a. /\ account \in [Users -> {"pending", "active", "rejected", "ISOLATED", "deleted"}]
      /\ reqs \in [Users -> Seq(Requests)]
  BY DEF TypeOK, PeopleType
<1>b. ASSUME v \notin hired, StaysOut(v) PROVE Stranger(v)' /\ (v \in overlap \/ Untouched(v))'
  <2>1. Stranger(v)'
    BY <1>b DEF StaysOut, Stranger
  <2>2. ASSUME v \notin overlap' PROVE Untouched(v)'
    <3>1. Untouched(v)
      BY <1>b, <2>2 DEF StaysOut, RosterInv
    <3>2. OffRosters(v)'
      BY <3>1, Enrolment DEF Untouched
    <3> QED
      BY <1>b, <2>2, <3>2 DEF StaysOut, Untouched
  <2> QED
    BY <2>1, <2>2
<1>c. ASSUME v \notin hired
      PROVE  /\ Stranger(v) /\ (v \in overlap \/ Untouched(v))
  BY <1>c DEF RosterInv
<1>1. CASE Quiet
  <2>1. v \notin hired
    BY <1>1 DEF Quiet, people, rights
  <2>2. account'[v] = account[v] /\ reqs'[v] = reqs[v] /\ UNCHANGED overlap
    BY <1>1 DEF Quiet, people
  <2>3. \A t \in Tabs : profileTab'[v][t] = profileTab[v][t]
    BY <1>1, <1>c, <2>1 DEF Quiet, Stranger
  <2>4. \A d \in Desks, s \in Slots :
           /\ OpenCall(d, s, v)' => OpenCall(d, s, v) /\ calls'[d][s] = calls[d][s]
           /\ Approved(d, s, v)' => Approved(d, s, v)
    BY <1>1 DEF Quiet, OpenCall, Approved
  <2>5. StaysOut(v)
    BY <1>c, <2>1, <2>2, <2>3, <2>4 DEF StaysOut, Stranger, Untouched
  <2> QED
    BY <1>b, <2>1, <2>5
<1>2. CASE SeatTaken \/ SeatFreed
  <2>1. UNCHANGED <<account, hired, reqs, calls, profileTab, overlap>>
    BY <1>2, CrowdStep DEF rights
  <2>2. StaysOut(v)
    BY <1>c, <2>1 DEF StaysOut, Stranger, Untouched, OpenCall, Approved
  <2> QED
    BY <1>b, <2>1, <2>2
<1>3. ASSUME NEW d \in Desks, NEW s \in Slots, QuotaCheck(d, s)
      PROVE  Stranger(v)' /\ (v \in overlap \/ Untouched(v))'
  <2>1. UNCHANGED <<account, hired, reqs, profileTab, overlap>> /\ calls[d][s] \in Calls
    BY <1>3, QuotaCheckStep DEF QuotaCheck, people, rights
  <2>2. PICK p \in {"allowed", "refused"} : Becomes(d, s, [calls[d][s] EXCEPT !.phase = p])
    BY <1>3, QuotaCheckStep
  <2>3. \A e \in Desks, r \in Slots :
           /\ OpenCall(e, r, v)' => OpenCall(e, r, v) /\ calls'[e][r] = calls[e][r]
           /\ Approved(e, r, v)' => Approved(e, r, v)
    BY <2>1, <2>2 DEF Becomes, Calls, OpenCall, Approved
  <2>4. StaysOut(v)
    BY <1>c, <2>1, <2>3 DEF StaysOut, Stranger, Untouched
  <2> QED
    BY <1>b, <2>1, <2>4
<1>4. ASSUME NEW d \in Desks, NEW s \in Slots, TxRead(d, s)
      PROVE  Stranger(v)' /\ (v \in overlap \/ Untouched(v))'
  <2> DEFINE c == calls[d][s]
  <2>1. /\ c \in Calls /\ c.u \in Users /\ UNCHANGED <<account, hired, reqs, profileTab>>
    BY <1>4, TxReadStep DEF people, rights
  <2>2. v \in overlap => v \in overlap'
    BY <1>4, <2>1, TxReadStep, NotOpen
  <2>3. PICK m : /\ Becomes(d, s, m)
                 /\ m = [c EXCEPT !.phase = "refused"]
                    \/ (ReadBy(c, m) /\ account[c.u] # "deleted")
    BY <1>4, TxReadStep
  <2>4. \A e \in Desks, r \in Slots :
           (e = d /\ r = s) \/ /\ OpenCall(e, r, v)' => OpenCall(e, r, v) /\ calls'[e][r] = calls[e][r]
                               /\ Approved(e, r, v)' => Approved(e, r, v)
    BY <2>3 DEF Becomes, OpenCall, Approved
  <2>5. /\ OpenCall(d, s, v)' => ~calls'[d][s].edit /\ account'[v] # "deleted"
        /\ ~Approved(d, s, v)'
    <3>1. CASE m = [c EXCEPT !.phase = "refused"]
      BY <2>1, <2>3, <3>1 DEF Becomes, Calls, OpenCall, Approved
    <3>2. CASE ReadBy(c, m) /\ account[c.u] # "deleted"
      <4>1. calls'[d][s] = m /\ m.u = c.u /\ m.phase = "read" /\ m.edit = OnEdit(c.u, m.saw)
            /\ m.saw = LatestPending(c.u)
        BY <2>3, <3>2 DEF Becomes, ReadBy
      <4>2. ASSUME c.u = v PROVE ~m.edit
        <5>1. Stranger(v)
          BY <1>c, <2>1
        <5>2. LatestPending(v) = 0 \/ LatestPending(v) \in DOMAIN reqs[v]
          BY LatestIsPending
        <5> QED
          BY <4>1, <4>2, <5>1, <5>2 DEF Stranger, OnEdit
      <4> QED
        BY <2>1, <3>2, <4>1, <4>2 DEF OpenCall, Approved
    <3> QED
      BY <2>3, <3>1, <3>2
  <2>6. StaysOut(v)
    BY <1>c, <2>1, <2>2, <2>4, <2>5 DEF StaysOut, Stranger, Untouched
  <2> QED
    BY <1>b, <2>1, <2>6
<1>5. ASSUME NEW d \in Desks, NEW s \in Slots, TxWrite(d, s)
      PROVE  Stranger(v)' /\ (v \in overlap \/ Untouched(v))'
  <2> DEFINE c == calls[d][s]
  <2>1. /\ c \in Calls /\ c.u \in Users /\ c.phase = "read" /\ c.to \in {"active", "rejected"}
        /\ UNCHANGED <<profileTab, overlap>>
        /\ IF account[c.u] = "deleted" THEN UNCHANGED people ELSE Writes(c)
    BY <1>5, TxWriteStep
  <2>2. PICK p \in {"done", "refused"} : Becomes(d, s, [calls[d][s] EXCEPT !.phase = p])
    BY <1>5, TxWriteStep
  <2>3. v \notin hired
    BY <2>1 DEF people, rights, Writes
  <2>4. \A e \in Desks, r \in Slots :
           /\ OpenCall(e, r, v)' => OpenCall(e, r, v) /\ calls'[e][r] = calls[e][r]
           /\ Approved(e, r, v)' => Approved(e, r, v)
                                    \/ (e = d /\ r = s /\ c.u = v /\ c.to = "active")
    BY <2>1, <2>2 DEF Becomes, Calls, OpenCall, Approved
  <2>5. Stranger(v) /\ (c.u = v => ~c.edit)
    BY <1>c, <2>1, <2>3 DEF Stranger, OpenCall
  <2>6. CASE UNCHANGED people /\ account[c.u] = "deleted"
    <3>1. c.u = v => v \in overlap
      BY <1>c, <2>1, <2>3, <2>6 DEF Untouched, OpenCall
    <3>2. UNCHANGED <<account, reqs>>
      BY <2>6 DEF people
    <3>3. StaysOut(v)
      BY <1>c, <2>1, <2>3, <2>4, <3>1, <3>2 DEF StaysOut, Stranger, Untouched
    <3> QED
      BY <1>b, <2>3, <3>3
  <2>7. CASE Writes(c) /\ account[c.u] # "deleted"
    <3>1. c.u = v => c.to = "rejected"
      BY <2>1, <2>5, <2>7 DEF Writes
    <3>2. account'[v] = account[v] \/ account'[v] = "rejected"
      BY <1>a, <2>1, <2>7, <3>1 DEF Writes
    <3>3. \A k \in DOMAIN reqs'[v] : reqs'[v][k].type # "edit"
      <4>1. Outcome(c.to) \in {"APPROVED", "REJECTED"}
        BY DEF Outcome
      <4>2. PICK f : Restated(reqs', c.u, f)
        BY <2>1, <2>7, <4>1, ReviewedIs DEF Writes
      <4> QED
        BY <2>5, <4>2 DEF Restated, Stranger
    <3>4. StaysOut(v)
      BY <1>c, <2>1, <2>3, <2>4, <3>1, <3>2, <3>3 DEF StaysOut, Stranger, Untouched
    <3> QED
      BY <1>b, <2>3, <3>4
  <2> QED
    BY <2>1, <2>6, <2>7
<1>6. ASSUME NEW d \in Desks, NEW s \in Slots, AccountTx(d, s)
      PROVE  Stranger(v)' /\ (v \in overlap \/ Untouched(v))'
  <2> DEFINE c == calls[d][s]
  <2>1. /\ c \in Calls /\ c.u \in Users /\ c.to \in {"ISOLATED", "deleted", "assign"}
        /\ UNCHANGED profileTab /\ Begin(c.u)
        /\ UNCHANGED people \/ Changes(c)
    BY <1>6, AccountTxStep
  <2>2. PICK p \in {"done", "refused"} : Becomes(d, s, [calls[d][s] EXCEPT !.phase = p])
    BY <1>6, AccountTxStep
  <2>3. v \notin hired
    BY <2>1 DEF people, rights, Changes
  <2>4. \A e \in Desks, r \in Slots :
           /\ OpenCall(e, r, v)' => OpenCall(e, r, v) /\ calls'[e][r] = calls[e][r]
           /\ Approved(e, r, v)' => Approved(e, r, v)
    BY <2>1, <2>2 DEF Becomes, Calls, OpenCall, Approved
  <2>5. /\ v \in overlap => v \in overlap'
        /\ v # c.u \/ v \in overlap' \/ Idle(v)
    BY <2>1, NotOpen
  <2>6. /\ account'[v] = account[v] \/ (v = c.u /\ account'[v] \in {"ISOLATED", "deleted"})
        /\ \A k \in DOMAIN reqs'[v] : reqs'[v][k].type # "edit"
    <3>1. Stranger(v)
      BY <1>c, <2>3
    <3>2. CASE UNCHANGED people
      BY <3>1, <3>2 DEF people, Stranger
    <3>3. CASE Changes(c)
      <4>1. account'[v] = account[v] \/ (v = c.u /\ account'[v] \in {"ISOLATED", "deleted"})
        BY <1>a, <2>1, <3>3 DEF Changes
      <4>2. PICK f : Restated(Isolated(c.u), c.u, f)
        BY <2>1, IsolatedIs
      <4>3. \/ reqs'[v] = reqs[v] \/ reqs'[v] = <<>>
            \/ reqs' = Isolated(c.u)
        BY <1>a, <2>1, <3>3 DEF Changes
      <4>4. \A k \in DOMAIN reqs'[v] : reqs'[v][k].type # "edit"
        BY <3>1, <4>2, <4>3 DEF Restated, Stranger
      <4> QED
        BY <4>1, <4>4
    <3> QED
      BY <2>1, <3>2, <3>3
  <2>7. StaysOut(v)
    BY <1>c, <2>1, <2>3, <2>4, <2>5, <2>6 DEF StaysOut, Stranger, Untouched, Idle
  <2> QED
    BY <1>b, <2>3, <2>7
<1>7. ASSUME NEW u \in Users, NEW t \in Tabs,
             ProfileRead(u, t) \/ InsertRequest(u, t) \/ UpdateProfile(u, t)
      PROVE  Stranger(v)' /\ (v \in overlap \/ Untouched(v))'
  <2>1. UNCHANGED <<account, hired, calls>> /\ profileTab[u][t].phase # "none"
    BY <1>7, ProfileReadStep, InsertRequestStep, UpdateProfileStep DEF people, rights
  <2>2. u # v
    BY <1>c, <2>1 DEF Stranger
  <2>3. reqs'[v] = reqs[v]
    BY <1>7, <1>a, <2>2, ProfileReadStep, InsertRequestStep, UpdateProfileStep DEF people
  <2>4. \A w \in Tabs : profileTab'[v][w] = profileTab[v][w]
    BY <1>7, <2>2, ProfileReadStep, InsertRequestStep, UpdateProfileStep DEF Turns
  <2>5. v \in overlap => v \in overlap'
    BY <1>7, ProfileReadStep, InsertRequestStep, UpdateProfileStep, NotOpen
  <2>6. StaysOut(v)
    BY <1>c, <2>1, <2>3, <2>4, <2>5 DEF StaysOut, Stranger, Untouched, OpenCall, Approved
  <2> QED
    BY <1>b, <2>1, <2>6
<1> QED
  BY <1>1, <1>2, <1>3, <1>4, <1>5, <1>6, <1>7, StepCases

LEMMA InitRosters == Init => RosterInv
<1> SUFFICES ASSUME Init, NEW u \in Users, u \notin hired PROVE Stranger(u) /\ Untouched(u)
  BY DEF RosterInv
<1>1. account[u] # "active"
  BY DEF Init
<1>2. PICK b : reqs[u] = <<Request("signup", b)>>
  BY DEF Init
<1>3. \A k \in DOMAIN reqs[u] : reqs[u][k].type # "edit"
  BY <1>2 DEF Request
<1>4. \A t \in Tabs : profileTab[u][t].phase = "none"
  BY DEF Init, NoTab
<1>5. \A d \in Desks, s \in Slots : ~OpenCall(d, s, u) /\ ~Approved(d, s, u)
  BY DEF Init, NoCall, OpenCall, Approved
<1>6. OffRosters(u)
  BY DEF Init, OffRosters
<1> QED
  BY <1>1, <1>3, <1>4, <1>5, <1>6 DEF Stranger, Untouched

\* Whatever calls fail and whatever answers are lost, on any number of pages:
\* nobody who was never active is on a roster or in localStorage, unless
\* transactions on the user overlapped.
THEOREM RostersAreHonest == Spec => []RosterHonest
<1>1. RosterInv => RosterHonest
  BY DEF RosterInv, Untouched, OffRosters, RosterHonest
<1> QED
  BY <1>1, InitRosters, NextRosters, TypeInvariant, PTL DEF Spec

-----------------------------------------------------------------------------
(* Seats. *)

Members == {u \in granted : account[u] = "active"}

LEMMA MembersAreCounted ==
  ASSUME TypeOK
  PROVE  /\ Members \subseteq Users /\ IsFiniteSet(Members) /\ Cardinality(Members) \in Nat
         /\ Taken = crowd + Cardinality(Members) /\ Taken \in Nat
         /\ Seats[role] \in Nat
<1>1. Members \subseteq Users /\ crowd \in Nat /\ Seats[role] \in Nat
  BY ApprovalsAssumption DEF Members, TypeOK, PeopleType, PagesType
<1>2. IsFiniteSet(Members) /\ Cardinality(Members) \in Nat
  BY <1>1, ApprovalsAssumption, FS_Subset, FS_CardinalityType
<1>3. Taken = crowd + Cardinality(Members)
  BY DEF Taken, Members
<1> QED
  BY <1>1, <1>2, <1>3

\* One more member takes one more seat at most.
LEMMA OneMore ==
  ASSUME TypeOK, TypeOK', UNCHANGED <<crowd, role>>, NEW u, Members' \subseteq Members \cup {u}
  PROVE  Taken' <= Taken + 1
<1>1. /\ IsFiniteSet(Members) /\ Cardinality(Members) \in Nat /\ crowd \in Nat
      /\ Taken = crowd + Cardinality(Members)
  BY MembersAreCounted DEF TypeOK, PeopleType
<1>2. Taken' = crowd' + Cardinality(Members') /\ Cardinality(Members') \in Nat
  <2>1. Members' \subseteq Users /\ Cardinality(Members') \in Nat
    <3>1. Members' \subseteq Users
      BY DEF Members, TypeOK, PeopleType
    <3> QED
      BY <3>1, ApprovalsAssumption, FS_Subset, FS_CardinalityType
  <2>2. Taken' = crowd' + Cardinality(Members')
    BY DEF Taken, Members
  <2> QED
    BY <2>1, <2>2
<1>3. /\ IsFiniteSet(Members \cup {u}) /\ Cardinality(Members \cup {u}) \in Nat
      /\ Cardinality(Members \cup {u}) <= Cardinality(Members) + 1
  <2>1. /\ IsFiniteSet(Members \cup {u})
        /\ Cardinality(Members \cup {u})
             = IF u \in Members THEN Cardinality(Members) ELSE Cardinality(Members) + 1
    BY <1>1, FS_AddElement, Zenon
  <2> QED
    BY <1>1, <2>1
<1>4. Cardinality(Members') <= Cardinality(Members \cup {u})
  BY <1>3, FS_Subset
<1> QED
  BY <1>1, <1>2, <1>3, <1>4

LEMMA NoMore ==
  ASSUME TypeOK, TypeOK', UNCHANGED <<crowd, role>>, Members' \subseteq Members
  PROVE  Taken' <= Taken
<1>1. /\ IsFiniteSet(Members) /\ Cardinality(Members) \in Nat /\ crowd \in Nat
      /\ Taken = crowd + Cardinality(Members)
  BY MembersAreCounted DEF TypeOK, PeopleType
<1>2. IsFiniteSet(Members') /\ Cardinality(Members') \in Nat
      /\ Cardinality(Members') <= Cardinality(Members)
  BY <1>1, FS_Subset, FS_CardinalityType
<1>3. Taken' = crowd' + Cardinality(Members')
  BY DEF Taken, Members
<1> QED
  BY <1>1, <1>2, <1>3

\* Steps that add no member and let no approval through the check.
LEMMA SeatsStay ==
  ASSUME TypeOK, TypeOK', SeatInv, rush => rush', UNCHANGED <<crowd, role>>, Members' \subseteq Members,
         \A d \in Desks, s \in Slots : Approving(d, s)' => Approving(d, s)
  PROVE  SeatInv'
<1>1. Taken' <= Taken /\ Taken \in Nat /\ Seats[role] \in Nat
  BY NoMore, MembersAreCounted
<1>2. Taken' \in Nat /\ Seats[role]' = Seats[role]
  <2>1. Members' \subseteq Users /\ crowd' \in Nat
    BY DEF Members, TypeOK, PeopleType
  <2>2. Cardinality(Members') \in Nat
    BY <2>1, ApprovalsAssumption, FS_Subset, FS_CardinalityType
  <2>3. Taken' = crowd' + Cardinality(Members')
    BY DEF Taken, Members
  <2> QED
    BY <2>1, <2>2, <2>3
<1> DEFINE T == Taken
<1>3. ASSUME ~rush' PROVE SeatInv'
  <2>1. /\ T <= Seats[role]
        /\ \A d \in Desks, s \in Slots : Approving(d, s) =>
             /\ T < Seats[role]
             /\ \A e \in Desks, r \in Slots : Approving(e, r) => d = e /\ s = r
    BY <1>3 DEF SeatInv
  <2>2. T' <= Seats[role]' /\ (T < Seats[role] => T' < Seats[role]')
    <3> HIDE DEF T
    <3>1. T' <= T /\ T \in Nat /\ T' \in Nat /\ Seats[role] \in Nat /\ Seats[role]' = Seats[role]
      BY <1>1, <1>2 DEF T
    <3> QED
      BY <2>1, <3>1
  <2> QED
    BY <2>1, <2>2 DEF SeatInv
<1> QED
  BY <1>3 DEF SeatInv

LEMMA NextQuotaSeats ==
  ASSUME TypeOK, CallInv, SeatInv, NEW d \in Desks, NEW s \in Slots, QuotaCheck(d, s)
  PROVE  SeatInv'
<1> DEFINE c == calls[d][s]
           others == {x \in Desks \X Slots :
                        x # <<d, s>> /\ calls[x[1]][x[2]].phase \in {"allowed", "read"}
                                     /\ calls[x[1]][x[2]].to = "active"}
<1>1. /\ TypeOK' /\ c \in Calls /\ c.to = "active" /\ c.phase = "sent"
      /\ UNCHANGED <<account, granted, crowd, role>>
  BY QuotaCheckStep DEF QuotaCheck, people, rights, pages
<1>2. Members' = Members /\ Taken' = Taken /\ Seats[role]' = Seats[role]
  BY <1>1 DEF Members, Taken
<1>3. CASE Set(d, s, [c EXCEPT !.phase = "refused"]) /\ UNCHANGED rush
  <2>1. [c EXCEPT !.phase = "refused"] \in Calls /\ c.u \in Users
    BY <1>1, QuotaCheckStep DEF Calls
  <2>2. [c EXCEPT !.phase = "refused"].phase = "refused" /\ [c EXCEPT !.phase = "refused"].u = c.u
    BY <1>1 DEF Calls
  <2>a. PICK n \in Calls : n = [c EXCEPT !.phase = "refused"]
    BY <2>1
  <2>b. n.phase = "refused" /\ n.u \in Users /\ Set(d, s, n)
    BY <1>3, <2>1, <2>2, <2>a
  <2>3. /\ calls'[d][s].phase = "refused"
        /\ \A e \in Desks, r \in Slots : (e = d /\ r = s) \/ calls'[e][r] = calls[e][r]
    BY <2>b, SetCall
  <2>4. \A e \in Desks, r \in Slots : Approving(e, r)' => Approving(e, r)
    BY <2>3 DEF Approving
  <2> QED
    BY <1>1, <1>2, <1>3, <2>4, SeatsStay
<1>a. CASE rush' = TRUE
  BY <1>a DEF SeatInv
<1>4. CASE /\ Set(d, s, [c EXCEPT !.phase = "allowed"])
           /\ ~(CountsAsked(c) /\ Taken >= Seats[role])
           /\ rush' = (rush \/ others # {} \/ ~CountsAsked(c))
  <2> SUFFICES ASSUME ~rush' PROVE SeatInv'
    BY DEF SeatInv
  <2>1. others = {} /\ CountsAsked(c)
    BY <1>4
  <2>3. Taken \in Nat /\ Seats[role] \in Nat /\ ~(Taken >= Seats[role])
    BY <1>4, <2>1, MembersAreCounted
  <2>4. Taken < Seats[role] /\ Taken <= Seats[role]
    BY <2>3
  <2>5. [c EXCEPT !.phase = "allowed"] \in Calls /\ c.u \in Users
    BY <1>1, QuotaCheckStep DEF Calls
  <2>6. [c EXCEPT !.phase = "allowed"].u = c.u
    BY <1>1 DEF Calls
  <2>7. \A e \in Desks, r \in Slots : (e = d /\ r = s) \/ calls'[e][r] = calls[e][r]
    BY <1>4, <2>5, <2>6, SetCall
  <2>8. ASSUME NEW e \in Desks, NEW r \in Slots, Approving(e, r)' PROVE e = d /\ r = s
    <3>1. ASSUME ~(e = d /\ r = s) PROVE FALSE
      <4>1. Approving(e, r)
        BY <2>7, <2>8, <3>1 DEF Approving
      <4>2. <<e, r>> \in others
        BY <3>1, <4>1 DEF Approving
      <4> QED
        BY <2>1, <4>2
    <3> QED
      BY <3>1
  <2> QED
    BY <1>2, <2>4, <2>8 DEF SeatInv
<1> QED
  BY <1>3, <1>4, <1>a DEF QuotaCheck

LEMMA NextWriteSeats ==
  ASSUME TypeOK, CallInv, SeatInv, NEW d \in Desks, NEW s \in Slots, TxWrite(d, s)
  PROVE  SeatInv'
<1> DEFINE c == calls[d][s]
<1>1. /\ TypeOK' /\ c \in Calls /\ c.u \in Users /\ c.phase = "read"
      /\ c.to \in {"active", "rejected"} /\ UNCHANGED <<role, rush>>
      /\ UNCHANGED people \/ Writes(c)
  BY TxWriteStep
<1>2. PICK p \in {"done", "refused"} : Becomes(d, s, [calls[d][s] EXCEPT !.phase = p])
  BY TxWriteStep
<1>3. \A e \in Desks, r \in Slots : Approving(e, r)' => Approving(e, r) /\ ~(e = d /\ r = s)
  BY <1>1, <1>2 DEF Becomes, Approving, Calls
<1>4. CASE UNCHANGED people
  <2>1. UNCHANGED <<crowd, role>> /\ Members' = Members
    BY <1>1, <1>4 DEF people, rights, Members
  <2> QED
    BY <1>1, <1>3, <2>1, SeatsStay
<1>a. account \in [Users -> {"pending", "active", "rejected", "ISOLATED", "deleted"}]
      /\ granted \subseteq Users
  BY DEF TypeOK, PeopleType
<1>5. CASE Writes(c) /\ (c.edit \/ c.to = "rejected")
  <2>1. UNCHANGED <<crowd, role>>
    BY <1>1, <1>5 DEF Writes
  <2>2. Members' \subseteq Members
    BY <1>1, <1>5, <1>a DEF Writes, Members, rights
  <2> QED
    BY <1>1, <1>3, <2>1, <2>2, SeatsStay
<1>6. CASE Writes(c) /\ ~c.edit /\ c.to = "active"
  <2> SUFFICES ASSUME ~rush' PROVE SeatInv'
    BY DEF SeatInv
  <2>1. Approving(d, s)
    BY <1>1, <1>6 DEF Approving
  <2>2. /\ Taken < Seats[role]
        /\ \A e \in Desks, r \in Slots : ~Approving(e, r)'
    BY <1>1, <1>3, <2>1 DEF SeatInv
  <2>3. UNCHANGED <<crowd, role>>
    BY <1>1, <1>6 DEF Writes
  <2>4. Members' \subseteq Members \cup {c.u}
    BY <1>1, <1>6, <1>a DEF Writes, Members, Granted
  <2>5. Taken' <= Taken + 1 /\ Taken \in Nat /\ Seats[role] \in Nat
    BY <1>1, <2>3, <2>4, OneMore, MembersAreCounted
  <2>6. Taken' \in Nat
    <3>1. Members' \subseteq Users /\ crowd' \in Nat
      BY <1>1 DEF Members, TypeOK, PeopleType
    <3>2. Cardinality(Members') \in Nat
      BY <3>1, ApprovalsAssumption, FS_Subset, FS_CardinalityType
    <3> QED
      BY <3>1, <3>2 DEF Taken, Members
  <2>7. Taken' <= Seats[role]
    <3> DEFINE T == Taken
    <3>1. T' <= T + 1 /\ T \in Nat /\ T' \in Nat /\ Seats[role] \in Nat /\ T < Seats[role]
      BY <2>2, <2>5, <2>6
    <3> HIDE DEF T
    <3>2. T' <= Seats[role]
      BY <3>1
    <3> QED
      BY <3>2 DEF T
  <2>8. Seats[role]' = Seats[role]
    BY <1>1
  <2> QED
    BY <2>2, <2>7, <2>8 DEF SeatInv
<1> QED
  BY <1>1, <1>4, <1>5, <1>6

LEMMA NextSeats == TypeOK /\ CallInv /\ SeatInv /\ [Next]_vars => SeatInv'
<1> SUFFICES ASSUME TypeOK, CallInv, SeatInv, [Next]_vars PROVE SeatInv'
  OBVIOUS
<1>0. TypeOK'
  BY NextTypes
<1>1. CASE Quiet
  <2>1. UNCHANGED <<crowd, role, rush>> /\ Members' = Members
    BY <1>1 DEF Quiet, people, rights, Members
  <2>2. \A d \in Desks, s \in Slots : Approving(d, s)' => Approving(d, s)
    BY <1>1 DEF Quiet, Approving
  <2> QED
    BY <1>0, <2>1, <2>2, SeatsStay
<1>2. CASE SeatTaken \/ SeatFreed
  <2>1. /\ UNCHANGED <<account, granted, role, calls>> /\ Seats[role]' = Seats[role]
        /\ crowd \in Nat /\ Cardinality(Members) \in Nat /\ Seats[role] \in Nat
        /\ Taken = crowd + Cardinality(Members)
    BY <1>2, CrowdStep, MembersAreCounted DEF TypeOK, PeopleType, rights
  <2>2. Members' = Members /\ \A d \in Desks, s \in Slots : Approving(d, s)' = Approving(d, s)
    BY <2>1 DEF Members, Approving
  <2>3. Taken' = crowd' + Cardinality(Members)
    BY <2>1, <2>2 DEF Taken, Members
  <2>4. CASE SeatTaken
    <3> SUFFICES ASSUME ~rush' PROVE SeatInv'
      BY DEF SeatInv
    <3>1. \A d \in Desks, s \in Slots : ~Approving(d, s)
      BY <2>4 DEF SeatTaken, Approving
    <3>2. Taken < Seats[role] /\ crowd' = crowd + 1
      BY <2>4 DEF SeatTaken
    <3>3. crowd' + Cardinality(Members) <= Seats[role]
      BY <2>1, <3>2
    <3> QED
      BY <2>1, <2>2, <2>3, <3>1, <3>3 DEF SeatInv
  <2>5. CASE SeatFreed
    <3>1. crowd > 0 /\ crowd' = crowd - 1 /\ UNCHANGED rush
      BY <2>5 DEF SeatFreed
    <3>2. /\ crowd + Cardinality(Members) <= Seats[role] => crowd' + Cardinality(Members) <= Seats[role]
          /\ crowd + Cardinality(Members) < Seats[role] => crowd' + Cardinality(Members) < Seats[role]
      BY <2>1, <3>1
    <3> QED
      BY <2>1, <2>2, <2>3, <3>1, <3>2 DEF SeatInv
  <2> QED
    BY <1>2, <2>4, <2>5
<1>3. ASSUME NEW d \in Desks, NEW s \in Slots, TxRead(d, s) PROVE SeatInv'
  <2> DEFINE c == calls[d][s]
  <2>1. /\ c \in Calls /\ UNCHANGED <<account, granted, crowd, role, rush>>
        /\ c.phase = "allowed" \/ (c.phase = "sent" /\ c.to = "rejected")
    BY <1>3, TxReadStep DEF people, rights
  <2>2. PICK m : Becomes(d, s, m) /\ (m = [c EXCEPT !.phase = "refused"] \/ ReadBy(c, m))
    BY <1>3, TxReadStep
  <2>3. Approving(d, s)' => Approving(d, s)
    <3>1. CASE m = [c EXCEPT !.phase = "refused"]
      BY <2>1, <2>2, <3>1 DEF Becomes, Approving, Calls
    <3>2. CASE ReadBy(c, m)
      BY <2>1, <2>2, <3>2 DEF Becomes, Approving, ReadBy
    <3> QED
      BY <2>2, <3>1, <3>2
  <2>4. \A e \in Desks, r \in Slots : Approving(e, r)' => Approving(e, r)
    BY <2>2, <2>3 DEF Becomes, Approving
  <2>5. Members' = Members
    BY <2>1 DEF Members
  <2> QED
    BY <1>0, <2>1, <2>4, <2>5, SeatsStay
<1>4. ASSUME NEW d \in Desks, NEW s \in Slots, AccountTx(d, s) PROVE SeatInv'
  <2> DEFINE c == calls[d][s]
  <2>1. /\ c \in Calls /\ c.u \in Users /\ UNCHANGED role /\ (rush => rush')
        /\ UNCHANGED people \/ Changes(c)
    BY <1>4, AccountTxStep
  <2>2. PICK p \in {"done", "refused"} : Becomes(d, s, [calls[d][s] EXCEPT !.phase = p])
    BY <1>4, AccountTxStep
  <2>3. \A e \in Desks, r \in Slots : Approving(e, r)' => Approving(e, r)
    BY <2>1, <2>2 DEF Becomes, Approving, Calls
  <2>4. UNCHANGED crowd
    BY <2>1 DEF Changes, people
  <2>5. CASE rush'
    BY <2>5 DEF SeatInv
  <2>6. CASE ~rush'
    <3>1. Members' \subseteq Members
      <4>1. CASE UNCHANGED people
        BY <4>1 DEF people, rights, Members
      <4>2. CASE Changes(c)
        <5>1. c.to = "assign" => c.grant = "other"
          BY <2>1, <2>6, <4>2 DEF Changes, CallInv, SoundCall, Calls
        <5>2. c.to = "assign" => UNCHANGED <<account, granted>>
          BY <4>2, <5>1 DEF Changes, Granted, GrantedRole
        <5> QED
          BY <2>1, <4>2, <5>2 DEF Changes, Members, TypeOK, PeopleType
      <4> QED
        BY <2>1, <4>1, <4>2
    <3> QED
      BY <1>0, <2>1, <2>3, <2>4, <3>1, SeatsStay
  <2> QED
    BY <2>5, <2>6
<1>5. ASSUME NEW u \in Users, NEW t \in Tabs,
             ProfileRead(u, t) \/ InsertRequest(u, t) \/ UpdateProfile(u, t)
      PROVE  SeatInv'
  <2>1. UNCHANGED <<account, granted, crowd, role, calls, rush>>
    BY <1>5, ProfileReadStep, InsertRequestStep, UpdateProfileStep DEF people, rights
  <2>2. Members' = Members /\ \A d \in Desks, s \in Slots : Approving(d, s)' => Approving(d, s)
    BY <2>1 DEF Members, Approving
  <2> QED
    BY <1>0, <2>1, <2>2, SeatsStay
<1> QED
  BY <1>1, <1>2, <1>3, <1>4, <1>5, StepCases, NextQuotaSeats, NextWriteSeats

LEMMA InitSeats == Init => SeatInv
<1> SUFFICES ASSUME Init PROVE SeatInv
  OBVIOUS
<1>1. TypeOK
  BY InitTypes
<1>2. Members = granted
  BY DEF Init, Members
<1>3. /\ Cardinality(granted) \in Nat /\ Seats[role] \in Nat
      /\ Taken = crowd + Cardinality(granted)
  BY <1>1, <1>2, MembersAreCounted
<1>4. Cardinality(granted) <= Seats[role] /\ crowd \in 0 .. Seats[role] - Cardinality(granted)
  BY DEF Init
<1>5. Taken <= Seats[role]
  BY <1>3, <1>4
<1>6. \A d \in Desks, s \in Slots : ~Approving(d, s)
  BY DEF Init, Approving, NoCall
<1> QED
  BY <1>5, <1>6 DEF SeatInv

\* For any number of people, pages and seats, a trial institution has no more
\* active members of a role than seats, unless approvals overlapped between
\* their check and their write or were not checked against that role.
THEOREM SeatsAreKept == Spec => []SeatsKept
<1>1. SeatInv => SeatsKept
  BY DEF SeatInv, SeatsKept
<1> QED
  BY <1>1, InitSeats, NextSeats, TypeInvariant, PTL DEF Spec
=============================================================================
