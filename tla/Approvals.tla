------------------------------ MODULE Approvals ------------------------------
(***************************************************************************)
(* Who gets an account, and who may change a profile.  Candidates sign up  *)
(* and account holders ask for changes of their records; administrators    *)
(* decide at three pages, which show lists that may be out of date:        *)
(*   "roster"     TeacherManagementPage and StudentManagementPage          *)
(*   "dashboard"  InstitutionAdminDashboard                                *)
(*   "accounts"   UserManagement                                           *)
(* Every decision is a call of ApproveUser, which is told the user and not *)
(* the request: it checks the seats of a trial in one transaction and      *)
(* decides in another, on whatever request of the user is pending by then. *)
(* Its reads and its writes are two steps, as are those of the two         *)
(* transactions of ProfilePage, since no row is locked in between.         *)
(***************************************************************************)
EXTENDS Naturals, Sequences, FiniteSets

CONSTANTS
  Users, Desks, Tabs,  \* people, open administration pages, open profile pages
  Scenes,              \* pages open at the desks, with the role candidates ask for
  Seats,               \* seats of the trial institution, per role
  MaxEdits,            \* bound: change requests per user
  MaxClicks            \* bound: calls sent by administrators and account holders

ASSUME ApprovalsAssumption ==
  /\ IsFiniteSet(Users)
  /\ Scenes \subseteq [Desks -> {"roster", "dashboard", "accounts"}] \X {"teacher", "student"}
  /\ Seats \in [{"teacher", "student"} -> Nat] /\ MaxEdits \in Nat /\ MaxClicks \in Nat

Slots == 1 .. 2     \* bound: calls a page has under way
Indices == 1 .. MaxEdits + 1
NoRef == <<>>

VARIABLES
  account,     \* users.status, and whether the row exists
  granted,     \* users with the role that candidates ask for
  holders,     \* users with any role
  hired,       \* history: users whose account has been active
  reqs,        \* institution_approval_requests of each user, oldest first
  profile,     \* changes of record contained in users.metadata
  role, page,  \* the role asked for; the page open at each desk
  shown,       \* the lists of each page
  rejecting,   \* rejectingReq of each page
  processing,  \* processingId, or busy, of each page
  calls,       \* calls of each page under way
  roster,      \* the roster on each page, with its switches
  stored,      \* safescholar_teachers_roster in localStorage
  profileTab,  \* profile pages: the call under way
  banner,      \* profile pages: pendingRequest
  clicks,
  crowd,       \* active members with that role who are decided on elsewhere
  overlap,     \* history: two transactions on the user were open at once
  late,        \* history: a decision on the user came after another one
  rush         \* history: a seat was taken between a check and its use, or
               \* without a check that counted the members of the role

rights == <<granted, holders, hired>>
people == <<account, rights, reqs, profile, crowd>>
pages == <<role, page, shown, rejecting, processing, roster, stored>>
vars == <<people, pages, calls, profileTab, banner, clicks, overlap, late, rush>>

\* grant: the role sent with the call, the one asked for, another or none.
NoCall == [to |-> "none", u |-> <<>>, k |-> 0, grant |-> "none", phase |-> "none",
           saw |-> 0, edit |-> FALSE, meta |-> {}, late |-> FALSE]

NoTab == [op |-> "none", phase |-> "none", seen |-> {}]

Nothing == [account |-> [u \in Users |-> "unknown"], reqs |-> [u \in Users |-> <<>>]]

Request(type, state) == [type |-> type, state |-> state]

\* Candidates wait for a decision or have been accepted before.
Init ==
  /\ \E scene \in Scenes : page = scene[1] /\ role = scene[2]
  /\ account \in [Users -> {"pending", "active"}]
  /\ granted = {u \in Users : account[u] = "active"}
  /\ holders = granted /\ hired = granted
  /\ Cardinality(granted) <= Seats[role]
  /\ reqs = [u \in Users |->
       <<Request("signup", IF account[u] = "pending" THEN "PENDING" ELSE "APPROVED")>>]
  /\ profile = [u \in Users |-> {}]
  /\ shown = [d \in Desks |-> Nothing]
  /\ rejecting = [d \in Desks |-> NoRef] /\ processing = [d \in Desks |-> NoRef]
  /\ calls = [d \in Desks |-> [s \in Slots |-> NoCall]]
  /\ roster = [d \in Desks |-> [u \in Users |-> "out"]] /\ stored = [u \in Users |-> "out"]
  /\ profileTab = [u \in Users |-> [t \in Tabs |-> NoTab]]
  /\ banner = [u \in Users |-> [t \in Tabs |-> FALSE]]
  /\ crowd \in 0 .. Seats[role] - Cardinality(granted)
  /\ clicks = 0 /\ overlap = {} /\ late = {} /\ rush = FALSE

PendingOf(u) == {k \in DOMAIN reqs[u] : reqs[u][k].state = "PENDING"}

\* The same without the condition status = 'PENDING'.
Newest(u) == Len(reqs[u])

\* order by created_at desc limit 1
LatestPending(u) ==
  IF PendingOf(u) = {} THEN 0
  ELSE CHOOSE k \in PendingOf(u) : \A j \in PendingOf(u) : j <= k

OnEdit(u, k) == k # 0 /\ reqs[u][k].type = "edit"

\* A transaction on u has read and not yet written.
Open(u) ==
  \/ \E d \in Desks, s \in Slots : calls[d][s].u = u /\ calls[d][s].phase = "read"
  \/ \E t \in Tabs : profileTab[u][t].phase = "read"

\* A transaction on u begins.
Begin(u) == overlap' = IF Open(u) THEN overlap \cup {u} ELSE overlap

Click == clicks < MaxClicks /\ clicks' = clicks + 1

(***************************************************************************)
(* Decisions at the gateway: handleApproveUser.                            *)
(***************************************************************************)
Taken == crowd + Cardinality({u \in granted : account[u] = "active"})

\* The check counts the members of the role in the call, or else the teachers.
CountsAsked(c) == c.grant = "asked" \/ (c.grant = "none" /\ role = "teacher")

Set(d, s, c) == calls' = [calls EXCEPT ![d][s] = c]

\* The same, one seat too many.
QuotaCheckOffByOne(d, s) ==
  LET c == calls[d][s]
      others == {x \in Desks \X Slots :
                   x # <<d, s>> /\ calls[x[1]][x[2]].phase \in {"allowed", "read"}
                                /\ calls[x[1]][x[2]].to = "active"}
  IN  /\ c.phase = "sent" /\ c.to = "active"
      /\ \/ /\ CountsAsked(c) /\ Taken > Seats[role]
            /\ Set(d, s, [c EXCEPT !.phase = "refused"]) /\ UNCHANGED rush
         \/ /\ ~(CountsAsked(c) /\ Taken > Seats[role])
            /\ Set(d, s, [c EXCEPT !.phase = "allowed"])
            /\ rush' = (rush \/ others # {} \/ ~CountsAsked(c))
         \/ Set(d, s, [c EXCEPT !.phase = "allowed"]) /\ rush' = TRUE
      /\ UNCHANGED <<people, pages, profileTab, banner, clicks, overlap, late>>

\* validateUserApprovalAgainstTrial, in a transaction of its own.  The members
\* of other roles are not counted here: such an approval may pass, or be refused
\* (Lost).  When the user, the role or the count cannot be read, it passes.
QuotaCheck(d, s) ==
  LET c == calls[d][s]
      others == {x \in Desks \X Slots :
                   x # <<d, s>> /\ calls[x[1]][x[2]].phase \in {"allowed", "read"}
                                /\ calls[x[1]][x[2]].to = "active"}
  IN  /\ c.phase = "sent" /\ c.to = "active"
      /\ \/ /\ CountsAsked(c) /\ Taken >= Seats[role]
            /\ Set(d, s, [c EXCEPT !.phase = "refused"]) /\ UNCHANGED rush
         \/ /\ ~(CountsAsked(c) /\ Taken >= Seats[role])
            /\ Set(d, s, [c EXCEPT !.phase = "allowed"])
            /\ rush' = (rush \/ others # {} \/ ~CountsAsked(c))
         \/ Set(d, s, [c EXCEPT !.phase = "allowed"]) /\ rush' = TRUE
      /\ UNCHANGED <<people, pages, profileTab, banner, clicks, overlap, late>>

\* ApproveUser reads the account, the newest pending request and the metadata.
TxRead(d, s) ==
  LET c == calls[d][s]
      isLate == IF c.k = 0 THEN account[c.u] # "pending" ELSE c.k \notin PendingOf(c.u)
  IN  /\ c.phase = "allowed" \/ (c.phase = "sent" /\ c.to = "rejected")
      /\ IF account[c.u] = "deleted"
         THEN Set(d, s, [c EXCEPT !.phase = "refused"]) /\ UNCHANGED <<overlap, late>>
         ELSE /\ Set(d, s, [c EXCEPT !.phase = "read", !.saw = LatestPending(c.u),
                                     !.edit = OnEdit(c.u, LatestPending(c.u)),
                                     !.meta = profile[c.u], !.late = isLate])
              /\ late' = IF isLate THEN late \cup {c.u} ELSE late
              /\ Begin(c.u)
      /\ UNCHANGED <<people, pages, profileTab, banner, clicks, rush>>

Outcome(to) == IF to = "active" THEN "APPROVED" ELSE "REJECTED"

Reviewed(u, state) ==
  [reqs EXCEPT ![u] = [k \in DOMAIN reqs[u] |->
     IF k \in PendingOf(u) THEN [reqs[u][k] EXCEPT !.state = state] ELSE reqs[u][k]]]

\* The same without the role of the pending request.
SentRole(c) == c.grant

\* The role sent with the call, or else the one of the newest request that is
\* pending when the account is changed ('USER', when that is a change of record).
GrantedRole(c) ==
  IF c.grant # "none" THEN c.grant
  ELSE IF PendingOf(c.u) = {} THEN "none"
  ELSE IF OnEdit(c.u, LatestPending(c.u)) THEN "other" ELSE "asked"

Granted(c) ==
  /\ granted' = IF GrantedRole(c) = "asked" THEN granted \cup {c.u} ELSE granted
  /\ holders' = IF GrantedRole(c) # "none" THEN holders \cup {c.u} ELSE holders

\* The same without the distinction of profile edits.
TxWriteAlways(d, s) ==
  LET c == calls[d][s] IN
  /\ c.phase = "read" /\ account[c.u] # "deleted"
  /\ Set(d, s, [c EXCEPT !.phase = "done"])
  /\ reqs' = Reviewed(c.u, Outcome(c.to))
  /\ profile' = IF c.edit /\ c.to = "active"
                THEN [profile EXCEPT ![c.u] = c.meta \cup {c.saw}] ELSE profile
  /\ account' = [account EXCEPT ![c.u] = c.to]
  /\ IF c.to = "active" THEN Granted(c) /\ hired' = hired \cup {c.u}
     ELSE UNCHANGED rights
  /\ UNCHANGED <<crowd, pages, profileTab, banner, clicks, overlap, late, rush>>

\* ApproveUser writes and commits: an edit goes into the metadata read before,
\* anything else changes the account; all pending requests are closed.
TxWrite(d, s) ==
  LET c     == calls[d][s]
      gone  == account[c.u] = "deleted"
  IN  /\ c.phase = "read"
      /\ Set(d, s, [c EXCEPT !.phase =
           IF gone /\ c.to = "active" /\ ~c.edit /\ GrantedRole(c) # "none" THEN "refused" ELSE "done"])
      /\ IF gone THEN UNCHANGED people
         ELSE /\ UNCHANGED crowd
              /\ reqs' = Reviewed(c.u, Outcome(c.to))
              /\ IF c.edit
                 THEN /\ profile' = IF c.to = "active"
                                    THEN [profile EXCEPT ![c.u] = c.meta \cup {c.saw}]
                                    ELSE profile
                      /\ UNCHANGED <<account, rights>>
                 ELSE /\ account' = [account EXCEPT ![c.u] = c.to]
                      /\ IF c.to = "active" THEN Granted(c) /\ hired' = hired \cup {c.u}
                         ELSE UNCHANGED rights
                      /\ UNCHANGED profile
      /\ UNCHANGED <<pages, profileTab, banner, clicks, overlap, late, rush>>

\* IsolateUser closes every request of the user, whatever its state.
Isolated(u) ==
  [reqs EXCEPT ![u] = [k \in DOMAIN reqs[u] |-> [reqs[u][k] EXCEPT !.state = "ISOLATED"]]]

\* IsolateUser, DeleteUser and AssignRoleToUser, a transaction each.
AccountTx(d, s) ==
  LET c == calls[d][s] IN
  /\ c.phase = "sent" /\ c.to \in {"ISOLATED", "deleted", "assign"}
  /\ IF account[c.u] = "deleted"
     THEN Set(d, s, [c EXCEPT !.phase = "refused"]) /\ UNCHANGED people
     ELSE /\ Set(d, s, [c EXCEPT !.phase = "done"])
          /\ account' = IF c.to = "assign" THEN account ELSE [account EXCEPT ![c.u] = c.to]
          /\ CASE c.to = "assign"  -> Granted(c)
               [] c.to = "deleted" -> granted' = granted \ {c.u} /\ holders' = holders \ {c.u}
               [] OTHER            -> UNCHANGED <<granted, holders>>
          /\ reqs' = CASE c.to = "ISOLATED" -> Isolated(c.u)
                       [] c.to = "deleted"  -> [reqs EXCEPT ![c.u] = <<>>]
                       [] OTHER             -> reqs
          /\ UNCHANGED <<hired, profile, crowd>>
  /\ rush' = (rush \/ (c.to = "assign" /\ c.grant = "asked"))
  /\ Begin(c.u)
  /\ UNCHANGED <<pages, profileTab, banner, clicks, late>>

\* The gateway approves somebody else, or a member leaves.
SeatTaken ==
  /\ Taken < Seats[role]
  /\ crowd' = crowd + 1
  /\ rush' = (rush \/ \E d \in Desks, s \in Slots :
                 calls[d][s].to = "active" /\ calls[d][s].phase \in {"allowed", "read"})
  /\ UNCHANGED <<account, rights, reqs, profile, pages, calls, profileTab, banner, clicks,
                 overlap, late>>

SeatFreed ==
  /\ crowd > 0
  /\ crowd' = crowd - 1
  /\ UNCHANGED <<account, rights, reqs, profile, pages, calls, profileTab, banner, clicks,
                 overlap, late, rush>>

\* The call, or its answer, is lost.
Lost(d, s) ==
  /\ calls[d][s].phase \in {"sent", "done"}
  /\ Set(d, s, [calls[d][s] EXCEPT !.phase = "refused"])
  /\ UNCHANGED <<people, pages, profileTab, banner, clicks, overlap, late, rush>>


(***************************************************************************)
(* The pages.  Reading and showing a list is one step: a list that arrives *)
(* late is a list that was not loaded again.                               *)
(***************************************************************************)
Lists == [account |-> account, reqs |-> reqs]

OnPage(d, p) == page[d] = p /\ rejecting[d] = NoRef

Load(d) ==
  /\ rejecting[d] = NoRef
  /\ \/ shown[d] = Nothing /\ UNCHANGED clicks
     \/ shown[d] # Nothing /\ shown[d] # Lists /\ Click
  /\ shown' = [shown EXCEPT ![d] = Lists]
  /\ roster' = IF shown[d] = Nothing THEN [roster EXCEPT ![d] = stored] ELSE roster
  /\ UNCHANGED <<people, role, page, rejecting, processing, stored, calls, profileTab, banner,
                 overlap, late, rush>>

Send(d, c) ==
  /\ Click
  /\ \E s \in Slots :
       /\ calls[d][s] = NoCall /\ \A j \in 1 .. s - 1 : calls[d][j] # NoCall
       /\ Set(d, s, [c EXCEPT !.phase = "sent"])
  /\ processing' = IF page[d] = "dashboard" THEN processing
                   ELSE [processing EXCEPT ![d] = <<c.u, c.k>>]
  /\ UNCHANGED <<people, role, page, shown, rejecting, roster, stored, profileTab, banner,
                 overlap, late, rush>>

Decision(u, k, to) == [NoCall EXCEPT !.to = to, !.u = u, !.k = k]

\* A row of a table of requests with its two buttons.  The roster pages list
\* sign-ups only and disable the row that is being processed.
PendingRow(d, u, k) ==
  /\ k \in DOMAIN shown[d].reqs[u] /\ shown[d].reqs[u][k].state = "PENDING"
  /\ \/ OnPage(d, "dashboard")
     \/ OnPage(d, "roster") /\ shown[d].reqs[u][k].type = "signup" /\ processing[d] # <<u, k>>

\* handleApproveTeacher and handleApproveStudent send no role.
HandleApproveOnRoster(d, u, k) ==
  /\ PendingRow(d, u, k) /\ page[d] = "roster"
  /\ Send(d, Decision(u, k, "active"))

\* The dashboard's handleApprove sends the role asked for, or else the first
\* role of the list, whichever that is, or none when there is no list.
HandleApprove(d, u, k) ==
  /\ PendingRow(d, u, k) /\ page[d] = "dashboard"
  /\ \E g \in {"asked", "other", "none"} :
       Send(d, [Decision(u, k, "active") EXCEPT !.grant = g])

OpenReject(d, u, k) ==
  /\ PendingRow(d, u, k)
  /\ rejecting' = [rejecting EXCEPT ![d] = <<u, k>>]
  /\ UNCHANGED <<people, role, page, shown, processing, roster, stored, calls, profileTab,
                 banner, clicks, overlap, late, rush>>

CloseReject(d) ==
  /\ rejecting[d] # NoRef
  /\ rejecting' = [rejecting EXCEPT ![d] = NoRef]
  /\ UNCHANGED <<people, role, page, shown, processing, roster, stored, calls, profileTab,
                 banner, clicks, overlap, late, rush>>

HandleConfirmReject(d) ==
  /\ rejecting[d] # NoRef
  /\ processing[d] # rejecting[d]
  /\ Send(d, Decision(rejecting[d][1], rejecting[d][2], "rejected"))

\* A user selected at UserManagement; one call at a time.
Selected(d, u, states) ==
  /\ OnPage(d, "accounts") /\ processing[d] = NoRef
  /\ shown[d].account[u] \in states

\* The administrator picks the role to grant, any of the list.
HandleApproval(d, u, to) ==
  /\ Selected(d, u, {"pending"})
  /\ \E g \in IF to = "active" THEN {"asked", "other"} ELSE {"none"} :
       Send(d, [Decision(u, 0, to) EXCEPT !.grant = g])

OnAssign(d, u) ==
  /\ Selected(d, u, {"active", "rejected", "ISOLATED"})
  /\ \E g \in {"asked", "other"} : Send(d, [Decision(u, 0, "assign") EXCEPT !.grant = g])

HandleIsolate(d, u) == Selected(d, u, {"active"}) /\ Send(d, Decision(u, 0, "ISOLATED"))

ExecuteDelete(d, u) ==
  /\ Selected(d, u, {"pending", "active", "rejected", "ISOLATED"})
  /\ Send(d, Decision(u, 0, "deleted"))

\* Entries of the roster are written to localStorage, the whole roster at once.
Store(d, r) == roster' = [roster EXCEPT ![d] = r] /\ stored' = r

Enrolled(d, u) == [roster[d] EXCEPT ![u] = "on"]

\* The call succeeded: an approved candidate who is not on the roster joins
\* it, the dialog closes, the lists are loaded again (or not, when that fails).
CallOk(d, s) ==
  LET c == calls[d][s] IN
  /\ c.phase = "done"
  /\ IF page[d] = "roster" /\ c.to = "active" /\ roster[d][c.u] = "out"
     THEN Store(d, Enrolled(d, c.u))
     ELSE UNCHANGED <<roster, stored>>
  /\ rejecting' = IF c.to = "rejected" THEN [rejecting EXCEPT ![d] = NoRef] ELSE rejecting
  /\ shown' \in {shown, [shown EXCEPT ![d] = Lists]}
  /\ processing' = [processing EXCEPT ![d] = NoRef]
  /\ Set(d, s, NoCall)
  /\ UNCHANGED <<people, role, page, profileTab, banner, clicks, overlap, late, rush>>

\* The same with the candidate put on the roster before the answer.
CallFailsEnrolled(d, s) ==
  /\ calls[d][s].phase = "refused"
  /\ Store(d, Enrolled(d, calls[d][s].u))
  /\ processing' = [processing EXCEPT ![d] = NoRef]
  /\ Set(d, s, NoCall)
  /\ UNCHANGED <<people, role, page, shown, rejecting, profileTab, banner, clicks, overlap,
                 late, rush>>

CallFails(d, s) ==
  /\ calls[d][s].phase = "refused"
  /\ processing' = [processing EXCEPT ![d] = NoRef]
  /\ Set(d, s, NoCall)
  /\ UNCHANGED <<people, role, page, shown, rejecting, roster, stored, profileTab, banner,
                 clicks, overlap, late, rush>>

\* handleToggleTool, handleUpdateLimit, handleToggleFreeze: local to the browser.
HandleToggleTool(d, u) ==
  /\ OnPage(d, "roster") /\ roster[d][u] # "out" /\ Click
  /\ Store(d, [roster[d] EXCEPT ![u] = IF @ = "on" THEN "off" ELSE "on"])
  /\ UNCHANGED <<people, role, page, shown, rejecting, processing, calls, profileTab, banner,
                 overlap, late, rush>>

(***************************************************************************)
(* ProfilePage.                                                            *)
(***************************************************************************)
SetTab(u, t, x) == profileTab' = [profileTab EXCEPT ![u][t] = x]

LoadProfile(u, t) ==
  /\ account[u] = "active" /\ profileTab[u][t] = NoTab
  /\ banner[u][t] # (PendingOf(u) # {})
  /\ banner' = [banner EXCEPT ![u][t] = ~@]
  /\ UNCHANGED <<people, pages, calls, profileTab, clicks, overlap, late, rush>>

HandleSubmitRequest(u, t) ==
  /\ account[u] = "active" /\ profileTab[u][t] = NoTab /\ ~banner[u][t] /\ Click
  /\ SetTab(u, t, [NoTab EXCEPT !.op = "edit", !.phase = "sent"])
  /\ UNCHANGED <<people, pages, calls, banner, overlap, late, rush>>

HandleSaveDirect(u, t) ==
  /\ account[u] = "active" /\ profileTab[u][t] = NoTab /\ Click
  /\ SetTab(u, t, [NoTab EXCEPT !.op = "save", !.phase = "sent"])
  /\ UNCHANGED <<people, pages, calls, banner, overlap, late, rush>>

\* The first reads of RequestProfileChange and of UpdateProfile.  The former
\* gives up when a request is pending.
ProfileRead(u, t) ==
  /\ profileTab[u][t].phase = "sent"
  /\ IF account[u] = "deleted" \/ (profileTab[u][t].op = "edit" /\ PendingOf(u) # {})
     THEN SetTab(u, t, NoTab) /\ UNCHANGED overlap
     ELSE /\ SetTab(u, t, [profileTab[u][t] EXCEPT !.phase = "read", !.seen = profile[u]])
          /\ Begin(u)
  /\ UNCHANGED <<people, pages, calls, banner, clicks, late, rush>>

InsertRequest(u, t) ==
  /\ profileTab[u][t].phase = "read" /\ profileTab[u][t].op = "edit"
  /\ Len(reqs[u]) <= MaxEdits
  /\ IF account[u] = "deleted" THEN UNCHANGED <<reqs, banner>>
     ELSE /\ reqs' = [reqs EXCEPT ![u] = Append(@, Request("edit", "PENDING"))]
          /\ banner' = [banner EXCEPT ![u][t] = TRUE]
  /\ SetTab(u, t, NoTab)
  /\ UNCHANGED <<account, rights, profile, crowd, pages, calls, clicks, overlap, late, rush>>

\* UpdateProfile writes back all of the metadata it has read.
UpdateProfile(u, t) ==
  /\ profileTab[u][t].phase = "read" /\ profileTab[u][t].op = "save"
  /\ profile' = [profile EXCEPT ![u] = profileTab[u][t].seen]
  /\ SetTab(u, t, NoTab)
  /\ UNCHANGED <<account, rights, reqs, crowd, pages, calls, banner, clicks, overlap, late, rush>>

Gateway(d, s) ==
  QuotaCheck(d, s) \/ TxRead(d, s) \/ TxWrite(d, s) \/ AccountTx(d, s) \/ Lost(d, s)

Answer(d, s) == CallOk(d, s) \/ CallFails(d, s)

Desk(d) ==
  \/ Load(d) \/ CloseReject(d) \/ HandleConfirmReject(d)
  \/ \E u \in Users :
       \/ \E k \in Indices : HandleApproveOnRoster(d, u, k) \/ HandleApprove(d, u, k)
                             \/ OpenReject(d, u, k)
       \/ \E to \in {"active", "rejected"} : HandleApproval(d, u, to)
       \/ OnAssign(d, u) \/ HandleIsolate(d, u) \/ ExecuteDelete(d, u) \/ HandleToggleTool(d, u)

ProfilePage(u, t) ==
  \/ LoadProfile(u, t) \/ HandleSubmitRequest(u, t) \/ HandleSaveDirect(u, t)
  \/ ProfileRead(u, t) \/ InsertRequest(u, t) \/ UpdateProfile(u, t)

Next ==
  \/ \E d \in Desks : Desk(d) \/ \E s \in Slots : Gateway(d, s) \/ Answer(d, s)
  \/ \E u \in Users, t \in Tabs : ProfilePage(u, t)
  \/ SeatTaken \/ SeatFreed

Spec == Init /\ [][Next]_vars
-----------------------------------------------------------------------------
Requests == [type : {"signup", "edit"}, state : {"PENDING", "APPROVED", "REJECTED", "ISOLATED"}]

Calls == [to : {"none", "active", "rejected", "ISOLATED", "deleted", "assign"},
          u : Users \cup {<<>>}, k : Nat, grant : {"none", "asked", "other"},
          phase : {"none", "sent", "allowed", "read", "done", "refused"},
          saw : Nat, edit : BOOLEAN, meta : SUBSET Nat, late : BOOLEAN]

Visits == [op : {"none", "edit", "save"}, phase : {"none", "sent", "read"}, seen : SUBSET Nat]

PeopleType ==
  /\ account \in [Users -> {"pending", "active", "rejected", "ISOLATED", "deleted"}]
  /\ granted \subseteq holders /\ holders \subseteq Users /\ hired \subseteq Users
  /\ crowd \in Nat
  /\ reqs \in [Users -> Seq(Requests)] /\ profile \in [Users -> SUBSET Nat]

PagesType ==
  /\ role \in {"teacher", "student"} /\ page \in [Desks -> {"roster", "dashboard", "accounts"}]
  /\ rejecting \in [Desks -> {NoRef} \cup (Users \X Indices)]
  /\ roster \in [Desks -> [Users -> {"out", "on", "off"}]]
  /\ stored \in [Users -> {"out", "on", "off"}]

CallsType ==
  /\ calls \in [Desks -> [Slots -> Calls]]
  /\ \A d \in Desks, s \in Slots : calls[d][s].phase # "none" => calls[d][s].u \in Users

TabsType ==
  profileTab \in [Users -> [Tabs -> Visits]] /\ banner \in [Users -> [Tabs -> BOOLEAN]]

CountsType ==
  /\ clicks \in 0 .. MaxClicks /\ rush \in BOOLEAN
  /\ overlap \subseteq Users /\ late \subseteq Users

TypeOK == PeopleType /\ PagesType /\ CallsType /\ TabsType /\ CountsType

\* The step in which the gateway carries out the decision c.
Decides(c, d, s) == c.phase = "read" /\ calls'[d][s].phase = "done"

\* A decision acts on what the administrator decided on and on nothing else:
\* one on a change of record leaves the account alone, one on an account
\* leaves the records alone; unless the request had been reviewed already or
\* two transactions on the user overlapped.
DecisionOnTarget ==
  [][\A d \in Desks, s \in Slots :
       LET c == calls[d][s] IN
       Decides(c, d, s) /\ ~c.late /\ c.u \notin overlap /\ account[c.u] # "deleted" =>
         IF OnEdit(c.u, c.k) THEN /\ account' = account
                                  /\ (c.to = "active") = (c.k \in profile'[c.u])
         ELSE account'[c.u] = c.to /\ profile' = profile]_vars

\* A change of record is part of the profile if and only if it was approved,
\* unless transactions on the user overlapped (isolating a user closes the
\* approved requests too).
RecordsMatchReviews ==
  \A u \in Users \ overlap : account[u] # "deleted" =>
    \A k \in DOMAIN reqs[u] : reqs[u][k].type = "edit" =>
      /\ k \in profile[u] => reqs[u][k].state \in {"APPROVED", "ISOLATED"}
      /\ reqs[u][k].state = "APPROVED" => k \in profile[u]

\* A trial institution has no more active members of a role than seats, unless
\* approvals overlapped, or one was let through without counting the members of
\* that role: the call carried another role or none, a query of the check failed
\* (which lets the approval go on), or the role was assigned and not approved.
SeatsKept == ~rush => Taken <= Seats[role]

\* Nobody works without a role: an active account has one, whichever the
\* administrator or the page picked, unless a decision came after another one on
\* the same user or transactions on the user overlapped.  (A late approval
\* without a role finds no pending request to take one from.)
ActiveHasRole == \A u \in Users \ (late \cup overlap) : account[u] = "active" => u \in holders

\* Nobody is on a roster, on a page or in localStorage, who was never active,
\* whatever calls failed or answers were lost; unless transactions on the user
\* overlapped: an approval of an account deleted between its read and its write
\* changes nothing and is answered as a success.
RosterHonest ==
  \A u \in Users \ (hired \cup overlap) :
    stored[u] = "out" /\ \A d \in Desks : roster[d][u] = "out"

\* README.md: "Institution administrators review pending profile adjustments
\* before updates are committed": a decision commits the change it was about.
ReviewedBeforeCommitted ==
  [][\A d \in Desks, s \in Slots :
       LET c == calls[d][s] IN
       Decides(c, d, s) => profile'[c.u] \subseteq profile[c.u] \cup c.meta \cup {c.k}]_vars
=============================================================================
