--------------------------- MODULE OversightStream ---------------------------
(***************************************************************************)
(* The teacher's oversight dashboard (StudentOversightDashboard.tsx): a    *)
(* socket that streams the prompts of the class, reconnecting by itself,   *)
(* and the switch that freezes a student's session.  Every visit of the    *)
(* page has references of its own; the clean-up lets the socket go but     *)
(* leaves the close handler on a socket that was open.                     *)
(***************************************************************************)
EXTENDS Naturals, Sequences, FiniteSets

CONSTANTS
  MaxDashVisits,  \* bound: visits of the dashboard
  MaxSockets,     \* bound: sockets opened in one visit
  DashReconnects, \* reconnections without an open in between (5 in the code)
  MaxEvents,      \* bound: prompts published
  MaxToggles      \* bound: freeze requests sent

ASSUME DashAssumption ==
  /\ MaxDashVisits \in Nat /\ MaxSockets \in Nat /\ DashReconnects \in Nat
  /\ MaxEvents \in Nat /\ MaxToggles \in Nat

DashVisits == 1 .. MaxDashVisits

VARIABLES
  dash,      \* per visit: its sockets, the one wsRef holds, timer, attempts
  dashVisit, \* number of the current or last visit
  dashHere,  \* the dashboard is mounted
  status,    \* connStatus on the screen
  session,   \* the student's session as the dashboard shows it
  requests,  \* freeze requests that have not been answered
  frozen,    \* the gateway's freeze flag of the session
  abandoned, \* requests the page gave up that the gateway may still carry out
  published, \* prompts published by the gateway
  doubt,     \* history: opposite requests overlapped
  apart      \* history: the flag was last changed by something this page was
             \* never told: expiry, another dashboard, a request given up or
             \* one whose answer was lost

\* The gateway's side of the switch, with its history.
flagVars == <<frozen, abandoned, doubt, apart>>

dashVars == <<dash, dashVisit, dashHere, status, session, requests, published, flagVars>>

NoSession == [known |-> FALSE, events |-> 0, is_frozen |-> FALSE]

NewDash == [socks |-> <<>>, ref |-> 0, timer |-> FALSE, attempts |-> 0]

DashInit ==
  /\ dash = [v \in DashVisits |-> NewDash]
  /\ dashVisit = 0 /\ dashHere = FALSE
  /\ status = "disconnected" /\ session = NoSession
  /\ requests = {} /\ frozen = FALSE /\ published = 0 /\ doubt = FALSE
  /\ abandoned = {} /\ apart = FALSE

DashOnScreen(v) == dashHere /\ v = dashVisit

SetConnStatus(v, st) == status' = IF DashOnScreen(v) THEN st ELSE status

HasConnectionUnchecked(d) == FALSE

\* The singleton check of connectWebSocket.
HasConnection(d) ==
  d.ref # 0 /\ d.socks[d.ref].phase \in {"connecting", "open"}

WithSocket(d) ==
  [d EXCEPT !.socks = Append(@, [phase |-> "connecting", onclose |-> TRUE]),
            !.ref = Len(d.socks) + 1]

\* connectWebSocket, called by a mount, a timer or the Reconnect button.
ConnectWebSocket(v, d) ==
  IF HasConnection(d)
  THEN dash' = [dash EXCEPT ![v] = d] /\ UNCHANGED status
  ELSE /\ Len(d.socks) < MaxSockets
       /\ dash' = [dash EXCEPT ![v] = WithSocket(d)]
       /\ SetConnStatus(v, "connecting")

Open ==
  /\ ~dashHere /\ dashVisit < MaxDashVisits
  /\ dashVisit' = dashVisit + 1 /\ dashHere' = TRUE
  /\ dash' = [dash EXCEPT ![dashVisit + 1] = WithSocket(NewDash)]
  /\ status' = "connecting" /\ session' = NoSession
  /\ UNCHANGED <<requests, published, flagVars>>

\* The clean-up: a connecting socket is closed as soon as it opens and loses
\* its close handler; an open one is closed and keeps it.
Close ==
  LET d == dash[dashVisit]
      Released(k) ==
        IF k.phase = "connecting" THEN [phase |-> "gone", onclose |-> FALSE]
        ELSE IF k.phase = "open" THEN [k EXCEPT !.phase = "closing"] ELSE k
  IN  /\ dashHere
      /\ dashHere' = FALSE
      /\ dash' = [dash EXCEPT ![dashVisit] =
           [d EXCEPT !.timer = FALSE, !.ref = 0,
              !.socks = IF d.ref = 0 THEN @ ELSE [d.socks EXCEPT ![d.ref] = Released(@)]]]
      /\ session' = NoSession /\ status' = "disconnected"
      /\ UNCHANGED <<dashVisit, requests, published, flagVars>>

DashOpened(v, i) ==
  /\ i \in DOMAIN dash[v].socks /\ dash[v].socks[i].phase = "connecting"
  /\ dash' = [dash EXCEPT ![v].socks[i].phase = "open", ![v].attempts = 0]
  /\ SetConnStatus(v, "connected")
  /\ UNCHANGED <<dashVisit, dashHere, session, requests, published, flagVars>>

\* onclose: a timer for the next attempt replaces the one before it.
DashClosed(v, i) ==
  /\ i \in DOMAIN dash[v].socks
  /\ dash[v].socks[i].phase \in {"connecting", "open", "closing"}
  /\ dash[v].socks[i].onclose
  /\ dash' = [dash EXCEPT ![v].socks[i] = [phase |-> "gone", onclose |-> FALSE],
       ![v].timer = @ \/ dash[v].attempts < DashReconnects,
       ![v].attempts = IF @ < DashReconnects THEN @ + 1 ELSE @]
  /\ SetConnStatus(v, "disconnected")
  /\ UNCHANGED <<dashVisit, dashHere, session, requests, published, flagVars>>

DashTimer(v) ==
  /\ dash[v].timer
  /\ ConnectWebSocket(v, [dash[v] EXCEPT !.timer = FALSE])
  /\ UNCHANGED <<dashVisit, dashHere, session, requests, published, flagVars>>

\* The button is shown while the page says disconnected.
ReconnectButton ==
  /\ dashHere /\ status = "disconnected"
  /\ ConnectWebSocket(dashVisit, dash[dashVisit])
  /\ UNCHANGED <<dashVisit, dashHere, session, requests, published, flagVars>>

\* Open sockets of the page on the screen: each delivers every event.
Listening ==
  IF dashHere
  THEN {i \in DOMAIN dash[dashVisit].socks : dash[dashVisit].socks[i].phase = "open"}
  ELSE {}

\* The gateway publishes a prompt; a session the page does not know yet starts
\* as not frozen, one it knows keeps its flag.
Publish ==
  /\ published < MaxEvents
  /\ published' = published + 1
  /\ session' = IF Listening = {} THEN session
                ELSE [session EXCEPT !.known = TRUE,
                        !.events = @ + Cardinality(Listening)]

\* Sessions in the list can be selected, and the selected one toggled.
ToggleOffered == dashHere /\ session.known

\* The number of the next request: the first that is free.
NextToggle ==
  LET free == {n \in 1 .. MaxToggles : \A r \in requests \cup abandoned : r.id # n}
  IN  {n \in free : \A k \in free : n <= k}

HandleFreezeToggleEarly ==
  /\ ToggleOffered /\ Cardinality(requests) < MaxToggles
  /\ \E n \in NextToggle :
       requests' = requests \cup
         {[id |-> n, value |-> ~session.is_frozen, done |-> FALSE, visit |-> dashVisit]}
  /\ session' = [session EXCEPT !.is_frozen = ~@]
  /\ doubt' = (doubt \/ \E r \in requests : r.value = session.is_frozen)
  /\ UNCHANGED <<dash, dashVisit, dashHere, status, published, frozen, abandoned, apart>>

\* handleFreezeToggle sends the opposite of what the page shows.
HandleFreezeToggle ==
  /\ ToggleOffered /\ Cardinality(requests) < MaxToggles
  /\ \E n \in NextToggle :
       requests' = requests \cup
         {[id |-> n, value |-> ~session.is_frozen, done |-> FALSE, visit |-> dashVisit]}
  /\ doubt' = (doubt \/ \E r \in requests : r.value = session.is_frozen)
  /\ UNCHANGED <<dash, dashVisit, dashHere, status, session, published,
                 frozen, abandoned, apart>>

\* The gateway handles a request, in any order.
GatewayFreezes(r) ==
  /\ r \in requests /\ ~r.done
  /\ frozen' = r.value
  /\ apart' = FALSE
  /\ requests' = (requests \ {r}) \cup {[r EXCEPT !.done = TRUE]}
  /\ UNCHANGED <<dash, dashVisit, dashHere, status, session, published, abandoned, doubt>>

\* The flag changes without an answer to this page.
ChangedElsewhere(flag) ==
  /\ frozen' = flag
  /\ apart' = (apart \/ flag # frozen)
  /\ UNCHANGED <<dash, dashVisit, dashHere, status, session, requests, published, doubt>>

\* The flag is kept for twelve hours.
FreezeExpires == frozen /\ ChangedElsewhere(FALSE) /\ UNCHANGED abandoned

\* The dashboard of another teacher, once it has seen a prompt of the session,
\* freezes or unfreezes the student.
OtherDashboard == published > 0 /\ ChangedElsewhere(~frozen) /\ UNCHANGED abandoned

\* The gateway carries out a request that the page has given up.
FreezesLate(r) ==
  r \in abandoned /\ ChangedElsewhere(r.value) /\ abandoned' = abandoned \ {r}

\* The answer arrives: the page takes over what it asked for.
FreezeAnswered(r) ==
  /\ r \in requests /\ r.done
  /\ requests' = requests \ {r}
  /\ session' = IF DashOnScreen(r.visit) /\ session.known
                THEN [session EXCEPT !.is_frozen = r.value] ELSE session
  /\ UNCHANGED <<dash, dashVisit, dashHere, status, published, flagVars>>

\* The request fails or is given up after two minutes: the gateway has handled
\* it, will not handle it any more, or is still to do so.
FreezeFails(r) ==
  /\ r \in requests
  /\ requests' = requests \ {r}
  /\ apart' = (apart \/ r.done)
  /\ abandoned' \in IF r.done THEN {abandoned} ELSE {abandoned, abandoned \cup {r}}
  /\ UNCHANGED <<dash, dashVisit, dashHere, status, session, frozen, published, doubt>>

-----------------------------------------------------------------------------
Requests ==
  [id : 1 .. MaxToggles, value : BOOLEAN, done : BOOLEAN, visit : DashVisits]

DashTypeOK ==
  /\ dashVisit \in 0 .. MaxDashVisits /\ dashHere \in BOOLEAN
  /\ status \in {"disconnected", "connecting", "connected"}
  /\ requests \subseteq Requests /\ abandoned \subseteq Requests /\ frozen \in BOOLEAN
  /\ session.known \in BOOLEAN /\ session.is_frozen \in BOOLEAN
  /\ \A v \in DashVisits :
       /\ dash[v].ref \in 0 .. Len(dash[v].socks)
       /\ dash[v].attempts \in 0 .. DashReconnects

\* The dashboard counts every prompt at most once, however its timer, its
\* button and its close events interleave: two open sockets of one page would
\* log each message and each warning twice.
EventsOnce == session.events <= published

\* A session shown as frozen, with no request under way, is frozen at the
\* gateway, unless opposite requests overlapped or, since the gateway last
\* carried out a request of this page, the flag ran out after its twelve hours,
\* another dashboard changed it, a request given up by the page was carried out,
\* or the answer to that last request was lost.  The page is told of none of
\* these; a request that simply fails never leads it astray.
FreezeHonest ==
  session.is_frozen /\ requests = {} => frozen \/ doubt \/ apart

=============================================================================
