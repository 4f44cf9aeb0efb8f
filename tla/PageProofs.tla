----------------------------- MODULE PageProofs -----------------------------
(***************************************************************************)
(* Pages of the web interface that keep talking to the gateway while they  *)
(* are open.                                                               *)
(*                                                                         *)
(* The chat pages' socket, for any number of visits, reconnects and lost   *)
(* timers: what "connected" on the screen means, that a page that is gone  *)
(* stays silent, and who drops an open socket.  The freeze switch of the   *)
(* dashboard and its socket, for any number of visits, requests under way  *)
(* and reconnections.                                                      *)
(*                                                                         *)
(* The super administrator's console, for any number of institutions,      *)
(* plugins and roles and of calls and loads under way: that a quiet page   *)
(* shows what the gateway holds, what a switch does, and that a role is    *)
(* created whole.                                                          *)
(***************************************************************************)
EXTENDS LiveLessons, SuperConsole, FiniteSetTheorems, SequenceTheorems, TLAPS

Service ==
  [sock : {"none", "connecting", "open", "closing"}, asked : {"no", "sent", "passed"},
   timer : BOOLEAN, orphans : Nat, attempts : Nat, explicit : BOOLEAN,
   state : States, stranded : BOOLEAN]

Shape ==
  /\ visit \in 0 .. MaxVisits /\ here \in BOOLEAN
  /\ here => visit \in Visits
  /\ svc \in [Visits -> Service]

\* The page shows the state of its own service.
ScreenFollows == here => shown = svc[visit].state

\* A service that says it is connected has a socket, and a timer next to a
\* socket, or one it has lost track of, is the work of Retry.
Sound(s) ==
  /\ s.state = "connected" => s.sock \in {"open", "closing"}
  /\ (s.timer /\ s.sock # "none") \/ s.orphans > 0 => s.stranded

TutorInv ==
  /\ Shape /\ ScreenFollows
  /\ \A v \in Visits : Sound(svc[v])
  /\ SilentAfterLeave

\* What a report may say of a service that is no longer on the screen.
Quiet(v, s) == ~OnScreen(v) /\ (s.sock # "none" \/ s.timer) => s.stranded

LEMMA InitTutor == TutorInit => TutorInv
<1> SUFFICES ASSUME TutorInit PROVE TutorInv
  OBVIOUS
<1>1. NewService \in Service
  BY DEF NewService, Service, States
<1>2. Sound(NewService) /\ NewService.sock = "none" /\ ~NewService.timer
  BY DEF NewService, Sound
<1>3. \A v \in Visits : svc[v] = NewService
  BY DEF TutorInit
<1>4. visit \in 0 .. MaxVisits /\ here = FALSE
  <2>1. visit = 0 /\ here = FALSE
    BY DEF TutorInit
  <2> QED
    BY <2>1, TutorAssumption
<1>5. \A v \in Visits : Sound(svc[v])
  BY <1>2, <1>3
<1>6. SilentAfterLeave
  BY <1>2, <1>3 DEF SilentAfterLeave
<1>7. svc \in [Visits -> Service]
  BY <1>1 DEF TutorInit
<1> QED
  BY <1>4, <1>5, <1>6, <1>7 DEF TutorInv, Shape, ScreenFollows

\* A service stays a service when it connects or disconnects.
LEMMA DisconnectedService ==
  ASSUME NEW s \in Service
  PROVE  /\ Disconnected(s) \in Service
         /\ Disconnected(s).sock = "none" /\ ~Disconnected(s).timer
         /\ Disconnected(s).state = "disconnected"
         /\ Disconnected(s).orphans = s.orphans /\ Disconnected(s).stranded = s.stranded
BY DEF Disconnected, Service, States

LEMMA ConnectedService ==
  ASSUME NEW s \in Service
  PROVE  /\ Connected(s) \in Service
         /\ Connected(s).sock = "connecting"
         /\ Connected(s).state \in {"connecting", "reconnecting"}
         /\ Connected(s).orphans = s.orphans /\ Connected(s).stranded = s.stranded
         /\ Connected(s).timer => s.timer /\ s.sock = "none"
BY DEF Connected, Disconnected, Service, States

\* Every report of a sound service preserves the invariant.
LEMMA ReportKeeps ==
  ASSUME TutorInv, NEW v \in Visits, NEW s \in Service, NEW e,
         Report(v, s, e), UNCHANGED <<page, visit, here>>,
         Sound(s), Quiet(v, s)
  PROVE  TutorInv'
<1>1. svc' \in [Visits -> Service] /\ svc'[v] = s
      /\ \A w \in Visits : w # v => svc'[w] = svc[w]
  BY DEF TutorInv, Shape, Report
<1>2. Shape'
  BY <1>1 DEF TutorInv, Shape
<1>3. ScreenFollows'
  BY <1>1 DEF TutorInv, Shape, ScreenFollows, Report, OnScreen
<1>4. \A w \in Visits : Sound(svc'[w])
  BY <1>1 DEF TutorInv
<1>5. SilentAfterLeave'
  BY <1>1 DEF TutorInv, SilentAfterLeave, Quiet, OnScreen
<1> QED
  BY <1>2, <1>3, <1>4, <1>5 DEF TutorInv, Sound

\* Entering and leaving.
LEMMA EnterKeeps == TutorInv /\ Enter => TutorInv'
<1> SUFFICES ASSUME TutorInv, Enter PROVE TutorInv'
  OBVIOUS
<1> DEFINE s == Connected(NewService)
<1>1. NewService \in Service /\ ~NewService.timer /\ NewService.orphans = 0
      /\ NewService.attempts = 0 /\ NewService.sock = "none"
  BY DEF NewService, Service, States
<1>2. s \in Service /\ s.sock = "connecting" /\ s.orphans = 0 /\ ~s.timer
  BY <1>1, ConnectedService
<1>3. s.state = "connecting"
  BY <1>1 DEF Connected, NewService
<1>4. visit + 1 \in Visits /\ visit' = visit + 1 /\ here'
  BY TutorAssumption DEF TutorInv, Shape, Enter, Visits
<1>5. svc' = [svc EXCEPT ![visit + 1] = s]
  BY DEF Enter
<1> HIDE DEF s
<1>6. svc' \in [Visits -> Service] /\ svc'[visit + 1] = s
      /\ \A w \in Visits : w # visit + 1 => svc'[w] = svc[w]
  BY <1>2, <1>4, <1>5 DEF TutorInv, Shape
<1>7. Shape'
  BY <1>4, <1>6, TutorAssumption DEF Shape, Visits
<1>8. ScreenFollows'
  BY <1>3, <1>4, <1>6 DEF ScreenFollows, Enter
<1>9. \A w \in Visits : Sound(svc'[w])
  BY <1>2, <1>3, <1>6 DEF TutorInv, Sound
<1>10. SilentAfterLeave'
  BY <1>4, <1>6 DEF TutorInv, SilentAfterLeave, OnScreen, Enter
<1> QED
  BY <1>7, <1>8, <1>9, <1>10 DEF TutorInv, Sound

LEMMA LeaveKeeps == TutorInv /\ Leave => TutorInv'
<1> SUFFICES ASSUME TutorInv, Leave PROVE TutorInv'
  OBVIOUS
<1> DEFINE s == Disconnected(svc[visit])
<1>1. visit \in Visits /\ svc[visit] \in Service /\ ~here' /\ visit' = visit
  BY DEF TutorInv, Shape, Leave
<1>2. s \in Service /\ s.sock = "none" /\ ~s.timer /\ s.state = "disconnected"
      /\ s.orphans = svc[visit].orphans /\ s.stranded = svc[visit].stranded
  BY <1>1, DisconnectedService
<1>3. svc' = [svc EXCEPT ![visit] = s]
  BY DEF Leave
<1> HIDE DEF s
<1>4. svc' \in [Visits -> Service] /\ svc'[visit] = s
      /\ \A w \in Visits : w # visit => svc'[w] = svc[w]
  BY <1>1, <1>2, <1>3 DEF TutorInv, Shape
<1>5. Shape' /\ ScreenFollows'
  BY <1>1, <1>4 DEF TutorInv, Shape, ScreenFollows, Leave
<1>6. \A w \in Visits : Sound(svc'[w])
  BY <1>1, <1>2, <1>4 DEF TutorInv, Sound
<1>7. SilentAfterLeave'
  BY <1>1, <1>2, <1>4 DEF TutorInv, SilentAfterLeave, OnScreen
<1> QED
  BY <1>5, <1>6, <1>7 DEF TutorInv, Sound

\* The button, the handlers of the page and the frames of the gateway.
LEMMA PageKeeps ==
  ASSUME TutorInv, Retry \/ HandleSend \/ HandleSendOffline
  PROVE  TutorInv'
<1>1. CASE Retry
  <2> DEFINE c == Connected(svc[visit])
             s == [c EXCEPT !.stranded =
                     @ \/ (svc[visit].timer /\ svc[visit].sock = "none")]
  <2>1. visit \in Visits /\ svc[visit] \in Service /\ here
    BY <1>1 DEF TutorInv, Shape, Retry, RetryOffered
  <2>2. /\ c \in Service /\ c.sock = "connecting"
        /\ c.state \in {"connecting", "reconnecting"}
        /\ c.orphans = svc[visit].orphans /\ c.stranded = svc[visit].stranded
        /\ c.timer => svc[visit].timer /\ svc[visit].sock = "none"
    BY <2>1, ConnectedService
  <2>3. Report(visit, s, error) /\ UNCHANGED <<page, visit, here>>
    BY <1>1 DEF Retry
  <2>4. Sound(svc[visit])
    BY <2>1 DEF TutorInv
  <2>5. svc[visit].timer \in BOOLEAN /\ svc[visit].stranded \in BOOLEAN
    BY <2>1 DEF Service
  <2> HIDE DEF c
  <2>6. /\ s \in Service /\ s.sock = "connecting" /\ s.state = c.state
        /\ s.orphans = c.orphans /\ s.timer = c.timer
        /\ s.stranded = (c.stranded \/ (svc[visit].timer /\ svc[visit].sock = "none"))
    BY <2>2, <2>5 DEF Service
  <2> HIDE DEF s
  <2>7. Sound(s) /\ Quiet(visit, s)
    BY <2>1, <2>2, <2>4, <2>6 DEF Sound, Quiet, OnScreen
  <2> QED
    BY <2>1, <2>3, <2>6, <2>7, ReportKeeps
<1>2. CASE HandleSend
  <2>1. visit \in Visits /\ svc[visit] \in Service /\ here
    BY <1>2 DEF TutorInv, Shape, HandleSend, SendOffered
  <2>2. Sound(svc[visit]) /\ Quiet(visit, svc[visit])
    BY <2>1 DEF TutorInv, Quiet, OnScreen
  <2>3. CASE svc[visit].sock = "open"
    <3> DEFINE s == [svc[visit] EXCEPT !.asked = "sent"]
    <3>1. /\ s \in Service /\ s.sock = "open" /\ s.timer = svc[visit].timer
          /\ s.orphans = svc[visit].orphans /\ s.stranded = svc[visit].stranded
          /\ s.state = svc[visit].state
      BY <2>1, <2>3 DEF Service
    <3>2. Report(visit, s, error) /\ UNCHANGED <<page, visit, here>>
      BY <1>2, <2>3 DEF HandleSend
    <3> HIDE DEF s
    <3>3. Sound(s) /\ Quiet(visit, s)
      BY <2>1, <2>2, <2>3, <3>1 DEF Sound, Quiet, OnScreen
    <3> QED
      BY <2>1, <3>1, <3>2, <3>3, ReportKeeps
  <2>4. CASE svc[visit].sock # "open"
    <3>1. Report(visit, svc[visit], TRUE) /\ UNCHANGED <<page, visit, here>>
      BY <1>2, <2>4 DEF HandleSend
    <3> QED
      BY <2>1, <2>2, <3>1, ReportKeeps
  <2> QED
    BY <2>3, <2>4
<1>3. CASE HandleSendOffline
  BY <1>3 DEF HandleSendOffline, TutorInv, Shape, ScreenFollows, SilentAfterLeave, OnScreen,
              Sound
<1> QED
  BY <1>1, <1>2, <1>3

\* A frame of the gateway changes nothing but what the student waits for.
LEMMA FrameKeeps ==
  ASSUME TutorInv, NEW v \in Visits, NEW e, NEW a \in {"no", "sent", "passed"},
         Report(v, [svc[v] EXCEPT !.asked = a], e), UNCHANGED <<page, visit, here>>
  PROVE  TutorInv'
<1> DEFINE s == [svc[v] EXCEPT !.asked = a]
<1>1. svc[v] \in Service
  BY DEF TutorInv, Shape
<1>2. /\ s \in Service /\ s.sock = svc[v].sock /\ s.timer = svc[v].timer
      /\ s.orphans = svc[v].orphans /\ s.stranded = svc[v].stranded
      /\ s.state = svc[v].state
  BY <1>1 DEF Service
<1>3. Report(v, s, e)
  OBVIOUS
<1> HIDE DEF s
<1>4. Sound(s) /\ Quiet(v, s)
  BY <1>2 DEF TutorInv, Sound, Quiet, SilentAfterLeave
<1> QED
  BY <1>2, <1>3, <1>4, ReportKeeps

\* The events of a socket.
LEMMA SocketKeeps ==
  ASSUME TutorInv, NEW v \in Visits, OnOpen(v) \/ OnClose(v)
  PROVE  TutorInv'
<1>1. svc[v] \in Service /\ Sound(svc[v]) /\ Quiet(v, svc[v])
  BY DEF TutorInv, Shape, SilentAfterLeave, Quiet
<1>2. svc[v].orphans \in Nat /\ svc[v].attempts \in Nat /\ MaxReconnects \in Nat
  BY <1>1, TutorAssumption DEF Service
<1>3. CASE OnOpen(v)
  <2> DEFINE s == [svc[v] EXCEPT !.sock = "open", !.attempts = 0, !.state = "connected"]
  <2>1. /\ s \in Service /\ s.sock = "open" /\ s.timer = svc[v].timer
        /\ s.orphans = svc[v].orphans /\ s.stranded = svc[v].stranded
    BY <1>1 DEF Service, States
  <2>2. Report(v, s, page = "tutor" /\ error) /\ UNCHANGED <<page, visit, here>>
        /\ svc[v].sock = "connecting"
    BY <1>3 DEF OnOpen
  <2> HIDE DEF s
  <2>3. Sound(s) /\ Quiet(v, s)
    BY <1>1, <2>1, <2>2 DEF Sound, Quiet
  <2> QED
    BY <2>1, <2>2, <2>3, ReportKeeps
<1>4. CASE OnClose(v)
  <2> DEFINE s == [svc[v] EXCEPT !.sock = "none", !.asked = "no"]
             gone == [s EXCEPT !.state = "disconnected"]
             again == [s EXCEPT !.attempts = @ + 1, !.state = "reconnecting",
                         !.orphans = IF s.timer THEN @ + 1 ELSE @, !.timer = TRUE]
  <2>1. /\ s \in Service /\ s.sock = "none" /\ s.timer = svc[v].timer
        /\ s.orphans = svc[v].orphans /\ s.stranded = svc[v].stranded
    BY <1>1 DEF Service
  <2>2. /\ svc[v].sock # "none" /\ UNCHANGED <<page, visit, here>>
        /\ \/ Report(v, gone, error) \/ Report(v, gone, TRUE)
           \/ Report(v, again, TRUE) /\ ~s.explicit
    BY <1>4 DEF OnClose
  <2> HIDE DEF s
  <2>3. CASE Report(v, gone, error) \/ Report(v, gone, TRUE)
    <3>1. /\ gone \in Service /\ gone.sock = "none" /\ gone.timer = svc[v].timer
          /\ gone.orphans = svc[v].orphans /\ gone.stranded = svc[v].stranded
          /\ gone.state = "disconnected"
      BY <2>1 DEF Service, States
    <3> HIDE DEF gone
    <3>2. Sound(gone) /\ Quiet(v, gone)
      BY <1>1, <2>2, <3>1 DEF Sound, Quiet
    <3> QED
      BY <2>2, <2>3, <3>1, <3>2, ReportKeeps
  <2>4. CASE Report(v, again, TRUE)
    <3>1. /\ again \in Service /\ again.sock = "none" /\ again.state = "reconnecting"
          /\ again.stranded = svc[v].stranded
          /\ again.orphans = IF svc[v].timer THEN svc[v].orphans + 1 ELSE svc[v].orphans
      <4> DEFINE o == IF s.timer THEN s.orphans + 1 ELSE s.orphans
      <4>1. o \in Nat /\ s.attempts + 1 \in Nat
        BY <2>1 DEF Service
      <4>2. again = [s EXCEPT !.attempts = s.attempts + 1, !.state = "reconnecting",
                              !.orphans = o, !.timer = TRUE]
        BY <2>1 DEF Service
      <4> HIDE DEF again, o
      <4>3. /\ again \in Service /\ again.sock = "none" /\ again.state = "reconnecting"
            /\ again.stranded = svc[v].stranded /\ again.orphans = o
        BY <2>1, <4>1, <4>2 DEF Service, States
      <4> QED
        BY <2>1, <4>3 DEF o
    <3> HIDE DEF again
    <3>2. Sound(again) /\ Quiet(v, again)
      BY <1>1, <1>2, <2>2, <3>1 DEF Sound, Quiet
    <3> QED
      BY <2>2, <2>4, <3>1, <3>2, ReportKeeps
  <2> QED
    BY <2>2, <2>3, <2>4
<1> QED
  BY <1>3, <1>4

\* A reconnect timer fires.
LEMMA TimerKeeps ==
  ASSUME TutorInv, NEW v \in Visits, ReconnectTimer(v)
  PROVE  TutorInv'
<1> DEFINE Fired(t) == Report(v, Connected(t), error)
           a == [svc[v] EXCEPT !.timer = FALSE]
           b == [svc[v] EXCEPT !.orphans = @ - 1]
<1>1. svc[v] \in Service /\ Sound(svc[v]) /\ Quiet(v, svc[v])
  BY DEF TutorInv, Shape, SilentAfterLeave, Quiet
<1>2. svc[v].orphans \in Nat
  BY <1>1 DEF Service
<1>3. /\ UNCHANGED <<page, visit, here>>
      /\ \/ svc[v].timer /\ Fired(a)
         \/ svc[v].orphans > 0 /\ Fired(b)
  BY Zenon DEF ReconnectTimer
<1>4. CASE svc[v].timer /\ Fired(a)
  <2>1. /\ a \in Service /\ ~a.timer /\ a.orphans = svc[v].orphans
        /\ a.stranded = svc[v].stranded /\ a.sock = svc[v].sock
    BY <1>1 DEF Service
  <2> HIDE DEF a
  <2>2. /\ Connected(a) \in Service /\ Connected(a).sock = "connecting"
        /\ Connected(a).state \in {"connecting", "reconnecting"}
        /\ Connected(a).orphans = svc[v].orphans /\ Connected(a).stranded = svc[v].stranded
        /\ ~Connected(a).timer
    BY <2>1, ConnectedService
  <2>3. Sound(Connected(a)) /\ Quiet(v, Connected(a))
    BY <1>1, <1>4, <2>2 DEF Sound, Quiet
  <2> QED
    BY <1>3, <1>4, <2>2, <2>3, ReportKeeps
<1>5. CASE svc[v].orphans > 0 /\ Fired(b)
  <2>1. /\ b \in Service /\ b.stranded = svc[v].stranded
    BY <1>1, <1>2, <1>5 DEF Service
  <2>2. svc[v].stranded
    BY <1>1, <1>5 DEF Sound
  <2> HIDE DEF b
  <2>3. /\ Connected(b) \in Service /\ Connected(b).state \in {"connecting", "reconnecting"}
        /\ Connected(b).stranded
    BY <2>1, <2>2, ConnectedService
  <2>4. Sound(Connected(b)) /\ Quiet(v, Connected(b))
    BY <2>3 DEF Sound, Quiet
  <2> QED
    BY <1>3, <1>5, <2>3, <2>4, ReportKeeps
<1> QED
  BY <1>3, <1>4, <1>5

\* The gateway lets a prompt through, or the connection breaks: nobody is told.
LEMMA UnseenKeeps ==
  ASSUME TutorInv, NEW v \in Visits, PassPrompt(v) \/ Break(v)
  PROVE  TutorInv'
<1>1. svc[v] \in Service /\ svc[v].sock = "open" /\ UNCHANGED <<visit, here, shown>>
  BY DEF TutorInv, Shape, PassPrompt, Break
<1>2. /\ svc' \in [Visits -> Service]
      /\ \A w \in Visits : w # v => svc'[w] = svc[w]
      /\ svc'[v].sock \in {"open", "closing"} /\ svc'[v].timer = svc[v].timer
      /\ svc'[v].orphans = svc[v].orphans /\ svc'[v].stranded = svc[v].stranded
      /\ svc'[v].state = svc[v].state
  <2>1. CASE PassPrompt(v)
    BY <1>1, <2>1 DEF TutorInv, Shape, PassPrompt, Service
  <2>2. CASE Break(v)
    BY <1>1, <2>2 DEF TutorInv, Shape, Break, Service
  <2> QED
    BY <2>1, <2>2
<1>3. Shape' /\ ScreenFollows'
  BY <1>1, <1>2 DEF TutorInv, Shape, ScreenFollows
<1>4. \A w \in Visits : Sound(svc'[w])
  BY <1>1, <1>2 DEF TutorInv, Sound
<1>5. SilentAfterLeave'
  BY <1>1, <1>2 DEF TutorInv, SilentAfterLeave, OnScreen
<1> QED
  BY <1>3, <1>4, <1>5 DEF TutorInv, Sound

\* Every step of the composed system preserves the invariant.
LEMMA NextTutor == TutorInv /\ [LiveNext]_liveVars => TutorInv'
<1> SUFFICES ASSUME TutorInv, [LiveNext]_liveVars PROVE TutorInv'
  OBVIOUS
<1>1. CASE UNCHANGED tutorVars
  BY <1>1 DEF tutorVars, TutorInv, Shape, ScreenFollows, SilentAfterLeave, OnScreen, Sound
<1>2. CASE TutorAlone
  <2>1. ASSUME NEW v \in Visits, Break(v) \/ SocketEvent(v) \/ ReconnectTimer(v)
        PROVE  TutorInv'
    BY <2>1, SocketKeeps, TimerKeeps, UnseenKeeps DEF SocketEvent
  <2> QED
    BY <1>2, <2>1, EnterKeeps, LeaveKeeps, PageKeeps DEF TutorAlone
<1>3. ASSUME NEW v \in Visits,
             PassPrompt(v) \/ Refuse(v) \/ Answer(v) \/ Flagged(v) \/ AIFails(v)
      PROVE  TutorInv'
  <2>1. CASE PassPrompt(v)
    BY <2>1, UnseenKeeps
  <2>2. CASE Refuse(v) \/ Flagged(v) \/ AIFails(v)
    <3>1. Report(v, [svc[v] EXCEPT !.asked = "no"], TRUE) /\ UNCHANGED <<page, visit, here>>
      BY <2>2 DEF Refuse, Flagged, AIFails, ErrorFrame
    <3> QED
      BY <3>1, FrameKeeps
  <2>3. CASE Answer(v)
    <3>1. Report(v, [svc[v] EXCEPT !.asked = "no"], page = "hub" /\ error)
          /\ UNCHANGED <<page, visit, here>>
      BY <2>3 DEF Answer, HandleIncomingToken
    <3> QED
      BY <3>1, FrameKeeps
  <2> QED
    BY <1>3, <2>1, <2>2, <2>3
<1> QED
  BY <1>1, <1>2, <1>3 DEF LiveNext, DashAlone, liveVars, tutorVars

LEMMA TutorInvariant == LiveSpec => []TutorInv
<1>1. LiveInit => TutorInv
  BY InitTutor DEF LiveInit
<1> QED
  BY <1>1, NextTutor, PTL DEF LiveSpec

\* For any number of visits and reconnects, a chat page that says "connected"
\* has a socket that was open and whose close event has not come.
THEOREM ConnectedIsShownTruly == LiveSpec => []ShownConnected
<1>1. TutorInv => ShownConnected
  BY DEF TutorInv, Shape, ScreenFollows, Sound, ShownConnected
<1> QED
  BY <1>1, TutorInvariant, PTL

\* A chat page that is gone opens no socket and waits for no timer, unless Retry
\* was pressed while a reconnect was pending.
THEOREM LeftPagesAreSilent == LiveSpec => []SilentAfterLeave
<1>1. TutorInv => SilentAfterLeave
  BY DEF TutorInv
<1> QED
  BY <1>1, TutorInvariant, PTL

\* While its page is shown, an open socket is given up by the client only for
\* Retry, or when a timer that Retry left behind fires.
THEOREM OpenSocketsAreKept == LiveSpec => LiveKept
<1> DEFINE Kept(v) ==
      OnScreen(v) /\ svc[v].sock = "open" /\ here' /\ svc'[v].sock = "connecting"
        => Retry \/ svc[v].stranded
<1>1. TutorInv /\ [LiveNext]_liveVars => [\A v \in Visits : Kept(v)]_tutorVars
  <2> SUFFICES ASSUME TutorInv, [LiveNext]_liveVars, NEW v \in Visits,
                      OnScreen(v), svc[v].sock = "open", here', svc'[v].sock = "connecting",
                      ~ UNCHANGED tutorVars
               PROVE  Retry \/ svc[v].stranded
    BY DEF Kept
  <2>1. svc \in [Visits -> Service] /\ here /\ v = visit /\ Sound(svc[v])
    BY DEF TutorInv, Shape, OnScreen
  <2>2. svc[v] \in Service /\ svc' # svc
    BY <2>1
  <2>3. ASSUME NEW w \in Visits, NEW s, NEW e, Report(w, s, e) PROVE w = v /\ svc'[v] = s
    BY <2>1, <2>3 DEF Report
  <2>4. CASE TutorAlone
    <3>1. ASSUME NEW w \in Visits, OnOpen(w) \/ OnClose(w) PROVE FALSE
      <4>1. w # v
        BY <3>1 DEF OnOpen, OnClose
      <4> QED
        BY <2>1, <3>1, <4>1 DEF OnOpen, OnClose, Report
    <3>2. ASSUME NEW w \in Visits, Break(w) PROVE FALSE
      BY <2>1, <2>2, <3>2 DEF Break, Service
    <3>3. ASSUME NEW w \in Visits, ReconnectTimer(w) PROVE svc[v].stranded
      <4>1. w = v
        BY <2>1, <3>3 DEF ReconnectTimer, Report
      <4>2. svc[v].timer \/ svc[v].orphans > 0
        BY <3>3, <4>1 DEF ReconnectTimer
      <4> QED
        BY <2>1, <4>2 DEF Sound
    <3>4. CASE HandleSend
      <4>1. svc'[v] = svc[v] \/ svc'[v] = [svc[v] EXCEPT !.asked = "sent"]
        BY <2>1, <2>3, <3>4 DEF HandleSend
      <4> QED
        BY <2>2, <4>1 DEF Service
    <3>5. CASE HandleSendOffline \/ Enter \/ Leave
      BY <2>1, <2>2, <3>5 DEF HandleSendOffline, Enter, Leave
    <3> QED
      BY <2>4, <3>1, <3>2, <3>3, <3>4, <3>5 DEF TutorAlone, SocketEvent
  <2>5. ASSUME NEW w \in Visits,
               PassPrompt(w) \/ Refuse(w) \/ Answer(w) \/ Flagged(w) \/ AIFails(w)
        PROVE  FALSE
    <3>1. CASE PassPrompt(w)
      BY <2>1, <2>2, <3>1 DEF PassPrompt, Service
    <3>2. CASE ErrorFrame(w) \/ HandleIncomingToken(w)
      <4>1. svc'[v] = [svc[v] EXCEPT !.asked = "no"]
        BY <2>1, <2>3, <3>2 DEF ErrorFrame, HandleIncomingToken
      <4> QED
        BY <2>2, <4>1 DEF Service
    <3> QED
      BY <2>5, <3>1, <3>2 DEF Refuse, Answer, Flagged, AIFails
  <2> QED
    BY <2>4, <2>5 DEF LiveNext, DashAlone, liveVars, tutorVars
<1> QED
  BY <1>1, TutorInvariant, PTL DEF LiveSpec, LiveKept

-----------------------------------------------------------------------------
(* The freeze switch. *)

FreezeShape ==
  /\ session = [known |-> session.known, events |-> session.events,
                is_frozen |-> session.is_frozen]
  /\ session.known \in BOOLEAN /\ session.is_frozen \in BOOLEAN
  /\ frozen \in BOOLEAN /\ doubt \in BOOLEAN /\ apart \in BOOLEAN
  /\ requests \subseteq [id : Nat, value : BOOLEAN, done : BOOLEAN, visit : Nat]
  /\ abandoned \subseteq [id : Nat, value : BOOLEAN, done : BOOLEAN, visit : Nat]
  /\ dashVisit \in Nat
  /\ session.is_frozen => dashHere /\ session.known

\* Without doubt, all requests under way want the same; unless the flag was
\* changed behind the page's back, it is what the carried out ones asked for,
\* and a session that is shown as frozen and no longer is will be corrected by
\* an answer to this very visit.
Agreed ==
  /\ \A r, q \in requests : r.value = q.value
  /\ \A r \in requests : r.done => apart \/ frozen = r.value
  /\ session.is_frozen => \A r \in requests : ~r.value => r.visit = dashVisit
  /\ session.is_frozen /\ ~frozen => apart \/ \E r \in requests : r.done /\ ~r.value

FreezeInv == FreezeShape /\ (~doubt => Agreed)

\* A dashboard without a session to show has nothing to keep but its types.
LEMMA EmptyPage ==
  ASSUME session = NoSession
  PROVE  /\ session = [known |-> session.known, events |-> session.events,
                       is_frozen |-> session.is_frozen]
         /\ session.known = FALSE /\ session.is_frozen = FALSE
BY DEF NoSession

LEMMA InitFreeze == DashInit => FreezeInv
<1> SUFFICES ASSUME DashInit PROVE FreezeInv
  OBVIOUS
<1>1. /\ session = NoSession /\ requests = {} /\ frozen = FALSE /\ doubt = FALSE
      /\ abandoned = {} /\ apart = FALSE /\ dashVisit = 0
  BY DEF DashInit
<1>2. FreezeShape
  BY <1>1, EmptyPage DEF FreezeShape
<1>3. Agreed
  BY <1>1, EmptyPage DEF Agreed
<1> QED
  BY <1>2, <1>3 DEF FreezeInv

LEMMA ToggleKeeps == FreezeInv /\ HandleFreezeToggle => FreezeInv'
<1> SUFFICES ASSUME FreezeInv, HandleFreezeToggle PROVE FreezeInv'
  OBVIOUS
<1> USE DEF FreezeInv
<1>1. PICK n \in 1 .. MaxToggles :
        requests' = requests \cup {[id |-> n, value |-> ~session.is_frozen,
                                    done |-> FALSE, visit |-> dashVisit]}
  BY DEF HandleFreezeToggle, NextToggle
<1> DEFINE new == [id |-> n, value |-> ~session.is_frozen, done |-> FALSE,
                   visit |-> dashVisit]
<1>2. new \in [id : Nat, value : BOOLEAN, done : BOOLEAN, visit : Nat]
      /\ new.value = ~session.is_frozen /\ ~new.done /\ new.visit = dashVisit
  BY DashAssumption DEF FreezeShape
<1>3. requests' = requests \cup {new}
  BY <1>1
<1> HIDE DEF new
<1>4. /\ UNCHANGED <<dashVisit, dashHere, session, frozen, abandoned, apart>>
      /\ doubt' = (doubt \/ \E r \in requests : r.value = session.is_frozen)
  BY DEF HandleFreezeToggle
<1>5. FreezeShape'
  BY <1>2, <1>3, <1>4 DEF FreezeShape
<1>6. ASSUME ~doubt' PROVE Agreed'
  <2>1. ~doubt /\ Agreed /\ \A r \in requests : r.value # session.is_frozen
    BY <1>4, <1>6
  <2>2. \A r \in requests : r.value = ~session.is_frozen
    BY <2>1 DEF FreezeShape
  <2> QED
    BY <1>2, <1>3, <1>4, <2>1, <2>2 DEF Agreed
<1> QED
  BY <1>5, <1>6

LEMMA CarriedOutKeeps ==
  ASSUME FreezeInv, NEW r \in requests, GatewayFreezes(r)
  PROVE  FreezeInv'
<1> USE DEF FreezeInv
<1> DEFINE d == [r EXCEPT !.done = TRUE]
<1>1. r \in [id : Nat, value : BOOLEAN, done : BOOLEAN, visit : Nat]
  BY DEF FreezeShape
<1>2. d \in [id : Nat, value : BOOLEAN, done : BOOLEAN, visit : Nat]
      /\ d.done /\ d.value = r.value /\ d.visit = r.visit
  BY <1>1
<1>3. /\ UNCHANGED <<dashVisit, dashHere, session, abandoned, doubt>>
      /\ frozen' = r.value /\ apart' = FALSE
      /\ requests' = (requests \ {r}) \cup {d}
  BY DEF GatewayFreezes
<1> HIDE DEF d
<1>4. FreezeShape'
  BY <1>1, <1>2, <1>3 DEF FreezeShape
<1>5. ASSUME Agreed PROVE Agreed'
  BY <1>1, <1>2, <1>3, <1>5 DEF Agreed
<1> QED
  BY <1>3, <1>4, <1>5

LEMMA AnsweredKeeps ==
  ASSUME FreezeInv, NEW r \in requests, FreezeAnswered(r) \/ FreezeFails(r)
  PROVE  FreezeInv'
<1> USE DEF FreezeInv
<1>1. r \in [id : Nat, value : BOOLEAN, done : BOOLEAN, visit : Nat]
  BY DEF FreezeShape
<1>2. CASE FreezeFails(r)
  <2>1. /\ UNCHANGED <<dashVisit, dashHere, session, frozen, doubt>>
        /\ requests' = requests \ {r} /\ apart' = (apart \/ r.done)
        /\ abandoned' \subseteq abandoned \cup {r}
    BY <1>2 DEF FreezeFails
  <2>2. FreezeShape'
    BY <1>1, <2>1 DEF FreezeShape
  <2>3. ASSUME ~doubt' PROVE Agreed'
    BY <2>1, <2>3 DEF Agreed
  <2> QED
    BY <2>2, <2>3
<1>3. CASE FreezeAnswered(r)
  <2>1. /\ UNCHANGED <<dashVisit, dashHere, flagVars>> /\ r.done
        /\ requests' = requests \ {r}
    BY <1>3 DEF FreezeAnswered
  <2>2. CASE DashOnScreen(r.visit) /\ session.known
    <3>1. session' = [session EXCEPT !.is_frozen = r.value]
      BY <1>3, <2>2 DEF FreezeAnswered
    <3>2. /\ session'.is_frozen = r.value /\ session'.known = session.known
          /\ session' = [known |-> session'.known, events |-> session'.events,
                         is_frozen |-> session'.is_frozen]
      BY <3>1 DEF FreezeShape
    <3>3. FreezeShape'
      BY <1>1, <2>1, <2>2, <3>2 DEF FreezeShape, DashOnScreen, flagVars
    <3>4. ASSUME Agreed PROVE Agreed'
      BY <1>1, <2>1, <3>2, <3>4 DEF Agreed, flagVars
    <3> QED
      BY <2>1, <3>3, <3>4 DEF flagVars
  <2>3. CASE ~(DashOnScreen(r.visit) /\ session.known)
    <3>1. session' = session
      BY <1>3, <2>3 DEF FreezeAnswered
    <3>2. FreezeShape'
      BY <2>1, <3>1 DEF FreezeShape, flagVars
    <3>3. ASSUME Agreed PROVE Agreed'
      <4>1. session.is_frozen => r.value
        BY <1>1, <2>3, <3>3 DEF Agreed, FreezeShape, DashOnScreen
      <4> QED
        BY <1>1, <2>1, <3>1, <3>3, <4>1 DEF Agreed, flagVars
    <3> QED
      BY <2>1, <3>2, <3>3 DEF flagVars
  <2> QED
    BY <2>2, <2>3
<1> QED
  BY <1>2, <1>3

\* The flag changes without an answer to the page.
LEMMA ElsewhereKeeps ==
  ASSUME FreezeInv,
         FreezeExpires \/ OtherDashboard \/ \E r \in abandoned : FreezesLate(r)
  PROVE  FreezeInv'
<1> USE DEF FreezeInv
<1>1. PICK flag \in BOOLEAN : ChangedElsewhere(flag) /\ abandoned' \subseteq abandoned
  BY DEF FreezeExpires, OtherDashboard, FreezesLate, FreezeShape
<1>2. /\ UNCHANGED <<dashVisit, dashHere, session, requests, doubt>>
      /\ frozen' = flag /\ apart' = (apart \/ flag # frozen)
  BY <1>1 DEF ChangedElsewhere
<1>3. FreezeShape'
  BY <1>1, <1>2 DEF FreezeShape
<1>4. ASSUME Agreed PROVE Agreed'
  BY <1>2, <1>4 DEF Agreed
<1> QED
  BY <1>2, <1>3, <1>4

\* The page is mounted or left: it forgets the session.
LEMMA MountKeeps ==
  ASSUME FreezeInv, Open \/ Close
  PROVE  FreezeInv'
<1> USE DEF FreezeInv
<1>1. /\ UNCHANGED <<requests, frozen, abandoned, doubt, apart>>
      /\ session' = NoSession /\ dashVisit' \in {dashVisit, dashVisit + 1}
  BY DEF Open, Close, flagVars
<1>2. /\ session' = [known |-> session'.known, events |-> session'.events,
                     is_frozen |-> session'.is_frozen]
      /\ session'.known = FALSE /\ session'.is_frozen = FALSE
  BY <1>1 DEF NoSession
<1>3. FreezeShape'
  <2>1. dashVisit' \in Nat
    BY <1>1 DEF FreezeShape
  <2>2. /\ frozen' \in BOOLEAN /\ doubt' \in BOOLEAN /\ apart' \in BOOLEAN
        /\ requests' \subseteq [id : Nat, value : BOOLEAN, done : BOOLEAN, visit : Nat]
        /\ abandoned' \subseteq [id : Nat, value : BOOLEAN, done : BOOLEAN, visit : Nat]
    BY <1>1 DEF FreezeShape
  <2> QED
    BY <1>2, <2>1, <2>2 DEF FreezeShape
<1>4. ASSUME Agreed PROVE Agreed'
  BY <1>1, <1>2, <1>4 DEF Agreed
<1> QED
  BY <1>1, <1>3, <1>4

\* A prompt is published: the flag shown does not change.
LEMMA PublishKeeps ==
  ASSUME FreezeInv, Publish,
         UNCHANGED <<dashVisit, dashHere, requests, frozen, abandoned, doubt, apart>>
  PROVE  FreezeInv'
<1> USE DEF FreezeInv
<1>1. session'.is_frozen = session.is_frozen
      /\ (session.known => session'.known) /\ session'.known \in BOOLEAN
      /\ session' = [known |-> session'.known, events |-> session'.events,
                     is_frozen |-> session'.is_frozen]
  <2>1. CASE session' = session
    BY <2>1 DEF FreezeShape
  <2>2. CASE session' = [session EXCEPT !.known = TRUE,
                           !.events = @ + Cardinality(Listening)]
    BY <2>2 DEF FreezeShape
  <2> QED
    BY <2>1, <2>2 DEF Publish
<1>2. FreezeShape'
  BY <1>1 DEF FreezeShape
<1>3. ASSUME Agreed PROVE Agreed'
  BY <1>1, <1>3 DEF Agreed
<1> QED
  BY <1>2, <1>3

LEMMA NextFreeze == FreezeInv /\ [LiveNext]_liveVars => FreezeInv'
<1> SUFFICES ASSUME FreezeInv, [LiveNext]_liveVars PROVE FreezeInv'
  OBVIOUS
<1>1. ASSUME UNCHANGED <<session, requests, flagVars, dashVisit, dashHere>>
      PROVE  FreezeInv'
  BY <1>1 DEF FreezeInv, FreezeShape, Agreed, flagVars
<1>2. CASE TutorAlone
  BY <1>1, <1>2 DEF TutorAlone, dashVars
<1>3. CASE DashAlone
  <2>1. ASSUME NEW v \in DashVisits, NEW i \in 1 .. MaxSockets,
               DashTimer(v) \/ DashOpened(v, i) \/ DashClosed(v, i)
        PROVE  FreezeInv'
    BY <1>1, <2>1 DEF DashTimer, DashOpened, DashClosed
  <2>2. ASSUME NEW v \in DashVisits, DashTimer(v) PROVE FreezeInv'
    BY <1>1, <2>2 DEF DashTimer
  <2>3. CASE ReconnectButton
    BY <1>1, <2>3 DEF ReconnectButton
  <2>4. CASE Open \/ Close \/ HandleFreezeToggle
    BY <2>4, MountKeeps, ToggleKeeps
  <2>5. ASSUME NEW r \in requests, GatewayFreezes(r) \/ FreezeAnswered(r) \/ FreezeFails(r)
        PROVE  FreezeInv'
    BY <2>5, CarriedOutKeeps, AnsweredKeeps
  <2>6. CASE FreezeExpires \/ OtherDashboard \/ \E r \in abandoned : FreezesLate(r)
    BY <2>6, ElsewhereKeeps
  <2> QED
    BY <1>3, <2>1, <2>2, <2>3, <2>4, <2>5, <2>6 DEF DashAlone
<1>4. ASSUME NEW v \in Visits, PassPrompt(v) \/ Refuse(v) \/ AIFails(v)
      PROVE  FreezeInv'
  BY <1>1, <1>4 DEF PassPrompt, Refuse, AIFails, dashVars
<1>5. ASSUME NEW v \in Visits, Answer(v) \/ Flagged(v) PROVE FreezeInv'
  BY <1>5, PublishKeeps DEF Answer, Flagged, flagVars
<1>6. CASE UNCHANGED liveVars
  BY <1>1, <1>6 DEF liveVars, dashVars
<1> QED
  BY <1>2, <1>3, <1>4, <1>5, <1>6 DEF LiveNext

LEMMA FreezeInvariant == LiveSpec => []FreezeInv
<1>1. LiveInit => FreezeInv
  BY InitFreeze DEF LiveInit
<1> QED
  BY <1>1, NextFreeze, PTL DEF LiveSpec

\* A session that the dashboard shows as frozen, with no freeze request under
\* way, is frozen at the gateway, unless opposite requests overlapped or the flag
\* last changed without an answer to this page: by its expiry, another dashboard,
\* a request given up, or one whose answer was lost (handleFreezeToggle shows
\* what it asked for once the gateway has answered).
THEOREM FrozenIsShownTruly == LiveSpec => []FreezeHonest
<1>1. FreezeInv => FreezeHonest
  <2> SUFFICES ASSUME FreezeInv, session.is_frozen, requests = {}, ~doubt, ~apart
               PROVE  frozen
    BY DEF FreezeHonest
  <2> QED
    BY DEF FreezeInv, Agreed
<1> QED
  BY <1>1, FreezeInvariant, PTL

-----------------------------------------------------------------------------
(* The dashboard's socket. *)

Socket == [phase : {"connecting", "open", "closing", "gone"}, onclose : BOOLEAN]

Dashboard == [socks : Seq(Socket), ref : Nat, timer : BOOLEAN, attempts : Nat]

\* The only socket of a visit that is connecting or open is the one that
\* wsRef holds.
Single(d) ==
  /\ d.ref <= Len(d.socks)
  /\ \A i \in DOMAIN d.socks : d.socks[i].phase \in {"connecting", "open"} => i = d.ref

DashShape ==
  /\ dashVisit \in 0 .. MaxDashVisits /\ dashHere \in BOOLEAN
  /\ dashHere => dashVisit \in DashVisits
  /\ dash \in [DashVisits -> Dashboard]
  /\ session \in [known : BOOLEAN, events : Nat, is_frozen : BOOLEAN]
  /\ published \in Nat

StreamInv == DashShape /\ (\A v \in DashVisits : Single(dash[v])) /\ EventsOnce

\* A new socket is opened only next to sockets that are done.
LEMMA WithSocketSingle ==
  ASSUME NEW d \in Dashboard, Single(d), ~HasConnection(d)
  PROVE  WithSocket(d) \in Dashboard /\ Single(WithSocket(d))
<1> DEFINE k == [phase |-> "connecting", onclose |-> TRUE]
           e == WithSocket(d)
           n == Len(d.socks)
<1>1. d.socks \in Seq(Socket) /\ n \in Nat /\ DOMAIN d.socks = 1 .. n /\ d.ref \in Nat
  BY DEF Dashboard
<1>2. k \in Socket
  BY DEF Socket
<1>3. e.socks = Append(d.socks, k) /\ e.ref = n + 1 /\ e \in Dashboard
  <2> DEFINE q == Append(d.socks, k)
  <2>1. q \in Seq(Socket) /\ n + 1 \in Nat
    BY <1>1, <1>2
  <2>2. e = [d EXCEPT !.socks = q, !.ref = n + 1]
    BY DEF WithSocket
  <2> HIDE DEF q, e, n
  <2>3. e.socks = q /\ e.ref = n + 1 /\ e \in Dashboard
    BY <2>1, <2>2 DEF Dashboard
  <2> QED BY <2>3 DEF q
<1>4. /\ Len(e.socks) = n + 1 /\ DOMAIN e.socks = 1 .. n + 1
      /\ \A i \in 1 .. n : e.socks[i] = d.socks[i]
  BY <1>1, <1>2, <1>3
<1>5. \A i \in 1 .. n : d.socks[i].phase \notin {"connecting", "open"}
  BY <1>1 DEF Single, HasConnection
<1> HIDE DEF e, n, k
<1>6. Single(e)
  BY <1>1, <1>3, <1>4, <1>5 DEF Single
<1> QED BY <1>3, <1>6 DEF e

\* One visit's sockets change and nothing else does.
LEMMA VisitKeeps ==
  ASSUME StreamInv, NEW v \in DashVisits, NEW e \in Dashboard, Single(e),
         dash' = [dash EXCEPT ![v] = e],
         UNCHANGED <<dashVisit, dashHere, session, published>>
  PROVE  StreamInv'
<1>1. /\ dash' \in [DashVisits -> Dashboard] /\ dash'[v] = e
      /\ \A w \in DashVisits : w # v => dash'[w] = dash[w]
  BY DEF StreamInv, DashShape
<1>2. \A w \in DashVisits : Single(dash'[w])
  BY <1>1 DEF StreamInv
<1>3. DashShape' /\ EventsOnce'
  BY <1>1 DEF StreamInv, DashShape, EventsOnce
<1> QED BY <1>2, <1>3 DEF StreamInv, Single

LEMMA ConnectKeeps ==
  ASSUME StreamInv, NEW v \in DashVisits, NEW d \in Dashboard, Single(d),
         ConnectWebSocket(v, d), UNCHANGED <<dashVisit, dashHere, session, published>>
  PROVE  StreamInv'
<1>1. CASE HasConnection(d)
  BY <1>1, VisitKeeps DEF ConnectWebSocket
<1>2. CASE ~HasConnection(d)
  BY <1>2, WithSocketSingle, VisitKeeps DEF ConnectWebSocket
<1> QED BY <1>1, <1>2

\* The page is opened with a first socket, and lets its socket go when left.
LEMMA DashMountKeeps ==
  ASSUME StreamInv, Open \/ Close
  PROVE  StreamInv'
<1>0. /\ dashVisit \in 0 .. MaxDashVisits /\ dash \in [DashVisits -> Dashboard]
      /\ published \in Nat /\ \A w \in DashVisits : Single(dash[w])
  BY DEF StreamInv, DashShape
<1>1. session' = NoSession /\ published' = published
  BY DEF Open, Close
<1>2. /\ session' \in [known : BOOLEAN, events : Nat, is_frozen : BOOLEAN]
      /\ session'.events = 0
  BY <1>1 DEF NoSession
<1>3. ASSUME NEW v \in DashVisits, NEW e \in Dashboard, Single(e),
             dash' = [dash EXCEPT ![v] = e], dashVisit' = v, dashHere' \in BOOLEAN
      PROVE  StreamInv'
  <2>1. /\ dash' \in [DashVisits -> Dashboard] /\ dash'[v] = e
        /\ \A w \in DashVisits : w # v => dash'[w] = dash[w]
    BY <1>0, <1>3
  <2>2. \A w \in DashVisits : Single(dash'[w])
    BY <1>0, <1>3, <2>1
  <2>3. dashVisit' \in 0 .. MaxDashVisits
    BY <1>3, DashAssumption DEF DashVisits
  <2>4. DashShape' /\ EventsOnce'
    BY <1>0, <1>1, <1>2, <1>3, <2>1, <2>3 DEF DashShape, EventsOnce
  <2> QED BY <2>2, <2>4 DEF StreamInv, Single
<1>4. CASE Open
  <2>1. dashVisit + 1 \in DashVisits /\ dashVisit' = dashVisit + 1 /\ dashHere' = TRUE
    BY <1>0, <1>4, DashAssumption DEF Open, DashVisits
  <2>2. NewDash \in Dashboard /\ Single(NewDash) /\ ~HasConnection(NewDash)
    BY DEF NewDash, Dashboard, Single, HasConnection
  <2>3. WithSocket(NewDash) \in Dashboard /\ Single(WithSocket(NewDash))
    BY <2>2, WithSocketSingle
  <2>4. dash' = [dash EXCEPT ![dashVisit + 1] = WithSocket(NewDash)]
    BY <1>4 DEF Open
  <2>5. PICK v \in DashVisits : v = dashVisit + 1 BY <2>1
  <2> QED BY <1>3, <2>1, <2>3, <2>4, <2>5
<1>5. CASE Close
  <2> DEFINE d == dash[dashVisit]
             Released(k) ==
               IF k.phase = "connecting" THEN [phase |-> "gone", onclose |-> FALSE]
               ELSE IF k.phase = "open" THEN [k EXCEPT !.phase = "closing"] ELSE k
             socks == IF d.ref = 0 THEN d.socks
                      ELSE [d.socks EXCEPT ![d.ref] = Released(d.socks[d.ref])]
             e == [d EXCEPT !.timer = FALSE, !.ref = 0, !.socks = socks]
  <2>1. dashVisit \in DashVisits /\ dashVisit' = dashVisit /\ dashHere' = FALSE
    BY <1>5 DEF Close, StreamInv, DashShape
  <2>2. dash' = [dash EXCEPT ![dashVisit] = e]
    BY <1>5 DEF Close
  <2>3. d \in Dashboard /\ Single(d) /\ d.socks \in Seq(Socket) /\ d.ref \in Nat
    BY <1>0, <2>1 DEF Dashboard
  <2>4. \A k \in Socket : /\ Released(k) \in Socket
                          /\ Released(k).phase \notin {"connecting", "open"}
    BY DEF Socket
  <2>5. /\ socks \in Seq(Socket)
        /\ \A i \in DOMAIN socks : socks[i].phase \notin {"connecting", "open"}
    <3> HIDE DEF d, Released
    <3>1. CASE d.ref = 0
      BY <2>3, <3>1 DEF Single
    <3>2. CASE d.ref # 0
      <4>1. d.ref \in DOMAIN d.socks /\ d.socks[d.ref] \in Socket
        BY <2>3, <3>2 DEF Single
      <4> QED BY <2>3, <2>4, <3>2, <4>1 DEF Single
    <3> QED BY <3>1, <3>2
  <2> HIDE DEF socks, d
  <2>6. e \in Dashboard /\ e.socks = socks /\ e.ref = 0
    BY <2>3, <2>5 DEF Dashboard
  <2> HIDE DEF e
  <2>7. Single(e)
    BY <2>5, <2>6 DEF Single
  <2>8. PICK v \in DashVisits : v = dashVisit BY <2>1
  <2> QED BY <1>3, <2>1, <2>2, <2>6, <2>7, <2>8
<1> QED BY <1>4, <1>5

LEMMA OpenedKeeps ==
  ASSUME StreamInv, NEW v \in DashVisits, NEW i \in 1 .. MaxSockets, DashOpened(v, i)
  PROVE  StreamInv'
<1> DEFINE d == dash[v]
           socks == [d.socks EXCEPT ![i].phase = "open"]
           e == [d EXCEPT !.socks = socks, !.attempts = 0]
<1>1. d \in Dashboard /\ Single(d) /\ d.socks \in Seq(Socket)
  BY DEF StreamInv, DashShape, Dashboard
<1>2. i \in DOMAIN d.socks /\ d.socks[i].phase = "connecting" /\ d.socks[i] \in Socket
  BY <1>1 DEF DashOpened
<1>3. dash' = [dash EXCEPT ![v] = e] /\ UNCHANGED <<dashVisit, dashHere, session, published>>
  BY DEF DashOpened, StreamInv, DashShape, Dashboard
<1> HIDE DEF d
<1>4. /\ socks \in Seq(Socket) /\ DOMAIN socks = DOMAIN d.socks
      /\ Len(socks) = Len(d.socks)
      /\ \A j \in DOMAIN socks : j # i => socks[j] = d.socks[j]
  <2>1. [d.socks[i] EXCEPT !.phase = "open"] \in Socket
    BY <1>2 DEF Socket
  <2> QED BY <2>1, <1>1, <1>2
<1> HIDE DEF socks
<1>5. e \in Dashboard /\ e.socks = socks /\ e.ref = d.ref
  BY <1>1, <1>4 DEF Dashboard
<1> HIDE DEF e
<1>6. Single(e)
  BY <1>1, <1>2, <1>4, <1>5 DEF Single
<1> QED BY <1>3, <1>5, <1>6, VisitKeeps

LEMMA ClosedKeeps ==
  ASSUME StreamInv, NEW v \in DashVisits, NEW i \in 1 .. MaxSockets, DashClosed(v, i)
  PROVE  StreamInv'
<1> DEFINE d == dash[v]
           k == [phase |-> "gone", onclose |-> FALSE]
           socks == [d.socks EXCEPT ![i] = k]
           again == d.timer \/ d.attempts < DashReconnects
           count == IF d.attempts < DashReconnects THEN d.attempts + 1 ELSE d.attempts
           e == [d EXCEPT !.socks = socks, !.timer = again, !.attempts = count]
<1>1. /\ d \in Dashboard /\ Single(d) /\ d.socks \in Seq(Socket)
      /\ d.attempts \in Nat /\ d.timer \in BOOLEAN
  BY DEF StreamInv, DashShape, Dashboard
<1>2. i \in DOMAIN d.socks /\ k \in Socket /\ k.phase = "gone"
  BY DEF DashClosed, Socket
<1>3. dash' = [dash EXCEPT ![v] = e] /\ UNCHANGED <<dashVisit, dashHere, session, published>>
  BY DEF DashClosed, StreamInv, DashShape, Dashboard
<1>4. again \in BOOLEAN /\ count \in Nat
  BY <1>1
<1> HIDE DEF d, k, again, count
<1>5. /\ socks \in Seq(Socket) /\ DOMAIN socks = DOMAIN d.socks
      /\ Len(socks) = Len(d.socks) /\ socks[i] = k
      /\ \A j \in DOMAIN socks : j # i => socks[j] = d.socks[j]
  BY <1>1, <1>2
<1> HIDE DEF socks
<1>6. e \in Dashboard /\ e.socks = socks /\ e.ref = d.ref
  BY <1>1, <1>4, <1>5 DEF Dashboard
<1> HIDE DEF e
<1>7. Single(e)
  BY <1>1, <1>2, <1>5, <1>6 DEF Single
<1> QED BY <1>3, <1>6, <1>7, VisitKeeps

\* At most one socket of the page on the screen delivers a prompt.
LEMMA PublishOnce ==
  ASSUME StreamInv, Publish, UNCHANGED <<dash, dashVisit, dashHere>>
  PROVE  StreamInv'
<1>1. Listening = {} \/ Cardinality(Listening) = 1
  <2> SUFFICES ASSUME dashHere PROVE Listening = {} \/ Cardinality(Listening) = 1
    BY DEF Listening
  <2>1. Listening \subseteq {dash[dashVisit].ref}
    BY DEF Listening, StreamInv, DashShape, Single
  <2>2. Listening = {} \/ Listening = {dash[dashVisit].ref}
    BY <2>1
  <2> QED BY <2>2, FS_Singleton
<1>2. /\ session \in [known : BOOLEAN, events : Nat, is_frozen : BOOLEAN]
      /\ published \in Nat /\ session.events <= published
  BY DEF StreamInv, DashShape, EventsOnce
<1>3. published' = published + 1
  BY DEF Publish
<1>4. /\ session' \in [known : BOOLEAN, events : Nat, is_frozen : BOOLEAN]
      /\ session'.events \in {session.events, session.events + 1}
  <2>1. CASE Listening = {}
    BY <1>2, <2>1 DEF Publish
  <2>2. CASE Cardinality(Listening) = 1 /\ Listening # {}
    <3>1. session' = [session EXCEPT !.known = TRUE, !.events = session.events + 1]
      BY <2>2 DEF Publish
    <3>2. PICK n \in Nat : n = session.events + 1
      BY <1>2
    <3> QED BY <1>2, <3>1, <3>2
  <2> QED BY <1>1, <2>1, <2>2
<1>5. DashShape'
  BY <1>2, <1>3, <1>4 DEF StreamInv, DashShape
<1>6. EventsOnce'
  BY <1>2, <1>3, <1>4 DEF EventsOnce
<1> QED BY <1>5, <1>6 DEF StreamInv, Single

LEMMA InitStream == DashInit => StreamInv
<1> SUFFICES ASSUME DashInit PROVE StreamInv
  OBVIOUS
<1>1. NewDash \in Dashboard /\ Single(NewDash)
  BY DEF NewDash, Dashboard, Single
<1>2. /\ session \in [known : BOOLEAN, events : Nat, is_frozen : BOOLEAN]
      /\ session.events = 0 /\ published = 0
  BY DEF DashInit, NoSession
<1>3. dash \in [DashVisits -> Dashboard] /\ \A v \in DashVisits : dash[v] = NewDash
  BY <1>1 DEF DashInit
<1>4. dashVisit \in 0 .. MaxDashVisits /\ dashHere = FALSE
  <2>1. dashVisit = 0 /\ dashHere = FALSE BY DEF DashInit
  <2> QED BY <2>1, DashAssumption
<1>5. DashShape
  BY <1>2, <1>3, <1>4 DEF DashShape
<1>6. EventsOnce
  BY <1>2 DEF EventsOnce
<1> QED BY <1>1, <1>3, <1>5, <1>6 DEF StreamInv

LEMMA NextStream == FreezeInv /\ StreamInv /\ [LiveNext]_liveVars => StreamInv'
<1> SUFFICES ASSUME FreezeInv, StreamInv, [LiveNext]_liveVars PROVE StreamInv'
  OBVIOUS
<1>1. ASSUME UNCHANGED <<dash, dashVisit, dashHere, published>>,
             session' = session \/ \E b \in BOOLEAN : session' = [session EXCEPT !.is_frozen = b]
      PROVE  StreamInv'
  <2>1. session \in [known : BOOLEAN, events : Nat, is_frozen : BOOLEAN]
    BY DEF StreamInv, DashShape
  <2>2. /\ session' \in [known : BOOLEAN, events : Nat, is_frozen : BOOLEAN]
        /\ session'.events = session.events
    BY <1>1, <2>1
  <2> QED BY <1>1, <2>2 DEF StreamInv, DashShape, Single, EventsOnce
<1>2. CASE TutorAlone
  BY <1>1, <1>2 DEF TutorAlone, dashVars
<1>3. CASE DashAlone
  <2>1. ASSUME NEW v \in DashVisits, DashTimer(v) PROVE StreamInv'
    <3> DEFINE d == [dash[v] EXCEPT !.timer = FALSE]
    <3>1. dash[v] \in Dashboard /\ Single(dash[v])
      BY DEF StreamInv, DashShape
    <3>2. d \in Dashboard /\ d.socks = dash[v].socks /\ d.ref = dash[v].ref
      BY <3>1 DEF Dashboard
    <3>3. /\ ConnectWebSocket(v, d)
          /\ UNCHANGED <<dashVisit, dashHere, session, published>>
      BY <2>1 DEF DashTimer
    <3> HIDE DEF d
    <3>4. Single(d) BY <3>1, <3>2 DEF Single
    <3> QED BY <3>2, <3>3, <3>4, ConnectKeeps
  <2>2. CASE ReconnectButton
    <3>1. PICK v \in DashVisits : v = dashVisit
      BY <2>2 DEF ReconnectButton, StreamInv, DashShape
    <3>2. dash[v] \in Dashboard /\ Single(dash[v])
      BY DEF StreamInv, DashShape
    <3>3. /\ ConnectWebSocket(v, dash[v])
          /\ UNCHANGED <<dashVisit, dashHere, session, published>>
      BY <2>2, <3>1 DEF ReconnectButton
    <3>4. PICK d \in Dashboard : d = dash[v] BY <3>2
    <3> QED BY <3>2, <3>3, <3>4, ConnectKeeps
  <2>3. CASE Open \/ Close
    BY <2>3, DashMountKeeps
  <2>4. CASE HandleFreezeToggle
    BY <1>1, <2>4 DEF HandleFreezeToggle
  <2>5. ASSUME NEW v \in DashVisits, NEW i \in 1 .. MaxSockets,
               DashOpened(v, i) \/ DashClosed(v, i)
        PROVE  StreamInv'
    BY <2>5, OpenedKeeps, ClosedKeeps
  <2>6. ASSUME NEW r \in requests, GatewayFreezes(r) \/ FreezeFails(r) PROVE StreamInv'
    BY <1>1, <2>6 DEF GatewayFreezes, FreezeFails
  <2>7. ASSUME NEW r \in requests, FreezeAnswered(r) PROVE StreamInv'
    <3>1. r.value \in BOOLEAN
      BY DEF FreezeInv, FreezeShape
    <3> QED BY <1>1, <2>7, <3>1 DEF FreezeAnswered
  <2>8. CASE FreezeExpires \/ OtherDashboard \/ \E r \in abandoned : FreezesLate(r)
    BY <1>1, <2>8 DEF FreezeExpires, OtherDashboard, FreezesLate, ChangedElsewhere
  <2> QED
    BY <1>3, <2>1, <2>2, <2>3, <2>4, <2>5, <2>6, <2>7, <2>8 DEF DashAlone
<1>4. ASSUME NEW v \in Visits, PassPrompt(v) \/ Refuse(v) \/ AIFails(v)
      PROVE  StreamInv'
  BY <1>1, <1>4 DEF PassPrompt, Refuse, AIFails, dashVars
<1>5. ASSUME NEW v \in Visits, Answer(v) \/ Flagged(v) PROVE StreamInv'
  BY <1>5, PublishOnce DEF Answer, Flagged
<1>6. CASE UNCHANGED liveVars
  BY <1>1, <1>6 DEF liveVars, dashVars
<1> QED
  BY <1>2, <1>3, <1>4, <1>5, <1>6 DEF LiveNext

LEMMA StreamInvariant == LiveSpec => []StreamInv
<1>1. LiveInit => StreamInv
  BY InitStream DEF LiveInit
<1> QED
  BY <1>1, NextStream, FreezeInvariant, PTL DEF LiveSpec

\* The dashboard counts every prompt at most once, for any number of visits,
\* sockets and reconnections: the singleton check of connectWebSocket and the
\* clean-up leave at most one socket of a page open.
THEOREM PromptsAreCountedOnce == LiveSpec => []EventsOnce
<1>1. StreamInv => EventsOnce
  BY DEF StreamInv
<1> QED
  BY <1>1, StreamInvariant, PTL

-----------------------------------------------------------------------------
(* Types and limits of both pages. *)

\* Reconnects stop at their limit; a timer next to a socket leaves room for the
\* close event that will lose track of it.
Bounded(s) ==
  /\ s.orphans <= MaxOrphans /\ s.attempts <= MaxReconnects
  /\ s.timer /\ s.sock # "none" => s.orphans < MaxOrphans

TutorBounds ==
  /\ page \in Pages /\ shown \in States /\ error \in BOOLEAN
  /\ \A v \in Visits : Bounded(svc[v])

\* connect() and disconnect() keep within the limits.
LEMMA ConnectedBounded ==
  ASSUME NEW s \in Service, Bounded(s),
         s.timer /\ s.sock = "none" => s.orphans < MaxOrphans
  PROVE  Bounded(Connected(s)) /\ Connected(s).state \in States
<1>1. /\ Connected(s).orphans = s.orphans /\ Connected(s).attempts = s.attempts
      /\ Connected(s).timer => s.timer /\ s.sock = "none"
      /\ Connected(s).state \in States
  BY DEF Connected, Disconnected, Service, States
<1> QED
  BY <1>1 DEF Bounded

LEMMA DisconnectedBounded ==
  ASSUME NEW s \in Service, Bounded(s)
  PROVE  Bounded(Disconnected(s))
<1>1. /\ Disconnected(s).orphans = s.orphans /\ Disconnected(s).attempts = s.attempts
      /\ ~Disconnected(s).timer
  BY DEF Disconnected, Service
<1> QED
  BY <1>1 DEF Bounded

\* A service within the limits reports to its page, or changes unseen.
LEMMA ChangeBounded ==
  ASSUME TutorInv, TutorBounds, NEW v \in Visits, NEW s, Bounded(s),
         svc' = [svc EXCEPT ![v] = s], page' = page, shown' \in States, error' \in BOOLEAN
  PROVE  TutorBounds'
<1>1. \A w \in Visits : svc'[w] = IF w = v THEN s ELSE svc[w]
  BY DEF TutorInv, Shape
<1>2. \A w \in Visits : Bounded(svc'[w])
  BY <1>1 DEF TutorBounds
<1> QED
  BY <1>2 DEF TutorBounds, Bounded

LEMMA ReportBounded ==
  ASSUME TutorInv, TutorBounds, NEW v \in Visits, NEW s, NEW e \in BOOLEAN, Bounded(s),
         s.state \in States, Report(v, s, e), page' = page
  PROVE  TutorBounds'
<1>1. shown' \in States /\ error' \in BOOLEAN /\ svc' = [svc EXCEPT ![v] = s]
  BY DEF Report, TutorBounds
<1> QED
  BY <1>1, ChangeBounded

\* Frames of the gateway, sent prompts and a broken connection.
LEMMA FrameBounded ==
  ASSUME NEW s \in Service, Bounded(s), NEW a, NEW c, NEW d, c = [s EXCEPT !.asked = a],
         s.sock = "open", d = [s EXCEPT !.sock = "closing"]
  PROVE  Bounded(c) /\ c.state \in States /\ Bounded(d)
<1>1. /\ c.orphans = s.orphans /\ c.attempts = s.attempts /\ c.timer = s.timer
      /\ c.sock = s.sock /\ c.state = s.state
      /\ d.orphans = s.orphans /\ d.attempts = s.attempts /\ d.timer = s.timer
  BY DEF Service
<1> QED
  BY <1>1 DEF Bounded, Service

LEMMA MountBounded ==
  ASSUME TutorInv, TutorBounds, Enter \/ Leave
  PROVE  TutorBounds'
<1>1. CASE Enter
  <2>1. NewService \in Service /\ ~NewService.timer /\ Bounded(NewService)
    BY TutorAssumption DEF NewService, Service, States, Bounded
  <2>2. Bounded(Connected(NewService))
    BY <2>1, ConnectedBounded
  <2>3. PICK s : s = Connected(NewService)
    OBVIOUS
  <2>4. PICK v \in Visits : v = visit + 1
    BY <1>1, TutorAssumption DEF TutorInv, Shape, Enter, Visits
  <2>5. svc' = [svc EXCEPT ![v] = s] /\ page' = page /\ shown' \in States /\ error' \in BOOLEAN
    BY <1>1, <2>3, <2>4 DEF Enter, States
  <2> QED
    BY <2>2, <2>3, <2>5, ChangeBounded
<1>2. CASE Leave
  <2>1. PICK v \in Visits : v = visit
    BY <1>2 DEF TutorInv, Shape, Leave
  <2>2. svc[v] \in Service /\ Bounded(svc[v])
    BY DEF TutorInv, Shape, TutorBounds
  <2>3. PICK s : s = Disconnected(svc[v])
    OBVIOUS
  <2>4. Bounded(s)
    BY <2>2, <2>3, DisconnectedBounded
  <2>5. svc' = [svc EXCEPT ![v] = s] /\ page' = page /\ shown' \in States /\ error' \in BOOLEAN
    BY <1>2, <2>1, <2>3 DEF Leave, States
  <2> QED
    BY <2>4, <2>5, ChangeBounded
<1> QED
  BY <1>1, <1>2

\* What the student does on the page.
LEMMA StudentBounded ==
  ASSUME TutorInv, TutorBounds, Retry \/ HandleSend \/ HandleSendOffline
  PROVE  TutorBounds'
<1>1. PICK v \in Visits : v = visit
  BY DEF TutorInv, Shape, Retry, RetryOffered, HandleSend, SendOffered, HandleSendOffline
<1>2. svc[v] \in Service /\ Bounded(svc[v]) /\ error \in BOOLEAN /\ svc[v].state \in States
  BY DEF TutorInv, Shape, TutorBounds, Service
<1>3. CASE Retry
  <2>1. PICK c \in Service : c = Connected(svc[v])
    BY <1>2, ConnectedService
  <2>2. Bounded(c) /\ c.state \in States
    BY <1>1, <1>2, <1>3, <2>1, ConnectedBounded DEF Retry
  <2>3. PICK s : s = [c EXCEPT !.stranded = @ \/ (svc[visit].timer /\ svc[visit].sock = "none")]
    OBVIOUS
  <2>4. /\ s.orphans = c.orphans /\ s.attempts = c.attempts /\ s.timer = c.timer
        /\ s.sock = c.sock /\ s.state = c.state
    BY <2>1, <2>3 DEF Service
  <2>5. Bounded(s) /\ s.state \in States
    BY <2>2, <2>4 DEF Bounded
  <2>6. Report(v, s, error) /\ page' = page
    BY <1>1, <1>3, <2>1, <2>3 DEF Retry
  <2> QED
    BY <1>2, <2>5, <2>6, ReportBounded
<1>4. CASE HandleSend
  <2>1. CASE svc[v].sock = "open"
    <3>1. PICK s : s = [svc[v] EXCEPT !.asked = "sent"]
      OBVIOUS
    <3>2. Bounded(s) /\ s.state \in States
      BY <1>2, <2>1, <3>1, FrameBounded
    <3>3. Report(v, s, error) /\ page' = page
      BY <1>1, <1>4, <2>1, <3>1 DEF HandleSend
    <3> QED
      BY <1>2, <3>2, <3>3, ReportBounded
  <2>2. CASE svc[v].sock # "open"
    <3>1. Report(v, svc[v], TRUE) /\ page' = page
      BY <1>1, <1>4, <2>2 DEF HandleSend
    <3> QED
      BY <1>2, <3>1, ReportBounded
  <2> QED
    BY <2>1, <2>2
<1>5. CASE HandleSendOffline
  BY <1>5 DEF HandleSendOffline, TutorBounds, Bounded
<1> QED
  BY <1>3, <1>4, <1>5

\* What the socket and its timers do: reconnects are counted up to the limit.
LEMMA EventBounded ==
  ASSUME TutorInv, TutorBounds, NEW v \in Visits, OnOpen(v) \/ OnClose(v) \/ ReconnectTimer(v)
  PROVE  TutorBounds'
<1>1. /\ svc[v] \in Service /\ Bounded(svc[v]) /\ error \in BOOLEAN
      /\ svc[v].orphans \in Nat /\ svc[v].attempts \in Nat
  BY DEF TutorInv, Shape, TutorBounds, Service
<1>2. CASE OnOpen(v)
  <2>1. PICK s : s = [svc[v] EXCEPT !.sock = "open", !.attempts = 0, !.state = "connected"]
    OBVIOUS
  <2>2. /\ s.orphans = svc[v].orphans /\ s.attempts = 0 /\ s.timer = svc[v].timer
        /\ s.state \in States
    BY <1>1, <2>1 DEF Service, States
  <2>3. Bounded(s)
    BY <1>1, <1>2, <2>2, TutorAssumption DEF Bounded, OnOpen
  <2>4. PICK e \in BOOLEAN : e = (page = "tutor" /\ error)
    BY <1>1
  <2>5. Report(v, s, e) /\ page' = page
    BY <1>2, <2>1, <2>4 DEF OnOpen
  <2> QED
    BY <2>2, <2>3, <2>5, ReportBounded
<1>3. CASE OnClose(v)
  <2>1. PICK c : c = [svc[v] EXCEPT !.sock = "none", !.asked = "no"]
    OBVIOUS
  <2>2. /\ c \in Service /\ c.orphans = svc[v].orphans /\ c.attempts = svc[v].attempts
        /\ c.timer = svc[v].timer /\ c.sock = "none"
    BY <1>1, <2>1 DEF Service
  <2>3. c.timer => c.orphans < MaxOrphans
    BY <1>1, <1>3, <2>2 DEF Bounded, OnClose
  <2>4. CASE c.explicit \/ ~(c.attempts < MaxReconnects)
    <3>1. PICK e \in BOOLEAN : Report(v, [c EXCEPT !.state = "disconnected"], e) /\ page' = page
      BY <1>1, <1>3, <2>1, <2>4 DEF OnClose
    <3>2. PICK s : s = [c EXCEPT !.state = "disconnected"]
      OBVIOUS
    <3>3. /\ s.orphans = c.orphans /\ s.attempts = c.attempts /\ s.sock = "none"
          /\ s.state \in States
      BY <2>2, <3>2 DEF Service, States
    <3>4. Bounded(s)
      BY <1>1, <2>2, <3>3 DEF Bounded
    <3> QED
      BY <3>1, <3>2, <3>3, <3>4, ReportBounded
  <2>5. CASE ~c.explicit /\ c.attempts < MaxReconnects
    <3>1. PICK o \in Nat, a \in Nat : o = (IF c.timer THEN c.orphans + 1 ELSE c.orphans)
                                      /\ a = c.attempts + 1
      BY <1>1, <2>2
    <3>2. PICK s : s = [c EXCEPT !.attempts = a, !.state = "reconnecting", !.orphans = o,
                                 !.timer = TRUE]
      OBVIOUS
    <3>3. /\ s.orphans = o /\ s.attempts = a /\ s.sock = "none" /\ s.state \in States
      BY <2>2, <3>2 DEF Service, States
    <3>4. o <= MaxOrphans /\ a <= MaxReconnects
      BY <1>1, <2>2, <2>3, <2>5, <3>1, TutorAssumption DEF Bounded
    <3>5. Bounded(s)
      BY <3>3, <3>4 DEF Bounded
    <3>6. Report(v, s, TRUE) /\ page' = page
      BY <1>3, <2>1, <2>2, <2>5, <3>1, <3>2 DEF OnClose, Service
    <3> QED
      BY <3>3, <3>5, <3>6, ReportBounded
  <2> QED
    BY <2>4, <2>5
<1>4. CASE ReconnectTimer(v)
  <2>0. page' = page /\ svc[v].timer \in BOOLEAN
    BY <1>1, <1>4 DEF ReconnectTimer, Service
  <2>1. PICK c : /\ c \in Service /\ c.attempts = svc[v].attempts /\ c.sock = svc[v].sock
                 /\ c.orphans <= svc[v].orphans
                 /\ c.timer => c.orphans < svc[v].orphans
                 /\ Report(v, Connected(c), error)
    <3>1. CASE svc[v].timer /\ Report(v, Connected([svc[v] EXCEPT !.timer = FALSE]), error)
      <4>1. PICK c : c = [svc[v] EXCEPT !.timer = FALSE]
        OBVIOUS
      <4>2. /\ c \in Service /\ c.attempts = svc[v].attempts /\ c.sock = svc[v].sock
            /\ c.orphans = svc[v].orphans /\ ~c.timer
        BY <1>1, <4>1 DEF Service
      <4>3. Report(v, Connected(c), error)
        BY <3>1, <4>1, Zenon
      <4> QED
        BY <1>1, <4>2, <4>3
    <3>2. CASE svc[v].orphans > 0 /\ Report(v, Connected([svc[v] EXCEPT !.orphans = @ - 1]), error)
      <4>1. PICK c : c = [svc[v] EXCEPT !.orphans = @ - 1]
        OBVIOUS
      <4>2. PICK o \in Nat : o = svc[v].orphans - 1 /\ o < svc[v].orphans
        BY <1>1, <3>2
      <4>3. /\ c \in Service /\ c.attempts = svc[v].attempts /\ c.sock = svc[v].sock
            /\ c.orphans = o
        BY <1>1, <4>1, <4>2 DEF Service
      <4>4. Report(v, Connected(c), error)
        BY <3>2, <4>1, Zenon
      <4> QED
        BY <1>1, <4>2, <4>3, <4>4
    <3> QED
      BY <1>4, <3>1, <3>2 DEF ReconnectTimer
  <2>2. c.orphans \in Nat /\ c.attempts \in Nat
    BY <2>1 DEF Service
  <2>3. Bounded(c) /\ (c.timer => c.orphans < MaxOrphans)
    BY <1>1, <2>1, <2>2, TutorAssumption DEF Bounded
  <2>4. PICK s : s = Connected(c)
    OBVIOUS
  <2>5. Bounded(s) /\ s.state \in States
    BY <2>1, <2>3, <2>4, ConnectedBounded
  <2> QED
    BY <1>1, <2>0, <2>1, <2>4, <2>5, ReportBounded
<1> QED
  BY <1>2, <1>3, <1>4

\* What the gateway and the network do to an open socket.
LEMMA GatewayBounded ==
  ASSUME TutorInv, TutorBounds, NEW v \in Visits,
         PassPrompt(v) \/ ErrorFrame(v) \/ HandleIncomingToken(v) \/ Break(v)
  PROVE  TutorBounds'
<1>1. /\ svc[v] \in Service /\ Bounded(svc[v]) /\ error \in BOOLEAN /\ svc[v].sock = "open"
  BY DEF TutorInv, Shape, TutorBounds, PassPrompt, ErrorFrame, HandleIncomingToken, Break
<1>2. PICK s : s = [svc[v] EXCEPT !.asked = "no"]
  OBVIOUS
<1>3. PICK b : b = [svc[v] EXCEPT !.sock = "closing"]
  OBVIOUS
<1>4. PICK p : p = [svc[v] EXCEPT !.asked = "passed"]
  OBVIOUS
<1>5. Bounded(s) /\ s.state \in States /\ Bounded(b)
  BY <1>1, <1>2, <1>3, FrameBounded
<1>6. Bounded(p)
  BY <1>1, <1>3, <1>4, FrameBounded
<1>7. CASE PassPrompt(v)
  <2>1. svc' = [svc EXCEPT ![v] = p] /\ UNCHANGED <<page, shown, error>>
    BY <1>4, <1>7 DEF PassPrompt, TutorInv, Shape
  <2> QED
    BY <1>6, <2>1, ChangeBounded DEF TutorBounds
<1>8. CASE Break(v)
  <2>1. svc' = [svc EXCEPT ![v] = b] /\ UNCHANGED <<page, shown, error>>
    BY <1>3, <1>8 DEF Break, TutorInv, Shape
  <2> QED
    BY <1>5, <2>1, ChangeBounded DEF TutorBounds
<1>9. CASE ErrorFrame(v) \/ HandleIncomingToken(v)
  <2>1. PICK e \in BOOLEAN : Report(v, s, e) /\ page' = page
    BY <1>1, <1>2, <1>9 DEF ErrorFrame, HandleIncomingToken
  <2> QED
    BY <1>5, <2>1, ReportBounded
<1> QED
  BY <1>7, <1>8, <1>9

LEMMA NextBounds == TutorInv /\ TutorBounds /\ [LiveNext]_liveVars => TutorBounds'
<1> SUFFICES ASSUME TutorInv, TutorBounds, [LiveNext]_liveVars PROVE TutorBounds'
  OBVIOUS
<1>1. CASE UNCHANGED tutorVars
  BY <1>1 DEF tutorVars, TutorBounds, Bounded
<1>2. CASE TutorAlone
  BY <1>2, MountBounded, StudentBounded, EventBounded, GatewayBounded, Zenon
     DEF TutorAlone, SocketEvent
<1>3. ASSUME NEW v \in Visits,
             PassPrompt(v) \/ Refuse(v) \/ Answer(v) \/ Flagged(v) \/ AIFails(v)
      PROVE  TutorBounds'
  BY <1>3, GatewayBounded, Zenon DEF Refuse, Answer, Flagged, AIFails
<1> QED
  BY <1>1, <1>2, <1>3, Zenon DEF LiveNext, DashAlone, liveVars

\* The dashboard's requests come from its visits, and its socket stops trying
\* at the limit.
DashBounds ==
  /\ status \in {"disconnected", "connecting", "connected"}
  /\ requests \subseteq Requests
  /\ \A v \in DashVisits : dash[v].attempts <= DashReconnects

\* One visit's sockets change.
LEMMA VisitBounded ==
  ASSUME StreamInv, DashBounds, NEW v \in DashVisits, NEW e, e.attempts <= DashReconnects,
         dash' = [dash EXCEPT ![v] = e], requests' = requests,
         status' \in {"disconnected", "connecting", "connected"}
  PROVE  DashBounds'
<1>1. \A w \in DashVisits : dash'[w] = IF w = v THEN e ELSE dash[w]
  BY DEF StreamInv, DashShape
<1> QED
  BY <1>1 DEF DashBounds

LEMMA ConnectBounded ==
  ASSUME StreamInv, DashBounds, NEW v \in DashVisits, NEW d \in Dashboard,
         d.attempts <= DashReconnects, ConnectWebSocket(v, d), requests' = requests
  PROVE  DashBounds'
<1>1. PICK e : e = WithSocket(d)
  OBVIOUS
<1>2. e.attempts = d.attempts
  BY <1>1 DEF WithSocket, Dashboard
<1>3. CASE HasConnection(d)
  BY <1>3, VisitBounded DEF ConnectWebSocket, DashBounds
<1>4. CASE ~HasConnection(d)
  <2>1. dash' = [dash EXCEPT ![v] = e]
    BY <1>1, <1>4 DEF ConnectWebSocket
  <2>2. status' \in {"disconnected", "connecting", "connected"}
    BY <1>4 DEF ConnectWebSocket, SetConnStatus, DashBounds
  <2> QED
    BY <1>2, <2>1, <2>2, VisitBounded
<1> QED
  BY <1>3, <1>4

LEMMA DashMountBounded ==
  ASSUME StreamInv, DashBounds, Open \/ Close
  PROVE  DashBounds'
<1>1. CASE Open
  <2>1. PICK v \in DashVisits : v = dashVisit + 1
    BY <1>1, DashAssumption DEF Open, DashVisits, StreamInv, DashShape
  <2>2. PICK e : e = WithSocket(NewDash)
    OBVIOUS
  <2>3. e.attempts <= DashReconnects
    BY <2>2, DashAssumption DEF WithSocket, NewDash
  <2>4. /\ dash' = [dash EXCEPT ![v] = e] /\ requests' = requests
        /\ status' \in {"disconnected", "connecting", "connected"}
    BY <1>1, <2>1, <2>2 DEF Open
  <2> QED
    BY <2>3, <2>4, VisitBounded
<1>2. CASE Close
  <2>1. PICK v \in DashVisits : v = dashVisit
    BY <1>2 DEF Close, StreamInv, DashShape
  <2>2. dash[v] \in Dashboard /\ dash[v].attempts <= DashReconnects
    BY DEF StreamInv, DashShape, DashBounds
  <2>3. PICK socks, e :
          /\ e = [dash[v] EXCEPT !.timer = FALSE, !.ref = 0, !.socks = socks]
          /\ dash' = [dash EXCEPT ![v] = e]
    BY <1>2, <2>1 DEF Close
  <2>4. e.attempts = dash[v].attempts
    BY <2>2, <2>3 DEF Dashboard
  <2>5. requests' = requests /\ status' \in {"disconnected", "connecting", "connected"}
    BY <1>2 DEF Close
  <2> QED
    BY <2>2, <2>3, <2>4, <2>5, VisitBounded
<1> QED
  BY <1>1, <1>2

LEMMA DashEventBounded ==
  ASSUME StreamInv, DashBounds, NEW v \in DashVisits, NEW i \in 1 .. MaxSockets,
         DashOpened(v, i) \/ DashClosed(v, i)
  PROVE  DashBounds'
<1>1. /\ dash[v] \in Dashboard /\ dash[v].attempts <= DashReconnects
      /\ dash[v].attempts \in Nat /\ dash \in [DashVisits -> Dashboard]
  BY DEF StreamInv, DashShape, DashBounds, Dashboard
<1>2. requests' = requests /\ status' \in {"disconnected", "connecting", "connected"}
  BY DEF DashOpened, DashClosed, SetConnStatus, DashBounds
<1>3. CASE DashOpened(v, i)
  <2>1. PICK socks : socks = [dash[v].socks EXCEPT ![i].phase = "open"]
    OBVIOUS
  <2>2. PICK e : e = [dash[v] EXCEPT !.socks = socks, !.attempts = 0]
    OBVIOUS
  <2>3. dash' = [dash EXCEPT ![v] = e]
    BY <1>1, <1>3, <2>1, <2>2 DEF DashOpened, Dashboard
  <2>4. e.attempts = 0
    BY <1>1, <2>2 DEF Dashboard
  <2>5. e.attempts <= DashReconnects
    BY <2>4, DashAssumption
  <2> QED
    BY <1>2, <2>3, <2>5, VisitBounded
<1>4. CASE DashClosed(v, i)
  <2>1. PICK socks : socks = [dash[v].socks EXCEPT ![i] = [phase |-> "gone", onclose |-> FALSE]]
    OBVIOUS
  <2>2. PICK again : again = (dash[v].timer \/ dash[v].attempts < DashReconnects)
    OBVIOUS
  <2>3. PICK n \in Nat :
          n = IF dash[v].attempts < DashReconnects THEN dash[v].attempts + 1 ELSE dash[v].attempts
    BY <1>1
  <2>4. n <= DashReconnects
    BY <1>1, <2>3, DashAssumption
  <2>5. PICK e : e = [dash[v] EXCEPT !.socks = socks, !.timer = again, !.attempts = n]
    OBVIOUS
  <2>6. dash' = [dash EXCEPT ![v] = e]
    BY <1>1, <1>4, <2>1, <2>2, <2>3, <2>5 DEF DashClosed, Dashboard
  <2>7. e.attempts = n
    BY <1>1, <2>5 DEF Dashboard
  <2> QED
    BY <1>2, <2>4, <2>6, <2>7, VisitBounded
<1> QED
  BY <1>3, <1>4

\* A request keeps the visit it was sent in.
LEMMA RequestBounded ==
  ASSUME FreezeInv, StreamInv, DashBounds,
         HandleFreezeToggle \/ \E r \in requests :
           GatewayFreezes(r) \/ FreezeAnswered(r) \/ FreezeFails(r)
  PROVE  DashBounds'
<1>1. UNCHANGED <<dash, status>>
  BY DEF HandleFreezeToggle, GatewayFreezes, FreezeAnswered, FreezeFails
<1>2. ASSUME requests' \subseteq Requests PROVE DashBounds'
  BY <1>1, <1>2 DEF DashBounds
<1>3. CASE HandleFreezeToggle
  <2>1. PICK n \in 1 .. MaxToggles, b \in BOOLEAN :
          requests' = requests \cup {[id |-> n, value |-> b, done |-> FALSE, visit |-> dashVisit]}
    BY <1>3 DEF HandleFreezeToggle, NextToggle
  <2>2. dashVisit \in DashVisits
    BY <1>3 DEF HandleFreezeToggle, ToggleOffered, StreamInv, DashShape
  <2>3. PICK d : d = [id |-> n, value |-> b, done |-> FALSE, visit |-> dashVisit]
    OBVIOUS
  <2>4. d \in Requests
    BY <2>2, <2>3 DEF Requests
  <2>5. requests' = requests \cup {d}
    BY <2>1, <2>3, Zenon
  <2> QED
    BY <1>2, <2>4, <2>5 DEF DashBounds
<1>4. ASSUME NEW r \in requests, GatewayFreezes(r) PROVE DashBounds'
  <2>1. PICK d : d = [r EXCEPT !.done = TRUE]
    OBVIOUS
  <2>2. d \in Requests
    BY <2>1 DEF DashBounds, Requests
  <2>3. requests' = (requests \ {r}) \cup {d}
    BY <1>4, <2>1 DEF GatewayFreezes
  <2> QED
    BY <1>2, <2>2, <2>3 DEF DashBounds
<1>5. ASSUME NEW r \in requests, FreezeAnswered(r) \/ FreezeFails(r) PROVE DashBounds'
  <2>1. requests' = requests \ {r}
    BY <1>5 DEF FreezeAnswered, FreezeFails
  <2> QED
    BY <1>2, <2>1 DEF DashBounds
<1> QED
  BY <1>3, <1>4, <1>5

LEMMA NextDashBounds ==
  FreezeInv /\ StreamInv /\ DashBounds /\ [LiveNext]_liveVars => DashBounds'
<1> SUFFICES ASSUME FreezeInv, StreamInv, DashBounds, [LiveNext]_liveVars PROVE DashBounds'
  OBVIOUS
<1>1. ASSUME UNCHANGED <<dash, status, requests>> PROVE DashBounds'
  BY <1>1 DEF DashBounds
<1>2. CASE TutorAlone
  BY <1>1, <1>2 DEF TutorAlone, dashVars
<1>3. CASE DashAlone
  <2>1. ASSUME NEW v \in DashVisits, DashTimer(v) PROVE DashBounds'
    <3>1. dash[v] \in Dashboard /\ dash[v].attempts <= DashReconnects
      BY DEF StreamInv, DashShape, DashBounds
    <3>2. PICK d : d = [dash[v] EXCEPT !.timer = FALSE]
      OBVIOUS
    <3>3. d \in Dashboard /\ d.attempts = dash[v].attempts
      BY <3>1, <3>2 DEF Dashboard
    <3>4. ConnectWebSocket(v, d) /\ requests' = requests
      BY <2>1, <3>2 DEF DashTimer
    <3> QED
      BY <3>1, <3>3, <3>4, ConnectBounded
  <2>2. CASE ReconnectButton
    <3>1. PICK v \in DashVisits : v = dashVisit
      BY <2>2 DEF ReconnectButton, StreamInv, DashShape
    <3>2. PICK d \in Dashboard : d = dash[v]
      BY DEF StreamInv, DashShape
    <3>3. d.attempts <= DashReconnects
      BY <3>2 DEF DashBounds
    <3>4. ConnectWebSocket(v, d) /\ requests' = requests
      BY <2>2, <3>1, <3>2 DEF ReconnectButton
    <3> QED
      BY <3>3, <3>4, ConnectBounded
  <2>3. CASE FreezeExpires \/ OtherDashboard \/ \E r \in abandoned : FreezesLate(r)
    BY <1>1, <2>3 DEF FreezeExpires, OtherDashboard, FreezesLate, ChangedElsewhere
  <2> QED
    BY <1>3, <2>1, <2>2, <2>3, DashMountBounded, DashEventBounded, RequestBounded, Zenon
       DEF DashAlone
<1>4. ASSUME NEW v \in Visits,
             PassPrompt(v) \/ Refuse(v) \/ AIFails(v) \/ Answer(v) \/ Flagged(v)
      PROVE  DashBounds'
  BY <1>1, <1>4 DEF PassPrompt, Refuse, AIFails, Answer, Flagged, dashVars
<1>5. CASE UNCHANGED liveVars
  BY <1>1, <1>5 DEF liveVars, dashVars
<1> QED
  BY <1>2, <1>3, <1>4, <1>5 DEF LiveNext

\* What the page gives up was a request of its own.
LEMMA NextAbandoned ==
  DashBounds /\ abandoned \subseteq Requests /\ [LiveNext]_liveVars
    => (abandoned \subseteq Requests)'
<1> SUFFICES ASSUME DashBounds, abandoned \subseteq Requests, [LiveNext]_liveVars
             PROVE  abandoned' \subseteq Requests
  BY DEF Requests
<1>1. CASE UNCHANGED abandoned
  BY <1>1
<1>2. CASE TutorAlone \/ UNCHANGED liveVars
  BY <1>2 DEF TutorAlone, liveVars, dashVars, flagVars
<1>3. CASE DashAlone
  <2>1. ASSUME NEW v \in DashVisits, NEW i \in 1 .. MaxSockets,
               DashOpened(v, i) \/ DashClosed(v, i)
        PROVE  UNCHANGED abandoned
    BY <2>1 DEF DashOpened, DashClosed, flagVars
  <2>2. ASSUME NEW v \in DashVisits, DashTimer(v) PROVE UNCHANGED abandoned
    BY <2>2 DEF DashTimer, flagVars
  <2>3. CASE Open \/ Close \/ ReconnectButton \/ HandleFreezeToggle
    BY <1>1, <2>3 DEF Open, Close, ReconnectButton, HandleFreezeToggle, flagVars
  <2>4. ASSUME NEW r \in requests, GatewayFreezes(r) \/ FreezeAnswered(r)
        PROVE  UNCHANGED abandoned
    BY <2>4 DEF GatewayFreezes, FreezeAnswered, flagVars
  <2>5. ASSUME NEW r \in requests, FreezeFails(r) PROVE abandoned' \subseteq Requests
    BY <2>5 DEF FreezeFails, DashBounds
  <2>6. CASE FreezeExpires \/ OtherDashboard \/ \E r \in abandoned : FreezesLate(r)
    BY <2>6 DEF FreezeExpires, OtherDashboard, FreezesLate
  <2> QED
    BY <1>1, <1>3, <2>1, <2>2, <2>3, <2>4, <2>5, <2>6 DEF DashAlone
<1>4. ASSUME NEW v \in Visits,
             PassPrompt(v) \/ Refuse(v) \/ AIFails(v) \/ Answer(v) \/ Flagged(v)
      PROVE  UNCHANGED abandoned
  BY <1>4 DEF PassPrompt, Refuse, AIFails, Answer, Flagged, dashVars, flagVars
<1> QED
  BY <1>1, <1>2, <1>3, <1>4 DEF LiveNext

LEMMA InitBounds == LiveInit => TutorBounds /\ DashBounds /\ abandoned \subseteq Requests
<1> SUFFICES ASSUME LiveInit PROVE TutorBounds /\ DashBounds /\ abandoned \subseteq Requests
  OBVIOUS
<1>1. Bounded(NewService)
  BY TutorAssumption DEF NewService, Bounded
<1>2. TutorBounds
  BY <1>1 DEF LiveInit, TutorInit, TutorBounds, States
<1>3. DashBounds
  BY DashAssumption DEF LiveInit, DashInit, DashBounds, NewDash
<1>4. abandoned = {}
  BY DEF LiveInit, DashInit
<1> QED
  BY <1>2, <1>3, <1>4

\* Both pages keep to their types and their limits: neither socket counts more
\* reconnects than maxReconnectAttempts allows, however closes, timers and the
\* Retry and Reconnect buttons interleave, wsRef holds a socket of its visit, and
\* a freeze request belongs to a visit of the dashboard.
THEOREM LivePagesTypeCorrect == LiveSpec => []LiveTypeOK
<1>1. TutorInv /\ TutorBounds => TutorTypeOK
  <2> SUFFICES ASSUME TutorInv, TutorBounds PROVE TutorTypeOK
    OBVIOUS
  <2>1. \A v \in Visits :
          svc[v] \in [sock : {"none", "connecting", "open", "closing"},
                      asked : {"no", "sent", "passed"}, timer : BOOLEAN,
                      orphans : 0 .. MaxOrphans, attempts : 0 .. MaxReconnects,
                      explicit : BOOLEAN, state : States, stranded : BOOLEAN]
    BY TutorAssumption DEF TutorInv, Shape, TutorBounds, Bounded, Service
  <2> QED
    BY <2>1 DEF TutorInv, Shape, TutorBounds, TutorTypeOK
<1>2. FreezeInv /\ StreamInv /\ DashBounds /\ abandoned \subseteq Requests => DashTypeOK
  <2> SUFFICES ASSUME FreezeInv, StreamInv, DashBounds, abandoned \subseteq Requests
               PROVE  DashTypeOK
    OBVIOUS
  <2>1. ASSUME NEW v \in DashVisits
        PROVE  dash[v].ref \in 0 .. Len(dash[v].socks) /\ dash[v].attempts \in 0 .. DashReconnects
    <3>1. dash[v] \in Dashboard /\ Single(dash[v]) /\ dash[v].attempts <= DashReconnects
      BY DEF StreamInv, DashShape, DashBounds
    <3> QED
      BY <3>1, DashAssumption DEF Dashboard, Single
  <2> QED
    BY <2>1 DEF FreezeInv, FreezeShape, StreamInv, DashShape, DashBounds, DashTypeOK
<1> QED
  BY <1>1, <1>2, TutorInvariant, FreezeInvariant, StreamInvariant, InitBounds, NextBounds,
     NextDashBounds, NextAbandoned, PTL DEF LiveSpec, LiveTypeOK

-----------------------------------------------------------------------------
(***************************************************************************)
(* The shape of the console's state.                                       *)
(***************************************************************************)
Flags == {"on", "off"}
Levels == {"low", "high"}
Items == Insts \cup Reqs \cup PluginIds \cup RoleIds \cup {NoItem}
Lists == {"trials", "requests", "plugins", "roles", "perms"}

TrialType == [status : {"none", "active", "paused", "expired"}, limit : Levels]
ReviewType == {"none", "PENDING", "APPROVED", "REJECTED"}
RoleType == [exists : BOOLEAN, perms : SUBSET PermNames]

PluginType ==
  [exists : BOOLEAN, enabled : Flags, threshold : Levels,
   over : [Insts -> Flags \cup {"unset"}]]

CardType ==
  [exists : BOOLEAN, enabled : Flags, threshold : Levels, override : Flags \cup {"unset"}]

ServerType ==
  [trials : [Insts -> TrialType], requests : [Reqs -> ReviewType],
   plugins : [PluginIds -> PluginType], roles : [RoleIds -> RoleType],
   perms : SUBSET PermNames]

ListType(l) ==
  CASE l = "trials"   -> [Insts -> TrialType]
    [] l = "requests" -> [Reqs -> ReviewType]
    [] l = "plugins"  -> [PluginIds -> CardType]
    [] l = "roles"    -> [RoleIds -> RoleType]
    [] l = "perms"    -> SUBSET PermNames

ViewOK(v) == DOMAIN v = Lists /\ \A l \in Lists : v[l] \in ListType(l)

TrialKinds == {"onboard", "pause", "resume", "delete", "extend", "limits"}
ReviewKinds == {"approve", "reject"}
PluginKinds ==
  {"toggle", "override", "reset", "probe", "config", "create", "update", "remove"}
GrantKinds == {"assignNew", "assign", "unassign"}
RoleKinds == GrantKinds \cup {"createRole", "editRole", "deleteRole"}
PermKinds == {"createPerm", "deletePerm"}
Kinds == TrialKinds \cup ReviewKinds \cup PluginKinds \cup RoleKinds \cup PermKinds

CallType ==
  [kind : Kinds \cup {"none"}, item : Items, to : Flags \cup Levels \cup PermNames \cup {"-"},
   tenant : Tenants, basis : Flags \cup {"-", "stale"},
   phase : {"-", "sent", "executed", "refused"}, rest : SUBSET PermNames,
   want : SUBSET PermNames, clean : BOOLEAN]

\* What the gateway is asked in each tab.
Formed(c) ==
  \/ tab = "infrastructure" /\ c.kind \in TrialKinds /\ c.item \in Insts
       /\ (c.kind = "limits" => c.to \in Levels)
  \/ tab = "infrastructure" /\ c.kind \in ReviewKinds /\ c.item \in Reqs
  \/ /\ tab = "plugins" /\ c.kind \in PluginKinds /\ c.item \in PluginIds
     /\ c.kind \in {"config", "update"} => c.to \in Levels
     /\ c.kind \in {"toggle", "override"} => c.to \in Flags
     /\ c.kind = "override" => c.tenant # NoItem
  \/ /\ tab = "rbac" /\ c.kind \in RoleKinds /\ c.item \in RoleIds
     /\ c.kind \in GrantKinds => c.to \in PermNames
  \/ tab = "rbac" /\ c.kind \in PermKinds /\ c.to \in PermNames

\* What the handlers of each tab put into a call.
Fits(c) ==
  /\ c.rest \subseteq c.want /\ (c.kind = "createRole" => c.rest = c.want)
  /\ \/ tab = "infrastructure" /\ c.kind \in TrialKinds /\ c.item \in Insts
          /\ (c.kind = "limits" => c.to \in Levels)
     \/ tab = "infrastructure" /\ c.kind \in ReviewKinds /\ c.item \in Reqs
     \/ /\ tab = "plugins" /\ c.kind \in PluginKinds /\ c.item \in PluginIds
        /\ c.kind \in {"config", "update"} => c.to \in Levels
        /\ c.kind \in {"toggle", "override"} => c.to \in Flags /\ c.to # c.basis
        /\ c.kind = "toggle" => c.tenant = NoItem
        /\ c.kind = "override" => c.tenant # NoItem
     \/ /\ tab = "rbac" /\ c.kind \in RoleKinds /\ c.item \in RoleIds
        /\ c.kind \in GrantKinds => c.to \in PermNames
        /\ c.kind = "assign" => c.basis = "off"
        /\ c.kind = "unassign" => c.basis = "on"
        /\ c.kind = "assignNew" => c.to \in c.want \ c.rest
     \/ tab = "rbac" /\ c.kind \in PermKinds /\ c.to \in PermNames

CallOK(c) ==
  IF c.phase = "-" THEN c.kind = "none" /\ c.rest = c.want ELSE Fits(c)

\* Which forms a tab opens, and for which items.
FormFits(form, item) ==
  \/ form = "none"
  \/ tab = "infrastructure" /\ form = "onboard"
  \/ tab = "infrastructure" /\ form = "editTrial" /\ item \in Insts
  \/ tab = "infrastructure" /\ form = "rejectRequest" /\ item \in Reqs
  \/ tab = "plugins" /\ form = "createPlugin"
  \/ tab = "plugins" /\ form \in {"config", "editPlugin", "deletePlugin"}
       /\ item \in PluginIds
  \/ tab = "rbac" /\ form \in {"createRole", "createPerm"}
  \/ tab = "rbac" /\ form \in {"managePerms", "editRole"} /\ item \in RoleIds

\* A load asks for the lists of the tab and holds what it was answered.
Answers == UNION {ListType(l) : l \in Lists}

LoadType ==
  [tenant : Tenants, got : UNION {[S -> Answers] : S \in SUBSET Lists},
   failed : SUBSET Lists, overtaken : BOOLEAN, redeems : BOOLEAN]

LoadOK(d) ==
  /\ Settled(d) \subseteq TabLists(tab)
  /\ \A l \in DOMAIN d.got : d.got[l] \in ListType(l)

ServerOK == server \in ServerType /\ \A r \in RoleIds : server.roles[r].perms \subseteq server.perms

LoadsOK ==
  /\ loads \in Seq(LoadType) /\ Len(loads) <= MaxLoads
  /\ \A k \in 1 .. Len(loads) : LoadOK(loads[k])

CallsOK == calls \in [Slots -> CallType] /\ \A s \in Slots : CallOK(calls[s])

ConsoleShape ==
  /\ tab \in Tabs /\ tenant \in Tenants /\ isProbing \in PluginIds \cup {NoItem}
  /\ clicks \in 0 .. MaxClicks
  /\ ServerOK /\ ViewOK(view) /\ LoadsOK /\ CallsOK
  /\ modal.item \in Items /\ FormFits(modal.form, modal.item)

\* One form at a time waits for its call.
OneSubmit ==
  /\ isSubmitting \in BOOLEAN
  /\ isSubmitting <=> \E s \in Slots : Submits(calls[s].kind)
  /\ \A s, x \in Slots : Submits(calls[s].kind) /\ Submits(calls[x].kind) => s = x

ReadOf(sv, l, t) ==
  IF l = "plugins"
  THEN [p \in PluginIds |->
         [exists |-> sv.plugins[p].exists, enabled |-> sv.plugins[p].enabled,
          threshold |-> sv.plugins[p].threshold,
          override |-> IF t = NoItem THEN "unset" ELSE sv.plugins[p].over[t]]]
  ELSE sv[l]

Owes(c) == c.kind = "assignNew" \/ (c.phase = "executed" /\ c.kind # "probe")
Owed(cs) == \E s \in Slots : Owes(cs[s])

Current(sv, d) == \A l \in DOMAIN d.got : d.got[l] = ReadOf(sv, l, d.tenant)

FlagOrder ==
  /\ \A j, k \in 1 .. Len(loads) : j <= k =>
       /\ loads[k].overtaken => loads[j].overtaken
       /\ loads[j].redeems => loads[k].redeems
  /\ \A k \in 1 .. Len(loads) : loads[k].redeems \/ loads[k].overtaken \/ lag

LastFresh ==
  \A k \in 1 .. Len(loads) : k = Len(loads) =>
    \/ Owed(calls) \/ ~loads[k].redeems \/ loads[k].overtaken \/ Current(server, loads[k])

PageFresh ==
  (\A k \in 1 .. Len(loads) : loads[k].overtaken)
    => \/ Owed(calls) \/ lag
       \/ \A l \in TabLists(tab) : view[l] = ReadOf(server, l, tenant)

FreshInv == FlagOrder /\ LastFresh /\ PageFresh

Built(sv, c) ==
  c.clean /\ (c.kind = "assignNew" \/ (c.kind = "createRole" /\ c.phase = "executed")) =>
    /\ sv.roles[c.item].exists
    /\ sv.roles[c.item].perms = (IF c.phase = "executed" THEN c.want \ c.rest
                                ELSE c.want \ (c.rest \cup {c.to}))

BuiltInv == \A s \in Slots : Built(server, calls[s])

-----------------------------------------------------------------------------
(***************************************************************************)
(* What the handlers send.                                                 *)
(***************************************************************************)
NewCall(c) ==
  /\ c \in CallType /\ c.phase = "sent" /\ Fits(c)
  /\ c.kind \notin {"none", "assignNew"} /\ c.rest = c.want

\* The call a handler makes of its arguments.
LEMMA CallFields ==
  ASSUME NEW kind \in Kinds, NEW item \in Items, NEW c,
         NEW to \in Flags \cup Levels \cup PermNames \cup {"-"},
         NEW basis \in Flags \cup {"-", "stale"}, tenant \in Tenants,
         c = Call(kind, item, to, basis)
  PROVE  /\ c \in CallType
         /\ c.kind = kind /\ c.item = item /\ c.to = to /\ c.basis = basis
         /\ c.tenant = tenant /\ c.phase = "sent" /\ c.rest = {} /\ c.want = {}
  BY DEF Call, NoCall, CallType

\* In the tab of institutions.
LEMMA InfrastructureSends ==
  ASSUME ConsoleShape, NEW kind, NEW item, NEW to, kind \in TrialKinds \cup ReviewKinds,
         kind \in TrialKinds => item \in Insts, kind \in ReviewKinds => item \in Reqs,
         to \in Levels \cup {"-"}, kind = "limits" => to \in Levels,
         tab = "infrastructure", NEW c, c = Call(kind, item, to, "-")
  PROVE  NewCall(c)
<1>1. tenant \in Tenants
  BY DEF ConsoleShape
<1>2. kind \in Kinds /\ kind \notin {"none", "assignNew", "createRole"}
  BY DEF Kinds, TrialKinds, ReviewKinds
<1>3. item \in Items /\ to \in Flags \cup Levels \cup PermNames \cup {"-"}
  BY DEF Items
<1>4. /\ c \in CallType
      /\ c.kind = kind /\ c.item = item /\ c.to = to /\ c.basis = "-"
      /\ c.tenant = tenant /\ c.phase = "sent" /\ c.rest = {} /\ c.want = {}
  BY <1>1, <1>2, <1>3, CallFields
<1>5. Fits(c)
  BY <1>2, <1>4 DEF Fits
<1> QED
  BY <1>2, <1>4, <1>5 DEF NewCall

\* In the tab of plugins.
LEMMA PluginsSend ==
  ASSUME ConsoleShape, NEW kind \in PluginKinds, NEW item \in PluginIds,
         NEW to \in Flags \cup Levels \cup {"-"},
         NEW basis \in Flags \cup {"-", "stale"},
         kind \in {"config", "update"} => to \in Levels,
         kind \in {"toggle", "override"} => to \in Flags /\ to # basis,
         kind = "toggle" => tenant = NoItem, kind = "override" => tenant # NoItem,
         tab = "plugins", NEW c, c = Call(kind, item, to, basis)
  PROVE  NewCall(c)
<1>1. tenant \in Tenants
  BY DEF ConsoleShape
<1>2. kind \in Kinds /\ kind \notin {"none", "assignNew", "createRole"}
  BY DEF Kinds, PluginKinds
<1>3. item \in Items
  BY DEF Items
<1>4. /\ c \in CallType
      /\ c.kind = kind /\ c.item = item /\ c.to = to /\ c.basis = basis
      /\ c.tenant = tenant /\ c.phase = "sent" /\ c.rest = {} /\ c.want = {}
  BY <1>1, <1>2, <1>3, CallFields
<1>5. Fits(c)
  BY <1>2, <1>4 DEF Fits
<1> QED
  BY <1>2, <1>4, <1>5 DEF NewCall

\* In the tab of roles, but for the creation of a role.
LEMMA RbacSends ==
  ASSUME ConsoleShape, NEW kind, NEW item, NEW to, NEW basis,
         kind \in {"assign", "unassign", "editRole", "deleteRole"} \cup PermKinds,
         IF kind \in PermKinds THEN item = NoItem ELSE item \in RoleIds,
         to \in PermNames \cup {"-"}, basis \in Flags \cup {"-"},
         kind \in {"assign", "unassign"} \cup PermKinds => to \in PermNames,
         kind = "assign" => basis = "off", kind = "unassign" => basis = "on",
         tab = "rbac", NEW c, c = Call(kind, item, to, basis)
  PROVE  NewCall(c)
<1>1. tenant \in Tenants
  BY DEF ConsoleShape
<1>2. kind \in Kinds /\ kind \notin {"none", "assignNew", "createRole"}
  BY DEF Kinds, RoleKinds, GrantKinds, PermKinds
<1>3. item \in Items
  BY DEF Items
<1>4. /\ c \in CallType
      /\ c.kind = kind /\ c.item = item /\ c.to = to /\ c.basis = basis
      /\ c.tenant = tenant /\ c.phase = "sent" /\ c.rest = {} /\ c.want = {}
  BY <1>1, <1>2, <1>3, CallFields
<1>5. Fits(c)
  BY <1>2, <1>4 DEF Fits, RoleKinds, GrantKinds, PermKinds
<1> QED
  BY <1>2, <1>4, <1>5 DEF NewCall

\* A role is created with permissions of the list on the page.
LEMMA CreationSends ==
  ASSUME ConsoleShape, tab = "rbac", HandleCreateRole
  PROVE  \E c : NewCall(c) /\ Send(c)
<1>0. tenant \in Tenants
  BY DEF ConsoleShape
<1>1. PICK r \in RoleIds, ps \in SUBSET view.perms :
        Send([Call("createRole", r, "-", "-") EXCEPT !.rest = ps, !.want = ps])
  BY DEF HandleCreateRole
<1>2. PICK b : b = Call("createRole", r, "-", "-")
  OBVIOUS
<1>3. /\ b \in CallType
      /\ b.kind = "createRole" /\ b.item = r /\ b.to = "-" /\ b.basis = "-"
      /\ b.tenant = tenant /\ b.phase = "sent" /\ b.rest = {} /\ b.want = {}
  <2>1. "createRole" \in Kinds /\ r \in Items
    BY DEF Kinds, RoleKinds, Items
  <2> QED
    BY <1>2, <2>1, <1>0, CallFields
<1>4. ps \subseteq PermNames
  <2>1. view["perms"] \in ListType("perms")
    BY DEF ConsoleShape, ViewOK, Lists
  <2> QED
    BY <2>1 DEF ListType
<1>5. PICK c : c = [b EXCEPT !.rest = ps, !.want = ps]
  OBVIOUS
<1>6. /\ c \in CallType /\ c.kind = "createRole" /\ c.item = r
      /\ c.phase = "sent" /\ c.rest = ps /\ c.want = ps
  BY <1>3, <1>4, <1>5 DEF CallType
<1>7. Fits(c)
  BY <1>6 DEF Fits, RoleKinds, GrantKinds
<1>8. NewCall(c)
  BY <1>6, <1>7 DEF NewCall
<1> QED
  BY <1>1, <1>2, <1>5, <1>8

-----------------------------------------------------------------------------
(***************************************************************************)
(* What the administrator does: a call is sent, a form opens or closes, or *)
(* everything is loaded for a tenant.                                      *)
(***************************************************************************)
Sends == \E c : NewCall(c) /\ Send(c)

FormStep ==
  /\ modal'.item \in Items /\ FormFits(modal'.form, modal'.item)
  /\ UNCHANGED <<tab, server, view, tenant, loads, calls, isSubmitting, isLoading,
                 isProbing, clicks, lag>>

Reloads ==
  \E t \in Tenants :
    /\ Click /\ tenant' = t /\ SendLoad(t)
    /\ UNCHANGED <<tab, server, view, calls, modal, isSubmitting, isProbing, lag>>

LEMMA FormOpens ==
  ASSUME NEW form, NEW item \in Items, NEW perms, OpenForm(form, item, perms),
         FormFits(form, item)
  PROVE  FormStep
  BY DEF OpenForm, FormStep

LEMMA InfrastructureSteps ==
  ASSUME ConsoleShape, InfrastructureTab
  PROVE  Sends \/ FormStep
<1> USE DEF Sends
<1>0. \A i \in Insts \cup Reqs \cup {NoItem} : i \in Items
  BY DEF Items
<1>1. ASSUME NEW i \in Insts, HandleToggleTrial(i) PROVE Sends
  <2>1. PICK k \in {"pause", "resume", "delete"} : Send(Call(k, i, "-", "-"))
    BY <1>1 DEF HandleToggleTrial
  <2>2. PICK c : c = Call(k, i, "-", "-")
    OBVIOUS
  <2>3. NewCall(c)
    <3>1. k \in TrialKinds /\ k \notin ReviewKinds /\ k # "limits"
      BY DEF TrialKinds, ReviewKinds
    <3>2. tab = "infrastructure"
      BY <1>1 DEF HandleToggleTrial, TrialRow, OnPage
    <3> QED
      BY <2>2, <3>1, <3>2, InfrastructureSends
  <2> QED
    BY <2>1, <2>2, <2>3
<1>2. ASSUME NEW i \in Insts, TrialRow(i), OpenForm("editTrial", i, {}) PROVE FormStep
  BY <1>0, <1>2, FormOpens DEF FormFits, TrialRow, OnPage
<1>3. ASSUME OnPage("infrastructure"), OpenForm("onboard", NoItem, {}) PROVE FormStep
  BY <1>0, <1>3, FormOpens DEF FormFits, OnPage
<1>4. ASSUME NEW r \in Reqs, PendingRow(r), OpenForm("rejectRequest", r, {}) PROVE FormStep
  BY <1>0, <1>4, FormOpens DEF FormFits, PendingRow, OnPage
<1>5. ASSUME HandleOnboardTrial PROVE Sends
  <2>1. PICK i \in Insts : Send(Call("onboard", i, "-", "-"))
    BY <1>5 DEF HandleOnboardTrial
  <2>2. PICK c : c = Call("onboard", i, "-", "-")
    OBVIOUS
  <2>3. NewCall(c)
    <3>1. "onboard" \in TrialKinds /\ "onboard" \notin ReviewKinds
      BY DEF TrialKinds, ReviewKinds
    <3>2. tab = "infrastructure"
      BY <1>5 DEF HandleOnboardTrial, OnboardForm, InForm, ConsoleShape, FormFits
    <3> QED
      BY <2>2, <3>1, <3>2, InfrastructureSends
  <2> QED
    BY <2>1, <2>2, <2>3
<1>6. ASSUME HandleSaveEdit PROVE Sends
  <2>1. PICK k \in {"extend", "limits"}, v \in Levels \cup {"-"} :
          Send(Call(k, modal.item, v, "-")) /\ (k = "limits" => v \in Levels)
    BY <1>6 DEF HandleSaveEdit, Levels
  <2>2. PICK c : c = Call(k, modal.item, v, "-")
    OBVIOUS
  <2>3. NewCall(c)
    <3>1. k \in TrialKinds /\ k \notin ReviewKinds
      BY DEF TrialKinds, ReviewKinds
    <3>2. tab = "infrastructure" /\ modal.item \in Insts
      BY <1>6 DEF HandleSaveEdit, EditTrialForm, InForm, ConsoleShape, FormFits
    <3> QED
      BY <2>1, <2>2, <3>1, <3>2, InfrastructureSends
  <2> QED
    BY <2>1, <2>2, <2>3
<1>7. ASSUME HandleReviewInstitution PROVE Sends
  <2>1. PICK k \in ReviewKinds, r \in Reqs :
          Send(Call(k, r, "-", "-")) /\ tab = "infrastructure"
    <3>1. InForm("rejectRequest") => modal.item \in Reqs /\ tab = "infrastructure"
      BY DEF InForm, ConsoleShape, FormFits
    <3> QED
      BY <1>7, <3>1 DEF HandleReviewInstitution, PendingRow, OnPage, ReviewKinds
  <2>2. PICK c : c = Call(k, r, "-", "-")
    OBVIOUS
  <2>3. NewCall(c)
    <3>1. k \notin TrialKinds /\ k # "limits"
      BY DEF TrialKinds, ReviewKinds
    <3> QED
      BY <2>1, <2>2, <3>1, InfrastructureSends
  <2> QED
    BY <2>1, <2>2, <2>3
<1> QED
  BY <1>1, <1>2, <1>3, <1>4, <1>5, <1>6, <1>7, Zenon DEF InfrastructureTab

LEMMA PluginsSteps ==
  ASSUME ConsoleShape, PluginsTab
  PROVE  Sends \/ FormStep \/ Reloads
<1> USE DEF Sends
<1>0. \A i \in PluginIds \cup {NoItem} : i \in Items
  BY DEF Items
<1>1. ASSUME NEW t \in Tenants, SelectTenant(t) PROVE Reloads
  BY <1>1 DEF SelectTenant, Reloads
<1>2. ASSUME NEW p \in PluginIds, HandleTogglePlugin(p) PROVE Sends
  <2>0. tab = "plugins"
    BY <1>2 DEF HandleTogglePlugin, PluginCard, OnPage
  <2>1. view["plugins"] \in [PluginIds -> CardType]
    BY DEF ConsoleShape, ViewOK, Lists, ListType
  <2>2. PICK e \in Flags : e = view.plugins[p].enabled
    BY <2>1 DEF CardType
  <2>3. PICK o \in Flags : o = Shown(p)
    BY <2>1, <2>2 DEF CardType, Shown
  <2>4. view.plugins[p].override = "unset" => o = e
    BY <2>2, <2>3 DEF Shown
  <2>5. \A v \in Flags : Opposite(v) \in Flags /\ Opposite(v) # v /\ Opposite(v) # "stale"
    BY DEF Opposite, Flags
  <2>6. PICK k \in {"toggle", "override"}, v \in Flags, b \in Flags \cup {"stale"} :
          /\ Send(Call(k, p, v, b)) /\ v # b
          /\ k = "toggle" => tenant = NoItem
          /\ k = "override" => tenant # NoItem
    <3>1. CASE tenant # NoItem
      <4>1. Send(Call("override", p, Opposite(o), o))
        BY <1>2, <2>3, <3>1 DEF HandleTogglePlugin
      <4> QED
        BY <2>5, <3>1, <4>1
    <3>2. CASE tenant = NoItem
      <4>1. PICK b \in {o, "stale"} : Send(Call("toggle", p, Opposite(e), b)) /\ b \in {e, "stale"}
        BY <1>2, <2>2, <2>3, <2>4, <3>2 DEF HandleTogglePlugin
      <4> QED
        BY <2>5, <3>2, <4>1
    <3> QED
      BY <3>1, <3>2
  <2>7. PICK c : c = Call(k, p, v, b)
    OBVIOUS
  <2>8. NewCall(c)
    <3>1. k \in PluginKinds /\ k \notin {"config", "update"}
      BY DEF PluginKinds
    <3> QED
      BY <2>0, <2>6, <2>7, <3>1, PluginsSend
  <2> QED
    BY <2>6, <2>7, <2>8
<1>3. ASSUME NEW p \in PluginIds, NEW k \in {"reset", "probe", "create", "remove"},
             tab = "plugins", Send(Call(k, p, "-", "-"))
      PROVE  Sends
  <2>1. PICK c : c = Call(k, p, "-", "-")
    OBVIOUS
  <2>2. k \in PluginKinds /\ k \notin {"config", "update", "toggle", "override"}
    BY DEF PluginKinds
  <2>3. NewCall(c)
    BY <1>3, <2>1, <2>2, PluginsSend
  <2> QED
    BY <1>3, <2>1, <2>3
<1>4. ASSUME NEW p \in PluginIds, NEW k \in {"config", "update"}, NEW v \in Levels,
             tab = "plugins", Send(Call(k, p, v, "-"))
      PROVE  Sends
  <2>1. PICK c : c = Call(k, p, v, "-")
    OBVIOUS
  <2>2. k \in PluginKinds /\ k \notin {"toggle", "override"}
    BY DEF PluginKinds
  <2>3. NewCall(c)
    BY <1>4, <2>1, <2>2, PluginsSend
  <2> QED
    BY <1>4, <2>1, <2>3
<1>5. ASSUME NEW p \in PluginIds, HandleResetCircuit(p) \/ HandleProbePlugin(p) PROVE Sends
  BY <1>3, <1>5 DEF HandleResetCircuit, HandleProbePlugin, PluginCard, OnPage
<1>6. ASSUME NEW p \in PluginIds,
             OpenPluginConfig(p) \/ OpenCustomPluginEdit(p) \/ OpenDelete(p)
      PROVE  FormStep
  <2>1. PICK f \in {"config", "editPlugin", "deletePlugin"} : OpenForm(f, p, {})
    BY <1>6 DEF OpenPluginConfig, OpenCustomPluginEdit, OpenDelete
  <2>2. tab = "plugins"
    BY <1>6 DEF OpenPluginConfig, OpenCustomPluginEdit, OpenDelete, CustomPlugin,
                PluginCard, OnPage
  <2> QED
    BY <1>0, <2>1, <2>2, FormOpens DEF FormFits
<1>7. ASSUME OnPage("plugins"), OpenForm("createPlugin", NoItem, {}) PROVE FormStep
  BY <1>0, <1>7, FormOpens DEF FormFits, OnPage
<1>8. modal.form \in {"config", "editPlugin", "deletePlugin"} =>
        tab = "plugins" /\ modal.item \in PluginIds
  BY DEF ConsoleShape, FormFits
<1>9. ASSUME HandleSavePluginConfig \/ HandleSaveCustomPlugin PROVE Sends
  <2>1. PICK k \in {"config", "update"}, v \in Levels : Send(Call(k, modal.item, v, "-"))
    BY <1>9 DEF HandleSavePluginConfig, HandleSaveCustomPlugin, Levels
  <2>2. tab = "plugins" /\ modal.item \in PluginIds
    BY <1>8, <1>9 DEF HandleSavePluginConfig, HandleSaveCustomPlugin, EditPluginForm, InForm
  <2> QED
    BY <1>4, <2>1, <2>2
<1>10. ASSUME HandleCreatePlugin PROVE Sends
  <2>1. tab = "plugins"
    BY <1>10 DEF HandleCreatePlugin, CreatePluginForm, InForm, ConsoleShape, FormFits
  <2> QED
    BY <1>3, <1>10, <2>1 DEF HandleCreatePlugin
<1>11. ASSUME HandleConfirmDeletePlugin PROVE Sends
  <2>1. tab = "plugins" /\ modal.item \in PluginIds
    BY <1>8, <1>11 DEF HandleConfirmDeletePlugin, InForm
  <2> QED
    BY <1>3, <1>11, <2>1 DEF HandleConfirmDeletePlugin
<1> QED
  BY <1>1, <1>2, <1>5, <1>6, <1>7, <1>9, <1>10, <1>11, Zenon DEF PluginsTab

LEMMA RbacSteps ==
  ASSUME ConsoleShape, RbacTab
  PROVE  Sends \/ FormStep
<1> USE DEF Sends
<1>0. \A i \in RoleIds \cup {NoItem} : i \in Items
  BY DEF Items
<1>1. modal.form \in {"managePerms", "editRole"} => tab = "rbac" /\ modal.item \in RoleIds
  BY DEF ConsoleShape, FormFits
<1>2. ASSUME NEW k \in {"assign", "unassign"}, NEW r \in RoleIds, NEW p \in PermNames,
             tab = "rbac", Send(Call(k, r, p, IF k = "assign" THEN "off" ELSE "on"))
      PROVE  Sends
  <2>1. PICK b \in Flags : b = IF k = "assign" THEN "off" ELSE "on"
    BY DEF Flags
  <2>2. PICK c : c = Call(k, r, p, b)
    OBVIOUS
  <2>3. k \notin PermKinds
    BY DEF PermKinds
  <2>4. NewCall(c)
    BY <1>2, <2>1, <2>2, <2>3, RbacSends
  <2> QED
    BY <1>2, <2>1, <2>2, <2>4
<1>3. ASSUME NEW p \in PermNames, HandleToggleRolePermission(p) PROVE Sends
  <2>1. tab = "rbac" /\ modal.item \in RoleIds
    BY <1>1, <1>3 DEF HandleToggleRolePermission, InForm
  <2> QED
    BY <1>2, <1>3, <2>1 DEF HandleToggleRolePermission
<1>4. ASSUME NEW k \in {"editRole", "deleteRole"}, NEW r \in RoleIds, tab = "rbac",
             Send(Call(k, r, "-", "-"))
      PROVE  Sends
  <2>1. PICK c : c = Call(k, r, "-", "-")
    OBVIOUS
  <2>2. k \notin PermKinds
    BY DEF PermKinds
  <2>3. NewCall(c)
    BY <1>4, <2>1, <2>2, RbacSends
  <2> QED
    BY <1>4, <2>1, <2>3
<1>5. ASSUME NEW k \in PermKinds, NEW p \in PermNames, tab = "rbac",
             Send(Call(k, NoItem, p, "-"))
      PROVE  Sends
  <2>1. PICK c : c = Call(k, NoItem, p, "-")
    OBVIOUS
  <2>2. k \notin {"assign", "unassign"}
    BY DEF PermKinds
  <2>3. NewCall(c)
    BY <1>5, <2>1, <2>2, RbacSends
  <2> QED
    BY <1>5, <2>1, <2>3
<1>6. ASSUME NEW r \in RoleIds, ManagePermissions(r) PROVE FormStep
  BY <1>0, <1>6, FormOpens DEF ManagePermissions, RoleRow, OnPage, FormFits
<1>7. ASSUME NEW r \in RoleIds, HandleDeleteRole(r) PROVE Sends
  BY <1>4, <1>7 DEF HandleDeleteRole, RoleRow, OnPage
<1>8. ASSUME NEW r \in RoleIds, RoleRow(r), OpenForm("editRole", r, {}) PROVE FormStep
  BY <1>0, <1>8, FormOpens DEF RoleRow, OnPage, FormFits
<1>9. ASSUME OnPage("rbac"),
             OpenForm("createRole", NoItem, {}) \/ OpenForm("createPerm", NoItem, {})
      PROVE  FormStep
  BY <1>0, <1>9, FormOpens DEF OnPage, FormFits
<1>10. ASSUME NEW p \in PermNames, HandleDeleteCustomPermission(p) PROVE Sends
  BY <1>5, <1>10 DEF HandleDeleteCustomPermission, OnPage, PermKinds
<1>11. ASSUME HandleCreateRole PROVE Sends
  <2>1. tab = "rbac"
    BY <1>11 DEF HandleCreateRole, CreateRoleForm, InForm, ConsoleShape, FormFits
  <2> QED
    BY <1>11, <2>1, CreationSends
<1>12. ASSUME HandleSaveRoleEdit PROVE Sends
  <2>1. tab = "rbac" /\ modal.item \in RoleIds
    BY <1>1, <1>12 DEF HandleSaveRoleEdit, EditRoleForm, InForm
  <2> QED
    BY <1>4, <1>12, <2>1 DEF HandleSaveRoleEdit
<1>13. ASSUME HandleCreateCustomPermission PROVE Sends
  <2>1. tab = "rbac"
    BY <1>13 DEF HandleCreateCustomPermission, CreatePermForm, InForm, ConsoleShape, FormFits
  <2> QED
    BY <1>5, <1>13, <2>1 DEF HandleCreateCustomPermission, PermKinds
<1> QED
  BY <1>3, <1>6, <1>7, <1>8, <1>9, <1>10, <1>11, <1>12, <1>13, Zenon DEF RbacTab

\* What comes from elsewhere: a call the page does not wait for.
Elsewhere == \E c : c \in CallType /\ Formed(c) /\ ExecuteUnseen(c)

LEMMA UnseenFields ==
  ASSUME NEW kind \in Kinds, NEW item \in Items, NEW c, NEW t \in Tenants,
         NEW to \in Flags \cup Levels \cup PermNames \cup {"-"},
         c = Unseen(kind, item, to, t)
  PROVE  /\ c \in CallType
         /\ c.kind = kind /\ c.item = item /\ c.to = to /\ c.tenant = t
  BY DEF Unseen, NoCall, CallType

\* A well formed call of another administrator, or one given up.
LEMMA UnseenSends ==
  ASSUME NEW kind \in Kinds, NEW item \in Items, NEW t \in Tenants,
         NEW to \in Flags \cup Levels \cup PermNames \cup {"-"},
         ExecuteUnseen(Unseen(kind, item, to, t)),
         \/ tab = "infrastructure" /\ kind \in TrialKinds /\ item \in Insts
              /\ (kind = "limits" => to \in Levels)
         \/ tab = "infrastructure" /\ kind \in ReviewKinds /\ item \in Reqs
         \/ /\ tab = "plugins" /\ kind \in PluginKinds /\ item \in PluginIds
            /\ kind \in {"config", "update"} => to \in Levels
            /\ kind \in {"toggle", "override"} => to \in Flags
            /\ kind = "override" => t # NoItem
         \/ /\ tab = "rbac" /\ kind \in RoleKinds /\ item \in RoleIds
            /\ kind \in GrantKinds => to \in PermNames
         \/ tab = "rbac" /\ kind \in PermKinds /\ to \in PermNames
  PROVE  Elsewhere
<1>1. PICK c : c = Unseen(kind, item, to, t)
  OBVIOUS
<1>2. c \in CallType /\ c.kind = kind /\ c.item = item /\ c.to = to /\ c.tenant = t
  BY <1>1, UnseenFields
<1>3. Formed(c)
  BY <1>2 DEF Formed
<1> QED
  BY <1>1, <1>2, <1>3, Zenon DEF Elsewhere

LEMMA UnseenSteps ==
  ASSUME UnseenCall
  PROVE  Elsewhere
<1>0. /\ NoItem \in Tenants /\ \A i \in Insts : i \in Tenants
      /\ \A i \in Insts \cup Reqs \cup PluginIds \cup RoleIds \cup {NoItem} : i \in Items
  BY DEF Tenants, Items
<1>1. ASSUME UnseenTrialCall PROVE Elsewhere
  <2>0. tab = "infrastructure"
    BY <1>1 DEF UnseenTrialCall
  <2>1. ASSUME NEW i \in Insts, NEW k \in TrialKinds \ {"limits"},
               ExecuteUnseen(Unseen(k, i, "-", NoItem))
        PROVE  Elsewhere
    <3>1. k \in Kinds /\ k # "limits"
      BY DEF Kinds
    <3> QED
      BY <1>0, <2>0, <2>1, <3>1, UnseenSends
  <2>2. ASSUME NEW i \in Insts, NEW v \in Levels, ExecuteUnseen(Unseen("limits", i, v, NoItem))
        PROVE  Elsewhere
    <3>1. "limits" \in Kinds /\ "limits" \in TrialKinds
      BY DEF Kinds, TrialKinds
    <3> QED
      BY <1>0, <2>0, <2>2, <3>1, UnseenSends
  <2>3. ASSUME NEW q \in Reqs, NEW k \in ReviewKinds, ExecuteUnseen(Unseen(k, q, "-", NoItem))
        PROVE  Elsewhere
    <3>1. k \in Kinds
      BY DEF Kinds
    <3> QED
      BY <1>0, <2>0, <2>3, <3>1, UnseenSends
  <2> QED
    BY <1>1, <2>1, <2>2, <2>3 DEF UnseenTrialCall, TrialKinds, ReviewKinds, Levels
<1>2. ASSUME UnseenPluginCall PROVE Elsewhere
  <2>0. tab = "plugins"
    BY <1>2 DEF UnseenPluginCall
  <2>1. ASSUME NEW p \in PluginIds, NEW v \in Flags, ExecuteUnseen(Unseen("toggle", p, v, NoItem))
        PROVE  Elsewhere
    <3>1. "toggle" \in Kinds /\ "toggle" \in PluginKinds
      BY DEF Kinds, PluginKinds
    <3> QED
      BY <1>0, <2>0, <2>1, <3>1, UnseenSends
  <2>2. ASSUME NEW p \in PluginIds, NEW v \in Flags, NEW t \in Insts, t # NoItem,
               ExecuteUnseen(Unseen("override", p, v, t))
        PROVE  Elsewhere
    <3>1. "override" \in Kinds /\ "override" \in PluginKinds
      BY DEF Kinds, PluginKinds
    <3> QED
      BY <1>0, <2>0, <2>2, <3>1, UnseenSends
  <2>3. ASSUME NEW p \in PluginIds, NEW v \in Levels, NEW k \in {"config", "update"},
               ExecuteUnseen(Unseen(k, p, v, NoItem))
        PROVE  Elsewhere
    <3>1. k \in Kinds /\ k \in PluginKinds
      BY DEF Kinds, PluginKinds
    <3> QED
      BY <1>0, <2>0, <2>3, <3>1, UnseenSends
  <2>4. ASSUME NEW p \in PluginIds, NEW k \in {"create", "remove"},
               ExecuteUnseen(Unseen(k, p, "-", NoItem))
        PROVE  Elsewhere
    <3>1. k \in Kinds /\ k \in PluginKinds
      BY DEF Kinds, PluginKinds
    <3> QED
      BY <1>0, <2>0, <2>4, <3>1, UnseenSends
  <2> QED
    BY <1>2, <2>1, <2>2, <2>3, <2>4, ConsoleAssumption DEF UnseenPluginCall, Flags, Levels
<1>3. ASSUME UnseenRoleCall PROVE Elsewhere
  <2>0. tab = "rbac"
    BY <1>3 DEF UnseenRoleCall
  <2>1. ASSUME NEW q \in RoleIds, NEW k \in {"createRole", "deleteRole"},
               ExecuteUnseen(Unseen(k, q, "-", NoItem))
        PROVE  Elsewhere
    <3>1. k \in Kinds /\ k \in RoleKinds /\ k \notin GrantKinds
      BY DEF Kinds, RoleKinds, GrantKinds
    <3> QED
      BY <1>0, <2>0, <2>1, <3>1, UnseenSends
  <2>2. ASSUME NEW q \in RoleIds, NEW p \in PermNames, NEW k \in {"assign", "unassign"},
               ExecuteUnseen(Unseen(k, q, p, NoItem))
        PROVE  Elsewhere
    <3>1. k \in Kinds /\ k \in RoleKinds
      BY DEF Kinds, RoleKinds, GrantKinds
    <3> QED
      BY <1>0, <2>0, <2>2, <3>1, UnseenSends
  <2>3. ASSUME NEW p \in PermNames, NEW k \in PermKinds,
               ExecuteUnseen(Unseen(k, NoItem, p, NoItem))
        PROVE  Elsewhere
    <3>1. k \in Kinds
      BY DEF Kinds
    <3> QED
      BY <1>0, <2>0, <2>3, <3>1, UnseenSends
  <2> QED
    BY <1>3, <2>1, <2>2, <2>3 DEF UnseenRoleCall, PermKinds
<1> QED
  BY <1>1, <1>2, <1>3 DEF UnseenCall

\* Every step of the console is of one of these kinds.
LEMMA ConsoleCases ==
  ASSUME ConsoleShape, [ConsoleNext]_consoleVars
  PROVE  \/ Sends \/ FormStep \/ Reloads \/ UNCHANGED consoleVars
         \/ \E k \in 1 .. Len(loads) :
              \/ LoadArrives(k)
              \/ \E l \in TabLists(tab) : ListAnswered(k, l) \/ ListFails(k, l)
         \/ \E s \in Slots :
              \/ Execute(s) \/ RefuseCall(s) \/ Finish(s) \/ ProbeOk(s) \/ CallFails(s)
              \/ AssignNext(s)
         \/ Elsewhere \/ \E i \in Insts : TrialExpires(i)
<1>1. ASSUME Refresh PROVE Reloads
  BY <1>1 DEF Refresh, Reloads, ConsoleShape
<1>2. ASSUME Cancel PROVE FormStep
  <2>1. NoItem \in Items
    BY DEF Items
  <2> QED
    BY <1>2, <2>1 DEF Cancel, FormStep, NoModal, FormFits
<1>3. ASSUME LoadStep
      PROVE  \E k \in 1 .. Len(loads) :
               \/ LoadArrives(k)
               \/ \E l \in TabLists(tab) : ListAnswered(k, l) \/ ListFails(k, l)
  <2>1. DOMAIN loads = 1 .. Len(loads)
    BY DEF ConsoleShape, LoadsOK
  <2> QED
    BY <1>3, <2>1, Zenon DEF LoadStep
<1>4. ASSUME NEW s \in Slots, Gateway(s) \/ Answered(s)
      PROVE  \/ Execute(s) \/ RefuseCall(s) \/ Finish(s) \/ ProbeOk(s) \/ CallFails(s)
             \/ AssignNext(s)
  BY <1>4, Zenon DEF Gateway, Answered, CallOk, CreateRoleDone
<1> QED
  BY <1>1, <1>2, <1>3, <1>4, InfrastructureSteps, PluginsSteps, RbacSteps, UnseenSteps, Zenon
     DEF ConsoleNext

-----------------------------------------------------------------------------
(***************************************************************************)
(* Calls.                                                                  *)
(***************************************************************************)
\* One slot takes a new value.
Puts(s, c) ==
  /\ calls' \in [Slots -> CallType]
  /\ calls'[s] = c /\ \A x \in Slots : x # s => calls'[x] = calls[x]

LEMMA PutCall ==
  ASSUME CallsOK, NEW s \in Slots, NEW c \in CallType, calls' = [calls EXCEPT ![s] = c]
  PROVE  Puts(s, c)
  BY DEF CallsOK, Puts

LEMMA NoCallFields ==
  /\ NoCall \in CallType /\ NoCall.kind = "none" /\ NoCall.phase = "-"
  /\ NoCall.rest = NoCall.want
  BY DEF NoCall, CallType, Items, Tenants

\* A call differs from another only in how far it got.
Advances(d, c) ==
  /\ d.item = c.item /\ d.to = c.to /\ d.tenant = c.tenant /\ d.basis = c.basis
  /\ d.rest = c.rest /\ d.want = c.want /\ d.kind = c.kind

LEMMA AdvancesFits ==
  ASSUME NEW c, NEW d, Advances(d, c), Fits(c)
  PROVE  Fits(d)
  BY DEF Advances, Fits

\* The slot of a call that ended is free again.
LEMMA EndedCalls ==
  ASSUME CallsOK, NEW s \in Slots, calls' = [calls EXCEPT ![s] = NoCall]
  PROVE  Puts(s, NoCall)
  BY NoCallFields, PutCall

LEMMA SentCalls ==
  ASSUME CallsOK, NEW c, NewCall(c), Send(c)
  PROVE  \E s \in Slots : calls[s] = NoCall /\ Puts(s, c)
<1>1. PICK s \in Slots : calls[s] = NoCall /\ calls' = [calls EXCEPT ![s] = c]
  BY DEF Send
<1> QED
  BY <1>1, PutCall DEF NewCall

LEMMA RefusedCalls ==
  ASSUME CallsOK, NEW s \in Slots, RefuseCall(s)
  PROVE  \E c \in CallType : Puts(s, c) /\ Advances(c, calls[s]) /\ c.clean = calls[s].clean
                             /\ calls[s].phase = "sent" /\ c.phase = "refused"
<1>1. calls[s] \in CallType
  BY DEF CallsOK
<1>2. PICK c : c = [calls[s] EXCEPT !.phase = "refused"]
  OBVIOUS
<1>3. /\ c \in CallType /\ c.phase = "refused" /\ Advances(c, calls[s])
      /\ c.clean = calls[s].clean
  BY <1>1, <1>2 DEF CallType, Advances
<1>4. calls' = [calls EXCEPT ![s] = c]
  BY <1>1, <1>2 DEF RefuseCall, CallsOK
<1>5. Puts(s, c)
  BY <1>3, <1>4, PutCall
<1> QED
  BY <1>3, <1>5 DEF RefuseCall

\* The next permission of the new role is assigned.
Proceeds(c, d) ==
  /\ d \in CallType /\ Creating(c) /\ d.kind = "assignNew" /\ d.phase = "sent"
  /\ d.to \in c.rest /\ d.rest = c.rest \ {d.to}
  /\ d.item = c.item /\ d.want = c.want /\ d.tenant = c.tenant
  /\ c.phase = "executed" \/ c.kind = "assignNew"
  /\ d.clean => c.clean /\ c.phase = "executed"

LEMMA AssignedCalls ==
  ASSUME CallsOK, NEW s \in Slots, AssignNext(s)
  PROVE  \E d : Puts(s, d) /\ Proceeds(calls[s], d)
<1>1. calls[s] \in CallType
  BY DEF CallsOK
<1>2. PICK p \in calls[s].rest :
        calls' = [calls EXCEPT ![s] =
          [calls[s] EXCEPT !.kind = "assignNew", !.to = p, !.rest = calls[s].rest \ {p},
             !.phase = "sent", !.clean = calls[s].clean /\ calls[s].phase = "executed"]]
  BY DEF AssignNext
<1>3. PICK b \in BOOLEAN : b = (calls[s].clean /\ calls[s].phase = "executed")
  OBVIOUS
<1>4. PICK d :
        d = [calls[s] EXCEPT !.kind = "assignNew", !.to = p, !.rest = calls[s].rest \ {p},
               !.phase = "sent", !.clean = b]
  OBVIOUS
<1>5. calls' = [calls EXCEPT ![s] = d]
  BY <1>2, <1>3, <1>4, Zenon
<1>6. p \in PermNames
  BY <1>1 DEF CallType
<1>7. /\ d \in CallType /\ d.kind = "assignNew" /\ d.phase = "sent" /\ d.to = p
      /\ d.rest = calls[s].rest \ {p} /\ d.item = calls[s].item
      /\ d.want = calls[s].want /\ d.tenant = calls[s].tenant /\ d.clean = b
  BY <1>1, <1>4, <1>6 DEF CallType, Kinds, RoleKinds, GrantKinds
<1>8. Puts(s, d)
  BY <1>5, <1>7, PutCall
<1>9. d.clean => calls[s].clean /\ calls[s].phase = "executed"
  BY <1>3, <1>7, Zenon
<1> QED
  BY <1>7, <1>8, <1>9 DEF Proceeds, AssignNext

\* The gateway carries out a call; a creation it disturbs is no longer clean.
Carried(s) ==
  /\ calls' \in [Slots -> CallType]
  /\ \A x \in Slots : Advances(calls'[x], calls[x])
  /\ calls[s].phase = "sent" /\ calls'[s].phase = "executed"
  /\ calls'[s].clean = calls[s].clean
  /\ \A x \in Slots : x # s =>
       /\ calls'[x].phase = calls[x].phase
       /\ calls'[x].clean => calls[x].clean
       /\ calls'[x].clean /\ Creating(calls[x]) =>
            calls[s].item # calls[x].item /\ calls[s].kind # "deletePerm"

\* A call the page does not wait for is carried out: the same, in every slot.
Faded(c) ==
  /\ calls' \in [Slots -> CallType]
  /\ \A x \in Slots :
       /\ Advances(calls'[x], calls[x]) /\ calls'[x].phase = calls[x].phase
       /\ calls'[x].clean => calls[x].clean
       /\ calls'[x].clean /\ Creating(calls[x]) =>
            c.item # calls[x].item /\ c.kind # "deletePerm"

LEMMA TouchedCall ==
  ASSUME NEW c, NEW o \in CallType, NEW d, d = Touched(c, o)
  PROVE  /\ d \in CallType /\ Advances(d, o) /\ d.phase = o.phase
         /\ d.clean => o.clean
         /\ d.clean /\ Creating(o) => c.item # o.item /\ c.kind # "deletePerm"
<1>1. PICK b \in BOOLEAN : b = (o.clean /\ ~Disturbs(c, o))
  OBVIOUS
<1>2. d = [o EXCEPT !.clean = b]
  BY <1>1, Zenon DEF Touched
<1>3. d \in CallType /\ Advances(d, o) /\ d.clean = b /\ d.phase = o.phase
  BY <1>2 DEF CallType, Advances
<1>4. b => o.clean /\ ~Disturbs(c, o)
  BY <1>1, Zenon
<1> QED
  BY <1>3, <1>4, Zenon DEF Disturbs

LEMMA ExecutedCalls ==
  ASSUME CallsOK, NEW s \in Slots, Execute(s)
  PROVE  Carried(s)
<1> DEFINE New(x) == IF x = s THEN [calls[s] EXCEPT !.phase = "executed"]
                     ELSE Touched(calls[s], calls[x])
<1>1. calls' = [x \in Slots |-> New(x)] /\ calls[s].phase = "sent"
  BY DEF Execute
<1>2. \A x \in Slots : calls[x] \in CallType
  BY DEF CallsOK
<1>3. New(s) \in CallType /\ Advances(New(s), calls[s]) /\ New(s).phase = "executed"
      /\ New(s).clean = calls[s].clean
  <2>1. PICK d : d = [calls[s] EXCEPT !.phase = "executed"]
    OBVIOUS
  <2>2. d \in CallType /\ Advances(d, calls[s]) /\ d.phase = "executed"
        /\ d.clean = calls[s].clean
    BY <1>2, <2>1 DEF CallType, Advances
  <2> QED
    BY <2>1, <2>2, Zenon
<1>4. ASSUME NEW x \in Slots, x # s
      PROVE  /\ New(x) \in CallType /\ Advances(New(x), calls[x])
             /\ New(x).phase = calls[x].phase
             /\ New(x).clean => calls[x].clean
             /\ New(x).clean /\ Creating(calls[x]) =>
                  calls[s].item # calls[x].item /\ calls[s].kind # "deletePerm"
  <2>1. PICK d : d = Touched(calls[s], calls[x])
    OBVIOUS
  <2>2. New(x) = d
    BY <1>4, <2>1, Zenon
  <2>3. /\ d \in CallType /\ Advances(d, calls[x]) /\ d.phase = calls[x].phase
        /\ d.clean => calls[x].clean
        /\ d.clean /\ Creating(calls[x]) =>
             calls[s].item # calls[x].item /\ calls[s].kind # "deletePerm"
    BY <1>2, <2>1, TouchedCall
  <2> QED
    BY <2>2, <2>3, Zenon
<1> HIDE DEF New
<1>5. \A x \in Slots : New(x) \in CallType
  BY <1>3, <1>4
<1>6. calls' \in [Slots -> CallType] /\ \A x \in Slots : calls'[x] = New(x)
  BY <1>1, <1>5
<1> QED
  BY <1>1, <1>3, <1>4, <1>6, Zenon DEF Carried

LEMMA UnseenCalls ==
  ASSUME CallsOK, NEW c, ExecuteUnseen(c)
  PROVE  Faded(c)
<1>1. calls' = [x \in Slots |-> Touched(c, calls[x])]
  BY DEF ExecuteUnseen
<1>2. \A x \in Slots : calls[x] \in CallType
  BY DEF CallsOK
<1>3. \A x \in Slots : Touched(c, calls[x]) \in CallType
  BY <1>2, TouchedCall
<1>4. calls' \in [Slots -> CallType] /\ \A x \in Slots : calls'[x] = Touched(c, calls[x])
  BY <1>1, <1>3
<1> QED
  BY <1>2, <1>4, TouchedCall DEF Faded

\* Every kind of step leaves the calls well formed.
LEMMA PutKeeps ==
  ASSUME CallsOK, NEW s \in Slots, NEW c, Puts(s, c), CallOK(c), tab' = tab
  PROVE  CallsOK'
<1>1. \A x \in Slots : CallOK(calls'[x])
  BY DEF CallsOK, Puts
<1>2. \A x \in Slots : CallOK(calls[x])'
  BY <1>1 DEF CallOK, Fits
<1> QED
  BY <1>2 DEF CallsOK, Puts

LEMMA SentKeeps ==
  ASSUME CallsOK, NEW c, NewCall(c), Send(c)
  PROVE  CallsOK'
<1>1. PICK s \in Slots : Puts(s, c)
  BY SentCalls
<1>2. CallOK(c)
  BY DEF NewCall, CallOK
<1> QED
  BY <1>1, <1>2, PutKeeps DEF Send

LEMMA EndedKeeps ==
  ASSUME CallsOK, NEW s \in Slots, calls' = [calls EXCEPT ![s] = NoCall], tab' = tab
  PROVE  CallsOK'
  BY EndedCalls, PutKeeps, NoCallFields DEF CallOK

LEMMA RefusedKeeps ==
  ASSUME CallsOK, NEW s \in Slots, RefuseCall(s)
  PROVE  CallsOK'
<1>1. PICK c \in CallType : Puts(s, c) /\ Advances(c, calls[s])
                            /\ calls[s].phase = "sent" /\ c.phase = "refused"
  BY RefusedCalls
<1>2. Fits(calls[s])
  BY <1>1 DEF CallsOK, CallOK
<1>3. Fits(c)
  BY <1>1, <1>2, AdvancesFits
<1>4. CallOK(c)
  BY <1>1, <1>3 DEF CallOK
<1> QED
  BY <1>1, <1>4, PutKeeps DEF RefuseCall

LEMMA AssignedKeeps ==
  ASSUME CallsOK, NEW s \in Slots, AssignNext(s)
  PROVE  CallsOK'
<1>1. PICK d : Puts(s, d) /\ Proceeds(calls[s], d)
  BY AssignedCalls
<1>2. calls[s] \in CallType /\ CallOK(calls[s])
  BY DEF CallsOK
<1>3. Fits(calls[s])
  BY <1>1, <1>2 DEF CallOK, Proceeds, Creating
<1>4. Fits(d)
  BY <1>1, <1>2, <1>3 DEF Fits, Proceeds, Creating, CallType, RoleKinds, GrantKinds,
     TrialKinds, ReviewKinds, PluginKinds, PermKinds
<1>5. CallOK(d)
  BY <1>1, <1>4 DEF CallOK, Proceeds
<1> QED
  BY <1>1, <1>5, PutKeeps DEF AssignNext

LEMMA ExecutedKeeps ==
  ASSUME CallsOK, NEW s \in Slots, Execute(s)
  PROVE  CallsOK'
<1>1. Carried(s)
  BY ExecutedCalls
<1>2. ASSUME NEW x \in Slots PROVE CallOK(calls'[x])
  <2>1. CallOK(calls[x]) /\ Advances(calls'[x], calls[x])
    BY <1>1 DEF CallsOK, Carried
  <2>2. calls'[x].phase = "-" <=> calls[x].phase = "-"
    BY <1>1 DEF Carried
  <2>3. CASE calls[x].phase = "-"
    BY <2>1, <2>2, <2>3 DEF CallOK, Advances
  <2>4. CASE calls[x].phase # "-"
    BY <2>1, <2>2, <2>4, AdvancesFits DEF CallOK
  <2> QED
    BY <2>3, <2>4
<1>3. tab' = tab
  BY DEF Execute
<1>4. \A x \in Slots : CallOK(calls[x])'
  BY <1>2, <1>3 DEF CallOK, Fits
<1> QED
  BY <1>1, <1>4 DEF CallsOK, Carried

LEMMA FadedKeeps ==
  ASSUME CallsOK, NEW c, Faded(c), tab' = tab
  PROVE  CallsOK'
<1>1. ASSUME NEW x \in Slots PROVE CallOK(calls'[x])
  <2>1. CallOK(calls[x]) /\ Advances(calls'[x], calls[x]) /\ calls'[x].phase = calls[x].phase
    BY DEF CallsOK, Faded
  <2>2. CASE calls[x].phase = "-"
    BY <2>1, <2>2 DEF CallOK, Advances
  <2>3. CASE calls[x].phase # "-"
    BY <2>1, <2>3, AdvancesFits DEF CallOK
  <2> QED
    BY <2>2, <2>3
<1>2. \A x \in Slots : CallOK(calls[x])'
  BY <1>1 DEF CallOK, Fits
<1> QED
  BY <1>2 DEF CallsOK, Faded

-----------------------------------------------------------------------------
(***************************************************************************)
(* What the gateway holds.                                                 *)
(***************************************************************************)
LEMMA SetTrial ==
  ASSUME NEW sv \in ServerType, NEW i \in Insts, NEW u \in TrialType, NEW n,
         n = [sv EXCEPT !.trials[i] = u]
  PROVE  n \in ServerType /\ n.roles = sv.roles /\ n.perms = sv.perms
  BY DEF ServerType

LEMMA TrialEffectKeeps ==
  ASSUME NEW c, server \in ServerType, c.item \in Insts, c.kind \in TrialKinds,
         c.kind = "limits" => c.to \in Levels, NEW n, n = TrialEffect(c)
  PROVE  n \in ServerType /\ n.roles = server.roles /\ n.perms = server.perms
<1>1. PICK t \in TrialType : t = server.trials[c.item]
  BY DEF ServerType
<1>2. \/ n = server
      \/ \E u \in TrialType : n = [server EXCEPT !.trials[c.item] = u]
  <2>1. /\ [status |-> "active", limit |-> "low"] \in TrialType
        /\ [t EXCEPT !.status = "paused"] \in TrialType
        /\ [t EXCEPT !.status = "active"] \in TrialType
        /\ [t EXCEPT !.status = "expired"] \in TrialType
        /\ [t EXCEPT !.status = "none"] \in TrialType
        /\ c.kind = "limits" => [t EXCEPT !.limit = c.to] \in TrialType
    BY <1>1 DEF TrialType, Levels
  <2>2. CASE c.kind = "onboard"
    BY <2>1, <2>2 DEF TrialEffect
  <2>3. CASE c.kind # "onboard" /\ server.trials[c.item].status = "none"
    BY <2>3 DEF TrialEffect
  <2>4. CASE c.kind # "onboard" /\ server.trials[c.item].status # "none"
    <3>1. CASE c.kind = "pause"
      BY <1>1, <2>1, <2>4, <3>1 DEF TrialEffect
    <3>2. CASE c.kind \in {"resume", "extend"}
      BY <1>1, <2>1, <2>4, <3>2 DEF TrialEffect
    <3>3. CASE c.kind = "limits"
      BY <1>1, <2>1, <2>4, <3>3 DEF TrialEffect
    <3>4. CASE c.kind = "delete"
      BY <1>1, <2>1, <2>4, <3>4 DEF TrialEffect
    <3> QED
      BY <2>4, <3>1, <3>2, <3>3, <3>4 DEF TrialKinds
  <2> QED
    BY <2>2, <2>3, <2>4
<1> QED
  BY <1>2, SetTrial

LEMMA ReviewEffectKeeps ==
  ASSUME NEW c, server \in ServerType, c.item \in Reqs, NEW n, n = ReviewEffect(c)
  PROVE  n \in ServerType /\ n.roles = server.roles /\ n.perms = server.perms
  BY DEF ReviewEffect, ServerType, ReviewType

\* What a call on a plugin may change of it.
PluginTurns(c, n) ==
  /\ n \in ServerType /\ n.roles = server.roles /\ n.perms = server.perms
  /\ c.kind \in {"toggle", "override"} =>
       n.plugins[c.item].exists = server.plugins[c.item].exists
  /\ c.kind = "toggle" => n.plugins[c.item].enabled = c.to
  /\ c.kind = "override" => /\ n.plugins[c.item].over[c.tenant] = c.to
                            /\ n.plugins[c.item].enabled = server.plugins[c.item].enabled
  /\ c.kind \in {"reset", "probe"} => n = server

LEMMA PluginEffectKeeps ==
  ASSUME NEW c, c \in CallType, server \in ServerType, tab = "plugins", Formed(c),
         NEW n, n = PluginEffect(c)
  PROVE  PluginTurns(c, n)
<1>1. PICK q \in PluginType : q = server.plugins[c.item]
  BY DEF ServerType, Formed
<1>2. /\ c.kind \in PluginKinds /\ c.item \in PluginIds
      /\ c.kind \in {"config", "update"} => c.to \in Levels
      /\ c.kind \in {"toggle", "override"} => c.to \in Flags
      /\ c.kind = "override" => c.tenant \in Insts
  BY DEF Formed, CallType, Tenants
<1>3. CASE c.kind = "toggle"
  <2>1. PICK u : u = [q EXCEPT !.enabled = c.to]
    OBVIOUS
  <2>2. u \in PluginType /\ u.enabled = c.to /\ u.exists = q.exists
    BY <1>2, <1>3, <2>1 DEF PluginType
  <2>3. n = [server EXCEPT !.plugins[c.item] = u]
    BY <1>1, <1>2, <1>3, <2>1 DEF PluginEffect
  <2>4. /\ n \in ServerType /\ n.roles = server.roles /\ n.perms = server.perms
        /\ n.plugins[c.item] = u
    BY <1>2, <2>2, <2>3 DEF ServerType
  <2> QED
    BY <1>1, <1>3, <2>2, <2>4 DEF PluginTurns
<1>4. CASE c.kind = "override"
  <2>1. PICK u : u = [q EXCEPT !.over[c.tenant] = c.to]
    OBVIOUS
  <2>2. /\ u \in PluginType /\ u.over[c.tenant] = c.to /\ u.exists = q.exists
        /\ u.enabled = q.enabled
    BY <1>2, <1>4, <2>1 DEF PluginType
  <2>3. n = [server EXCEPT !.plugins[c.item] = u]
    BY <1>1, <1>2, <1>4, <2>1 DEF PluginEffect
  <2>4. /\ n \in ServerType /\ n.roles = server.roles /\ n.perms = server.perms
        /\ n.plugins[c.item] = u
    BY <1>2, <2>2, <2>3 DEF ServerType
  <2> QED
    BY <1>1, <1>4, <2>2, <2>4 DEF PluginTurns
<1>5. CASE c.kind \in {"config", "update", "create", "remove"}
  <2>1. PICK u \in PluginType : n = [server EXCEPT !.plugins[c.item] = u]
    <3>1. CASE c.kind = "config"
      <4>1. PICK u : u = [q EXCEPT !.threshold = c.to]
        OBVIOUS
      <4>2. u \in PluginType
        BY <1>2, <3>1, <4>1 DEF PluginType
      <4>3. n = [server EXCEPT !.plugins[c.item] = u]
        BY <1>1, <1>2, <3>1, <4>1 DEF PluginEffect
      <4> QED
        BY <4>2, <4>3
    <3>4. CASE c.kind = "update"
      <4>1. PICK u : u = [q EXCEPT !.enabled = "off", !.threshold = c.to]
        OBVIOUS
      <4>2. u \in PluginType
        BY <1>2, <3>4, <4>1 DEF PluginType, Flags
      <4>3. n = [server EXCEPT !.plugins[c.item] = u]
        BY <1>1, <1>2, <3>4, <4>1 DEF PluginEffect
      <4> QED
        BY <4>2, <4>3
    <3>2. CASE c.kind = "create"
      <4>1. PICK u : u = [q EXCEPT !.exists = TRUE, !.enabled = "on", !.threshold = "low"]
        OBVIOUS
      <4>2. u \in PluginType
        BY <4>1 DEF PluginType, Flags, Levels
      <4>3. n = [server EXCEPT !.plugins[c.item] = u]
        BY <1>1, <1>2, <3>2, <4>1 DEF PluginEffect
      <4> QED
        BY <4>2, <4>3
    <3>3. CASE c.kind = "remove"
      <4>1. PICK u : u = [q EXCEPT !.exists = FALSE]
        OBVIOUS
      <4>2. u \in PluginType
        BY <4>1 DEF PluginType
      <4>3. n = [server EXCEPT !.plugins[c.item] = u]
        BY <1>1, <1>2, <3>3, <4>1 DEF PluginEffect
      <4> QED
        BY <4>2, <4>3
    <3> QED
      BY <1>5, <3>1, <3>2, <3>3, <3>4
  <2> QED
    BY <1>2, <1>5, <2>1 DEF PluginTurns, ServerType
<1>6. CASE c.kind \in {"reset", "probe"}
  <2>1. n = server
    BY <1>6 DEF PluginEffect
  <2> QED
    BY <1>6, <2>1 DEF PluginTurns
<1> QED
  BY <1>2, <1>3, <1>4, <1>5, <1>6 DEF PluginKinds

\* What a call on a role or a permission may change.
RoleTurns(c, n) ==
  /\ n \in ServerType /\ \A r \in RoleIds : n.roles[r].perms \subseteq n.perms
  /\ c.kind # "deletePerm" => \A r \in RoleIds : r # c.item => n.roles[r] = server.roles[r]
  /\ c.kind = "createRole" => n.roles[c.item].exists /\ n.roles[c.item].perms = {}
  /\ c.kind \in {"assign", "assignNew"} =>
       /\ n.roles[c.item].exists = server.roles[c.item].exists
       /\ n.roles[c.item].perms = server.roles[c.item].perms \cup {c.to}
  /\ c.kind = "unassign" =>
       n.roles[c.item].perms = server.roles[c.item].perms \ {c.to}

LEMMA RoleEffectKeeps ==
  ASSUME NEW c, c \in CallType, ServerOK, tab = "rbac", Formed(c), Acceptable(c),
         NEW n, n = RoleEffect(c)
  PROVE  RoleTurns(c, n)
<1>1. /\ c.kind \in RoleKinds \cup PermKinds
      /\ c.kind \in RoleKinds => c.item \in RoleIds
      /\ c.kind \in GrantKinds \cup PermKinds => c.to \in PermNames
  BY DEF Formed, RoleKinds, GrantKinds, PermKinds
<1>2. server \in ServerType /\ \A r \in RoleIds : server.roles[r].perms \subseteq server.perms
  BY DEF ServerOK
<1>3. server.roles \in [RoleIds -> RoleType] /\ server.perms \in SUBSET PermNames
  BY <1>2 DEF ServerType
<1>4. ASSUME NEW u \in RoleType, u.perms \subseteq server.perms, c.item \in RoleIds,
             n = [server EXCEPT !.roles[c.item] = u]
      PROVE  /\ n \in ServerType /\ n.roles[c.item] = u
             /\ \A r \in RoleIds : r # c.item => n.roles[r] = server.roles[r]
             /\ \A r \in RoleIds : n.roles[r].perms \subseteq n.perms
  <2>1. PICK f : f = [server.roles EXCEPT ![c.item] = u]
    OBVIOUS
  <2>2. /\ f \in [RoleIds -> RoleType] /\ f[c.item] = u
        /\ \A r \in RoleIds : r # c.item => f[r] = server.roles[r]
    BY <1>3, <1>4, <2>1
  <2>3. n \in ServerType /\ n.roles = f /\ n.perms = server.perms
    BY <1>2, <1>4, <2>1, <2>2 DEF ServerType
  <2>4. \A r \in RoleIds : f[r].perms \subseteq server.perms
    BY <1>2, <1>4, <2>2
  <2> QED
    BY <2>2, <2>3, <2>4
<1>5. CASE c.kind \in {"createRole", "deleteRole"}
  <2>1. PICK u : u = [exists |-> c.kind = "createRole", perms |-> {}]
    OBVIOUS
  <2>2. u \in RoleType /\ u.perms = {} /\ (c.kind = "createRole" => u.exists)
    BY <2>1 DEF RoleType
  <2>3. n = [server EXCEPT !.roles[c.item] = u]
    BY <1>5, <2>1 DEF RoleEffect
  <2>4. c.item \in RoleIds
    BY <1>1, <1>5 DEF RoleKinds
  <2> QED
    BY <1>4, <1>5, <2>2, <2>3, <2>4 DEF RoleTurns
<1>6. CASE c.kind \in {"assign", "assignNew"}
  <2>1. PICK q \in RoleType : q = server.roles[c.item] /\ c.item \in RoleIds
    BY <1>1, <1>3, <1>6 DEF RoleKinds, GrantKinds
  <2>2. PICK u : u = [q EXCEPT !.perms = q.perms \cup {c.to}]
    OBVIOUS
  <2>3. c.to \in server.perms
    BY <1>6 DEF Acceptable
  <2>4. u \in RoleType /\ u.perms = q.perms \cup {c.to} /\ u.exists = q.exists
    BY <1>3, <2>1, <2>2, <2>3 DEF RoleType
  <2>5. u.perms \subseteq server.perms
    BY <1>2, <2>1, <2>3, <2>4
  <2>6. n = [server EXCEPT !.roles[c.item] = u]
    BY <1>6, <2>1, <2>2 DEF RoleEffect
  <2> QED
    BY <1>4, <1>6, <2>1, <2>4, <2>5, <2>6 DEF RoleTurns
<1>7. CASE c.kind = "unassign"
  <2>1. PICK q \in RoleType : q = server.roles[c.item] /\ c.item \in RoleIds
    BY <1>1, <1>3, <1>7 DEF RoleKinds, GrantKinds
  <2>2. PICK u : u = [q EXCEPT !.perms = q.perms \ {c.to}]
    OBVIOUS
  <2>3. u \in RoleType /\ u.perms = q.perms \ {c.to}
    BY <2>1, <2>2 DEF RoleType
  <2>4. u.perms \subseteq server.perms
    BY <1>2, <2>1, <2>3
  <2>5. n = [server EXCEPT !.roles[c.item] = u]
    BY <1>7, <2>1, <2>2 DEF RoleEffect
  <2> QED
    BY <1>4, <1>7, <2>1, <2>3, <2>4, <2>5 DEF RoleTurns
<1>8. CASE c.kind = "createPerm"
  <2>1. n = [server EXCEPT !.perms = server.perms \cup {c.to}] /\ c.to \in PermNames
    BY <1>1, <1>8 DEF RoleEffect, PermKinds
  <2>2. n \in ServerType /\ n.roles = server.roles /\ n.perms = server.perms \cup {c.to}
    BY <1>2, <1>3, <2>1 DEF ServerType
  <2> QED
    BY <1>2, <1>8, <2>2 DEF RoleTurns
<1>9. CASE c.kind = "deletePerm"
  <2> DEFINE f == [r \in RoleIds |-> [server.roles[r] EXCEPT !.perms = server.roles[r].perms \ {c.to}]]
  <2>1. n = [server EXCEPT !.perms = server.perms \ {c.to}, !.roles = f]
    BY <1>9 DEF RoleEffect
  <2>2. ASSUME NEW r \in RoleIds
        PROVE  f[r] \in RoleType /\ f[r].perms = server.roles[r].perms \ {c.to}
    <3>1. server.roles[r] \in RoleType
      BY <1>3
    <3> QED
      BY <3>1 DEF RoleType
  <2>3. f \in [RoleIds -> RoleType]
    BY <2>2
  <2> HIDE DEF f
  <2>4. n \in ServerType /\ n.roles = f /\ n.perms = server.perms \ {c.to}
    BY <1>2, <1>3, <2>1, <2>3 DEF ServerType
  <2>5. \A r \in RoleIds : n.roles[r].perms \subseteq n.perms
    BY <1>2, <2>2, <2>4
  <2> QED
    BY <1>9, <2>4, <2>5 DEF RoleTurns
<1>10. CASE c.kind = "editRole"
  <2>1. n = server
    BY <1>10 DEF RoleEffect
  <2> QED
    BY <1>2, <1>10, <2>1 DEF RoleTurns
<1> QED
  BY <1>1, <1>5, <1>6, <1>7, <1>8, <1>9, <1>10 DEF RoleKinds, GrantKinds, PermKinds

\* The gateway carries out a call.
LEMMA EffectKeeps ==
  ASSUME ConsoleShape, NEW c \in CallType, Formed(c), Acceptable(c), server' = Effect(c)
  PROVE  /\ ServerOK'
         /\ tab = "plugins" => PluginTurns(c, server')
         /\ tab = "rbac" => RoleTurns(c, server')
<1>1. c \in CallType /\ Acceptable(c) /\ Formed(c)
  OBVIOUS
<1>2. server' = Effect(c)
  OBVIOUS
<1>3. ServerOK /\ server \in ServerType
  BY DEF ConsoleShape, ServerOK
<1>4. tab \in {"infrastructure", "plugins", "rbac"}
  BY ConsoleAssumption DEF ConsoleShape
<1>5. ASSUME server' \in ServerType, server'.roles = server.roles, server'.perms = server.perms
      PROVE  ServerOK'
  BY <1>3, <1>5 DEF ServerOK
<1>6. CASE tab = "infrastructure"
  <2>1. CASE c.kind \in ReviewKinds
    <3>1. server' = ReviewEffect(c)
      BY <1>2, <1>6, <2>1 DEF Effect, ReviewKinds
    <3>2. c.item \in Reqs
      BY <1>1, <1>6, <2>1 DEF Formed, ReviewKinds, TrialKinds
    <3> QED
      BY <1>1, <1>3, <1>5, <1>6, <3>1, <3>2, ReviewEffectKeeps
  <2>2. CASE c.kind \notin ReviewKinds
    <3>1. server' = TrialEffect(c)
      BY <1>2, <1>6, <2>2 DEF Effect, ReviewKinds
    <3>2. c.kind \in TrialKinds /\ c.item \in Insts /\ (c.kind = "limits" => c.to \in Levels)
      BY <1>1, <1>6, <2>2 DEF Formed
    <3> QED
      BY <1>1, <1>3, <1>5, <1>6, <3>1, <3>2, TrialEffectKeeps
  <2> QED
    BY <2>1, <2>2
<1>7. CASE tab = "plugins"
  <2>1. server' = PluginEffect(c)
    BY <1>2, <1>7 DEF Effect
  <2>2. PluginTurns(c, server')
    BY <1>1, <1>3, <1>7, <2>1, PluginEffectKeeps
  <2> QED
    BY <1>1, <1>5, <1>7, <2>2 DEF PluginTurns
<1>8. CASE tab = "rbac"
  <2>1. server' = RoleEffect(c)
    BY <1>2, <1>8 DEF Effect
  <2>2. RoleTurns(c, server')
    BY <1>1, <1>3, <1>8, <2>1, RoleEffectKeeps
  <2>3. ServerOK'
    BY <2>2 DEF ServerOK, RoleTurns
  <2> QED
    BY <1>1, <1>8, <2>2, <2>3
<1> QED
  BY <1>4, <1>6, <1>7, <1>8

LEMMA ExecutedServer ==
  ASSUME ConsoleShape, NEW s \in Slots, Execute(s)
  PROVE  /\ ServerOK'
         /\ Fits(calls[s]) /\ Acceptable(calls[s])
         /\ tab = "plugins" => PluginTurns(calls[s], server')
         /\ tab = "rbac" => RoleTurns(calls[s], server')
<1>1. PICK c \in CallType : c = calls[s] /\ c.phase = "sent" /\ Acceptable(c) /\ Fits(c)
  BY DEF ConsoleShape, CallsOK, CallOK, Execute
<1>2. server' = Effect(c)
  BY <1>1 DEF Execute
<1>3. Formed(c)
  BY <1>1 DEF Fits, Formed
<1> QED
  BY <1>1, <1>2, <1>3, EffectKeeps

\* A trial comes to its end.
LEMMA ExpiredServer ==
  ASSUME ServerOK, NEW i \in Insts, TrialExpires(i)
  PROVE  ServerOK' /\ server'.roles = server.roles
<1>1. PICK t \in TrialType : t = server.trials[i]
  BY DEF ServerOK, ServerType
<1>2. PICK u : u = [t EXCEPT !.status = "expired"]
  OBVIOUS
<1>3. u \in TrialType
  BY <1>2 DEF TrialType
<1>4. server' = [server EXCEPT !.trials[i] = u]
  BY <1>1, <1>2 DEF TrialExpires
<1>5. server' \in ServerType /\ server'.roles = server.roles /\ server'.perms = server.perms
  BY <1>3, <1>4, SetTrial DEF ServerOK
<1> QED
  BY <1>5 DEF ServerOK

-----------------------------------------------------------------------------
(***************************************************************************)
(* Loads.                                                                  *)
(***************************************************************************)
LEMMA AnswersType ==
  ASSUME NEW S \in SUBSET Lists, NEW g \in [S -> Answers]
  PROVE  g \in UNION {[T -> Answers] : T \in SUBSET Lists}
  OBVIOUS

\* What the gateway answers has the type of its list.
LEMMA ReadType ==
  ASSUME server \in ServerType, NEW l \in Lists, NEW t \in Tenants
  PROVE  Read(l, t) \in ListType(l) /\ Read(l, t) = ReadOf(server, l, t)
<1>1. Read(l, t) = ReadOf(server, l, t)
  BY DEF Read, ReadOf
<1>2. CASE l = "plugins"
  <2>1. ASSUME NEW p \in PluginIds
        PROVE  [exists |-> server.plugins[p].exists, enabled |-> server.plugins[p].enabled,
                threshold |-> server.plugins[p].threshold,
                override |-> IF t = NoItem THEN "unset" ELSE server.plugins[p].over[t]]
                 \in CardType
    <3>1. server.plugins[p] \in PluginType
      BY DEF ServerType
    <3>2. t # NoItem => server.plugins[p].over[t] \in Flags \cup {"unset"}
      BY <3>1 DEF PluginType, Tenants
    <3> QED
      BY <3>1, <3>2 DEF PluginType, CardType
  <2> QED
    BY <1>1, <1>2, <2>1 DEF Read, ListType
<1>3. CASE l # "plugins"
  <2>1. Read(l, t) = server[l]
    BY <1>3 DEF Read
  <2> QED
    BY <1>1, <1>3, <2>1 DEF ListType, ServerType, Lists
<1> QED
  BY <1>2, <1>3

LEMMA TabListsAreLists == tab \in Tabs => TabLists(tab) \subseteq Lists
  BY ConsoleAssumption DEF TabLists, Lists

\* A new load is the last one, and has no answers yet.
Added(t) ==
  /\ loads' \in Seq(LoadType) /\ Len(loads') = Len(loads) + 1 /\ Len(loads') <= MaxLoads
  /\ \A k \in 1 .. Len(loads) : loads'[k] = loads[k]
  /\ LET d == loads'[Len(loads')]
     IN  d.tenant = t /\ DOMAIN d.got = {} /\ d.failed = {} /\ ~d.overtaken /\ d.redeems

LEMMA LoadSent ==
  ASSUME LoadsOK, NEW t \in Tenants, SendLoad(t)
  PROVE  Added(t)
<1>1. PICK d : d = Load(t)
  OBVIOUS
<1>2. /\ d \in LoadType /\ d.tenant = t /\ DOMAIN d.got = {} /\ d.failed = {}
      /\ ~d.overtaken /\ d.redeems
  <2>1. [l \in {} |-> {}] \in [{} -> Answers] /\ {} \in SUBSET Lists
    OBVIOUS
  <2>2. [l \in {} |-> {}] \in UNION {[T -> Answers] : T \in SUBSET Lists}
    BY <2>1, AnswersType
  <2> QED
    BY <1>1, <2>2 DEF Load, LoadType
<1>3. loads' = Append(loads, d) /\ loads \in Seq(LoadType) /\ Len(loads) < MaxLoads
  BY <1>1 DEF SendLoad, LoadsOK
<1>4. /\ loads' \in Seq(LoadType) /\ Len(loads') = Len(loads) + 1
      /\ loads'[Len(loads')] = d
      /\ \A k \in 1 .. Len(loads) : loads'[k] = loads[k]
  BY <1>2, <1>3
<1>5. Len(loads') <= MaxLoads
  BY <1>3, <1>4, ConsoleAssumption
<1> QED
  BY <1>2, <1>4, <1>5 DEF Added

\* One load takes a new value, and keeps its tenant and its flags.
Replaced(k, d) ==
  /\ loads' \in Seq(LoadType) /\ Len(loads') = Len(loads) /\ loads'[k] = d
  /\ \A j \in 1 .. Len(loads) : j # k => loads'[j] = loads[j]
  /\ d.tenant = loads[k].tenant /\ d.overtaken = loads[k].overtaken
  /\ d.redeems = loads[k].redeems

LEMMA LoadReplaced ==
  ASSUME LoadsOK, NEW k \in 1 .. Len(loads), NEW d \in LoadType,
         loads' = [loads EXCEPT ![k] = d], d.tenant = loads[k].tenant,
         d.overtaken = loads[k].overtaken, d.redeems = loads[k].redeems
  PROVE  Replaced(k, d)
<1>1. loads \in Seq(LoadType)
  BY DEF LoadsOK
<1>2. /\ loads' \in Seq(LoadType) /\ Len(loads') = Len(loads)
      /\ \A j \in 1 .. Len(loads) : loads'[j] = IF j = k THEN d ELSE loads[j]
  BY <1>1, ExceptSeq
<1> QED
  BY <1>2 DEF Replaced

LEMMA ListAnsweredLoads ==
  ASSUME ConsoleShape, NEW k \in 1 .. Len(loads), NEW l, ListAnswered(k, l)
  PROVE  \E d : /\ Replaced(k, d) /\ LoadOK(d)
               /\ l \in TabLists(tab) \ DOMAIN loads[k].got
               /\ DOMAIN d.got = DOMAIN loads[k].got \cup {l}
               /\ d.got[l] = ReadOf(server, l, loads[k].tenant)
               /\ \A x \in DOMAIN loads[k].got : d.got[x] = loads[k].got[x]
<1>1. /\ LoadsOK /\ loads \in Seq(LoadType) /\ LoadOK(loads[k])
      /\ server \in ServerType /\ tab \in Tabs
  BY DEF ConsoleShape, LoadsOK, ServerOK
<1>2. PICK b \in LoadType : b = loads[k]
  BY <1>1
<1>3. l \in TabLists(tab) /\ l \notin DOMAIN b.got /\ l \notin b.failed /\ l \in Lists
  BY <1>1, <1>2, TabListsAreLists DEF ListAnswered, Settled
<1>4. PICK v : v = Read(l, b.tenant)
  OBVIOUS
<1>5. v \in ListType(l) /\ v = ReadOf(server, l, b.tenant)
  BY <1>1, <1>2, <1>3, <1>4, ReadType DEF LoadType
<1>6. PICK g : g = [x \in DOMAIN b.got \cup {l} |-> IF x = l THEN v ELSE b.got[x]]
  OBVIOUS
<1>7. /\ DOMAIN g = DOMAIN b.got \cup {l} /\ g[l] = v
      /\ \A x \in DOMAIN b.got : g[x] = b.got[x]
  BY <1>3, <1>6
<1>8. PICK S \in SUBSET Lists : b.got \in [S -> Answers]
  BY <1>2 DEF LoadType
<1>9. DOMAIN b.got = S /\ \A x \in S : b.got[x] \in Answers
  BY <1>8
<1>10. v \in Answers
  BY <1>3, <1>5 DEF Answers
<1>11. g \in [S \cup {l} -> Answers] /\ S \cup {l} \in SUBSET Lists
  BY <1>3, <1>6, <1>9, <1>10
<1>12. g \in UNION {[T -> Answers] : T \in SUBSET Lists}
  BY <1>11, AnswersType
<1>13. PICK d : d = [b EXCEPT !.got = g]
  OBVIOUS
<1>14. /\ d \in LoadType /\ d.got = g /\ d.tenant = b.tenant /\ d.overtaken = b.overtaken
       /\ d.redeems = b.redeems /\ d.failed = b.failed
  BY <1>2, <1>12, <1>13 DEF LoadType
<1>15. loads' = [loads EXCEPT ![k] = d]
  BY <1>2, <1>4, <1>6, <1>13, Zenon DEF ListAnswered
<1>16. Replaced(k, d)
  BY <1>1, <1>2, <1>14, <1>15, LoadReplaced
<1>17. LoadOK(d)
  BY <1>1, <1>2, <1>3, <1>5, <1>7, <1>14 DEF LoadOK, Settled
<1> QED
  BY <1>2, <1>3, <1>5, <1>7, <1>14, <1>16, <1>17

LEMMA ListFailsLoads ==
  ASSUME ConsoleShape, NEW k \in 1 .. Len(loads), NEW l, ListFails(k, l)
  PROVE  \E d : Replaced(k, d) /\ LoadOK(d) /\ d.got = loads[k].got
<1>1. LoadsOK /\ loads \in Seq(LoadType) /\ LoadOK(loads[k]) /\ tab \in Tabs
  BY DEF ConsoleShape, LoadsOK
<1>2. PICK b \in LoadType : b = loads[k]
  BY <1>1
<1>3. l \in TabLists(tab) /\ l \in Lists
  BY <1>1, TabListsAreLists DEF ListFails
<1>4. PICK d : d = [b EXCEPT !.failed = b.failed \cup {l}]
  OBVIOUS
<1>5. /\ d \in LoadType /\ d.got = b.got /\ d.tenant = b.tenant
      /\ d.overtaken = b.overtaken /\ d.redeems = b.redeems /\ d.failed = b.failed \cup {l}
  BY <1>2, <1>3, <1>4 DEF LoadType
<1>6. loads' = [loads EXCEPT ![k] = d]
  BY <1>2, <1>4, Zenon DEF ListFails
<1>7. Replaced(k, d)
  BY <1>1, <1>2, <1>5, <1>6, LoadReplaced
<1>8. LoadOK(d)
  BY <1>1, <1>2, <1>3, <1>5 DEF LoadOK, Settled
<1> QED
  BY <1>2, <1>5, <1>7, <1>8

\* A load is shown: those sent before it are overtaken.
Shifted(k) ==
  /\ loads' \in Seq(LoadType) /\ Len(loads') = Len(loads) - 1
  /\ \A j \in 1 .. Len(loads) - 1 : j >= k => loads'[j] = loads[j + 1]
  /\ \A j \in 1 .. Len(loads) - 1 : j < k =>
       /\ loads'[j].overtaken /\ loads'[j].redeems = loads[j].redeems
       /\ loads'[j].got = loads[j].got /\ loads'[j].failed = loads[j].failed

LEMMA ArrivedLoads ==
  ASSUME LoadsOK, NEW k \in 1 .. Len(loads), LoadArrives(k)
  PROVE  Shifted(k)
<1> DEFINE New(j) == IF j < k THEN [loads[j] EXCEPT !.overtaken = TRUE] ELSE loads[j + 1]
<1>1. loads \in Seq(LoadType) /\ Len(loads) \in Nat /\ Len(loads) - 1 \in Nat
  BY DEF LoadsOK
<1>2. loads' = [j \in 1 .. Len(loads) - 1 |-> New(j)]
  BY DEF LoadArrives
<1>3. ASSUME NEW j \in 1 .. Len(loads) - 1, j < k
      PROVE  /\ New(j) \in LoadType /\ New(j).overtaken /\ New(j).redeems = loads[j].redeems
             /\ New(j).got = loads[j].got /\ New(j).failed = loads[j].failed
  <2>1. PICK b \in LoadType : b = loads[j]
    BY <1>1
  <2>2. PICK d : d = [b EXCEPT !.overtaken = TRUE]
    OBVIOUS
  <2>3. /\ d \in LoadType /\ d.overtaken /\ d.redeems = b.redeems /\ d.got = b.got
        /\ d.failed = b.failed
    BY <2>1, <2>2 DEF LoadType
  <2>4. New(j) = d
    BY <1>3, <2>1, <2>2, Zenon
  <2> QED
    BY <2>1, <2>3, <2>4
<1>4. ASSUME NEW j \in 1 .. Len(loads) - 1, j >= k
      PROVE  New(j) = loads[j + 1] /\ New(j) \in LoadType
  BY <1>1, <1>4
<1> HIDE DEF New
<1>5. \A j \in 1 .. Len(loads) - 1 : New(j) \in LoadType
  BY <1>3, <1>4
<1>6. loads' \in Seq(LoadType) /\ Len(loads') = Len(loads) - 1
  BY <1>1, <1>2, <1>5, IsASeq
<1>7. \A j \in 1 .. Len(loads) - 1 : loads'[j] = New(j)
  BY <1>2
<1> QED
  BY <1>3, <1>4, <1>6, <1>7 DEF Shifted

\* The answer of a call that was carried out is lost, or something changes
\* elsewhere: no load under way is known to show the change.
Doubted ==
  /\ loads' \in Seq(LoadType) /\ Len(loads') = Len(loads)
  /\ \A j \in 1 .. Len(loads) :
       /\ ~loads'[j].redeems /\ loads'[j].overtaken = loads[j].overtaken
       /\ loads'[j].got = loads[j].got /\ loads'[j].failed = loads[j].failed

LEMMA MissedLoads ==
  ASSUME LoadsOK, Missed
  PROVE  Doubted
<1> DEFINE New(j) == [loads[j] EXCEPT !.redeems = FALSE]
<1>1. loads \in Seq(LoadType) /\ Len(loads) \in Nat /\ DOMAIN loads = 1 .. Len(loads)
  BY DEF LoadsOK
<1>2. ASSUME NEW j \in 1 .. Len(loads)
      PROVE  /\ New(j) \in LoadType /\ ~New(j).redeems /\ New(j).overtaken = loads[j].overtaken
             /\ New(j).got = loads[j].got /\ New(j).failed = loads[j].failed
  <2>1. PICK b \in LoadType : b = loads[j]
    BY <1>1
  <2>2. PICK d : d = [b EXCEPT !.redeems = FALSE]
    OBVIOUS
  <2>3. /\ d \in LoadType /\ ~d.redeems /\ d.overtaken = b.overtaken /\ d.got = b.got
        /\ d.failed = b.failed
    BY <2>1, <2>2 DEF LoadType
  <2> QED
    BY <2>1, <2>2, <2>3
<1>3. loads' = [j \in 1 .. Len(loads) |-> New(j)]
  BY <1>1 DEF Missed
<1> HIDE DEF New
<1>4. \A j \in 1 .. Len(loads) : New(j) \in LoadType
  BY <1>2
<1>5. loads' \in Seq(LoadType) /\ Len(loads') = Len(loads)
  BY <1>1, <1>3, <1>4, IsASeq
<1>6. \A j \in 1 .. Len(loads) : loads'[j] = New(j)
  BY <1>3
<1> QED
  BY <1>2, <1>5, <1>6 DEF Doubted

\* Every kind of step leaves the loads well formed.
LEMMA AddedKeeps ==
  ASSUME LoadsOK, NEW t \in Tenants, Added(t), tab' = tab
  PROVE  LoadsOK'
<1>1. Len(loads) \in Nat /\ \A k \in 1 .. Len(loads) : LoadOK(loads[k])
  BY DEF LoadsOK
<1>2. ASSUME NEW k \in 1 .. Len(loads') PROVE LoadOK(loads'[k])
  <2>1. CASE k \in 1 .. Len(loads)
    BY <1>1, <2>1 DEF Added
  <2>2. CASE k = Len(loads')
    BY <2>2 DEF Added, LoadOK, Settled
  <2> QED
    BY <1>1, <1>2, <2>1, <2>2 DEF Added
<1>3. \A k \in 1 .. Len(loads') : LoadOK(loads[k])'
  BY <1>2 DEF LoadOK, Settled
<1> QED
  BY <1>3 DEF LoadsOK, Added

LEMMA ReplacedKeeps ==
  ASSUME LoadsOK, NEW k \in 1 .. Len(loads), NEW d, Replaced(k, d), LoadOK(d), tab' = tab
  PROVE  LoadsOK'
<1>1. ASSUME NEW j \in 1 .. Len(loads') PROVE LoadOK(loads'[j])
  BY DEF LoadsOK, Replaced
<1>2. \A j \in 1 .. Len(loads') : LoadOK(loads[j])'
  BY <1>1 DEF LoadOK, Settled
<1> QED
  BY <1>2 DEF LoadsOK, Replaced

LEMMA ArrivedKeeps ==
  ASSUME LoadsOK, NEW k \in 1 .. Len(loads), Shifted(k), tab' = tab
  PROVE  LoadsOK'
<1>1. Len(loads) \in Nat /\ MaxLoads \in Nat
  BY ConsoleAssumption DEF LoadsOK
<1>2. ASSUME NEW j \in 1 .. Len(loads') PROVE LoadOK(loads'[j])
  <2>1. j \in 1 .. Len(loads) /\ j + 1 \in 1 .. Len(loads) /\ j \in 1 .. Len(loads) - 1
    BY <1>1, <1>2 DEF Shifted
  <2>2. LoadOK(loads[j]) /\ LoadOK(loads[j + 1])
    BY <2>1 DEF LoadsOK
  <2>3. CASE j < k
    BY <2>1, <2>2, <2>3 DEF Shifted, LoadOK, Settled
  <2>4. CASE j >= k
    BY <2>1, <2>2, <2>4 DEF Shifted
  <2> QED
    BY <2>1, <2>3, <2>4
<1>3. \A j \in 1 .. Len(loads') : LoadOK(loads[j])'
  BY <1>2 DEF LoadOK, Settled
<1>4. Len(loads') <= MaxLoads
  BY <1>1 DEF LoadsOK, Shifted
<1> QED
  BY <1>3, <1>4 DEF LoadsOK, Shifted

LEMMA DoubtedKeeps ==
  ASSUME LoadsOK, Doubted, tab' = tab
  PROVE  LoadsOK'
<1>1. ASSUME NEW j \in 1 .. Len(loads') PROVE LoadOK(loads'[j])
  <2>1. j \in 1 .. Len(loads) /\ LoadOK(loads[j])
    BY DEF LoadsOK, Doubted
  <2> QED
    BY <2>1 DEF Doubted, LoadOK, Settled
<1>2. \A j \in 1 .. Len(loads') : LoadOK(loads[j])'
  BY <1>1 DEF LoadOK, Settled
<1> QED
  BY <1>2 DEF LoadsOK, Doubted

-----------------------------------------------------------------------------
(***************************************************************************)
(* The shape is kept.                                                      *)
(***************************************************************************)
LEMMA InitShape == ConsoleInit => ConsoleShape
<1> SUFFICES ASSUME ConsoleInit PROVE ConsoleShape
  OBVIOUS
<1>1. ServerOK
  <2> DEFINE i0 == CHOOSE i \in Insts : TRUE
             p0 == CHOOSE p \in System : TRUE
             r0 == CHOOSE r \in RoleIds : TRUE
  <2>1. PICK o \in {"unset", "off"} :
          server =
            [trials   |-> [i \in Insts |->
                [status |-> IF i = i0 THEN "active" ELSE "none", limit |-> "low"]],
             requests |-> [r \in Reqs |-> "PENDING"],
             plugins  |-> [p \in PluginIds |->
                [exists |-> p = p0, enabled |-> "on", threshold |-> "low",
                 over |-> [i \in Insts |->
                    IF p = p0 /\ i = i0 /\ tab = "plugins" THEN o ELSE "unset"]]],
             roles    |-> [r \in RoleIds |-> [exists |-> r = r0, perms |-> {}]],
             perms    |-> PermNames]
    BY DEF ConsoleInit
  <2> HIDE DEF i0, p0, r0
  <2>2. server.trials \in [Insts -> TrialType]
    BY <2>1 DEF TrialType, Levels
  <2>3. server.requests \in [Reqs -> ReviewType]
    BY <2>1 DEF ReviewType
  <2>4. server.plugins \in [PluginIds -> PluginType]
    BY <2>1 DEF PluginType, Flags, Levels
  <2>5. server.roles \in [RoleIds -> RoleType] /\ server.perms = PermNames
    BY <2>1 DEF RoleType
  <2>6. server \in ServerType
    BY <2>1, <2>2, <2>3, <2>4, <2>5 DEF ServerType
  <2> QED
    BY <2>5, <2>6 DEF ServerOK, RoleType
<1>2. ViewOK(view)
  <2>1. view = EmptyView
    BY DEF ConsoleInit
  <2>2. view["trials"] \in [Insts -> TrialType] /\ view["requests"] \in [Reqs -> ReviewType]
    BY <2>1 DEF EmptyView, TrialType, Levels, ReviewType
  <2>3. view["plugins"] \in [PluginIds -> CardType]
    BY <2>1 DEF EmptyView, CardType, Flags, Levels
  <2>4. view["roles"] \in [RoleIds -> RoleType] /\ view["perms"] \in SUBSET PermNames
    BY <2>1 DEF EmptyView, RoleType
  <2>5. DOMAIN view = Lists
    BY <2>1 DEF EmptyView, Lists
  <2> QED
    BY <2>2, <2>3, <2>4, <2>5 DEF ViewOK, ListType, Lists
<1>3. LoadsOK
  <2>1. PICK d : d = Load(NoItem)
    OBVIOUS
  <2>2. [l \in {} |-> {}] \in UNION {[T -> Answers] : T \in SUBSET Lists}
    <3>1. [l \in {} |-> {}] \in [{} -> Answers] /\ {} \in SUBSET Lists
      OBVIOUS
    <3> QED
      BY <3>1, AnswersType
  <2>3. d \in LoadType /\ DOMAIN d.got = {} /\ d.failed = {}
    BY <2>1, <2>2 DEF Load, LoadType, Tenants
  <2>4. loads = <<d>>
    BY <2>1 DEF ConsoleInit
  <2>5. loads \in Seq(LoadType) /\ Len(loads) = 1 /\ loads[1] = d
    BY <2>3, <2>4
  <2> QED
    BY <2>3, <2>5, ConsoleAssumption DEF LoadsOK, LoadOK, Settled
<1>4. CallsOK
  <2>1. calls = [s \in Slots |-> NoCall]
    BY DEF ConsoleInit
  <2>2. PICK c \in CallType : c = NoCall
    BY NoCallFields
  <2>3. CallOK(c)
    BY <2>2, NoCallFields DEF CallOK
  <2> QED
    BY <2>1, <2>2, <2>3 DEF CallsOK
<1>5. modal.item \in Items /\ FormFits(modal.form, modal.item)
  BY DEF ConsoleInit, NoModal, Items, FormFits
<1>6. /\ tab \in Tabs /\ tenant \in Tenants /\ isProbing \in PluginIds \cup {NoItem}
      /\ clicks \in 0 .. MaxClicks
  BY ConsoleAssumption DEF ConsoleInit, Tenants
<1> QED
  BY <1>1, <1>2, <1>3, <1>4, <1>5, <1>6 DEF ConsoleShape

\* A step that keeps each part keeps the whole.
LEMMA ShapeParts ==
  ASSUME ConsoleShape, tab' = tab, tenant' \in Tenants, isProbing' \in PluginIds \cup {NoItem},
         clicks' \in 0 .. MaxClicks, server' = server \/ ServerOK', view' = view \/ ViewOK(view'),
         loads' = loads \/ LoadsOK', calls' = calls \/ CallsOK',
         modal' = modal \/ (modal'.item \in Items /\ FormFits(modal'.form, modal'.item))
  PROVE  ConsoleShape'
<1>1. ServerOK'
  BY DEF ConsoleShape, ServerOK
<1>2. ViewOK(view)'
  BY DEF ConsoleShape, ViewOK
<1>3. LoadsOK'
  <2>1. CASE loads' = loads
    BY <2>1 DEF ConsoleShape, LoadsOK, LoadOK, Settled
  <2> QED
    BY <2>1
<1>4. CallsOK'
  <2>1. CASE calls' = calls
    BY <2>1 DEF ConsoleShape, CallsOK, CallOK, Fits
  <2> QED
    BY <2>1
<1>5. (modal.item \in Items /\ FormFits(modal.form, modal.item))'
  BY DEF ConsoleShape, FormFits
<1>6. tab' \in Tabs
  BY DEF ConsoleShape
<1> QED
  BY <1>1, <1>2, <1>3, <1>4, <1>5, <1>6 DEF ConsoleShape

LEMMA ArrivedView ==
  ASSUME ConsoleShape, NEW k \in 1 .. Len(loads), LoadArrives(k)
  PROVE  /\ ViewOK(view')
         /\ \A l \in DOMAIN loads[k].got : view'[l] = loads[k].got[l]
<1>1. ViewOK(view) /\ LoadOK(loads[k]) /\ tab \in Tabs
  BY DEF ConsoleShape, LoadsOK
<1>2. view' = [l \in DOMAIN view |->
                 IF l \in DOMAIN loads[k].got THEN loads[k].got[l] ELSE view[l]]
  BY DEF LoadArrives
<1>3. DOMAIN loads[k].got \subseteq Lists
  BY <1>1, TabListsAreLists DEF LoadOK, Settled
<1> QED
  BY <1>1, <1>2, <1>3 DEF ViewOK, LoadOK

LEMMA ShapeKept ==
  ASSUME ConsoleShape, [ConsoleNext]_consoleVars
  PROVE  ConsoleShape'
<1>0. /\ tab \in Tabs /\ tenant \in Tenants /\ isProbing \in PluginIds \cup {NoItem}
      /\ clicks \in 0 .. MaxClicks /\ LoadsOK /\ CallsOK
  BY DEF ConsoleShape
<1>1. Click => clicks' \in 0 .. MaxClicks
  BY <1>0, ConsoleAssumption DEF Click
<1>2. NoModal.item \in Items /\ FormFits(NoModal.form, NoModal.item)
  BY DEF NoModal, Items, FormFits
<1>3. ASSUME Sends PROVE ConsoleShape'
  <2>1. PICK c : NewCall(c) /\ Send(c)
    BY <1>3 DEF Sends
  <2>2. CallsOK'
    BY <1>0, <2>1, SentKeeps
  <2>3. c.kind = "probe" => c.item \in PluginIds
    BY <2>1 DEF NewCall, Fits, TrialKinds, ReviewKinds, RoleKinds, GrantKinds, PermKinds
  <2>4. isProbing' \in PluginIds \cup {NoItem}
    BY <1>0, <2>1, <2>3 DEF Send
  <2> QED
    BY <1>0, <1>1, <2>1, <2>2, <2>4, ShapeParts DEF Send
<1>4. ASSUME FormStep PROVE ConsoleShape'
  BY <1>0, <1>4, ShapeParts DEF FormStep
<1>5. ASSUME Reloads PROVE ConsoleShape'
  <2>1. PICK t \in Tenants :
          /\ Click /\ tenant' = t /\ SendLoad(t)
          /\ UNCHANGED <<tab, server, view, calls, modal, isSubmitting, isProbing, lag>>
    BY <1>5 DEF Reloads
  <2>2. LoadsOK'
    BY <1>0, <2>1, LoadSent, AddedKeeps
  <2> QED
    BY <1>0, <1>1, <2>1, <2>2, ShapeParts
<1>6. ASSUME NEW k \in 1 .. Len(loads), LoadArrives(k) PROVE ConsoleShape'
  <2>1. LoadsOK'
    BY <1>0, <1>6, ArrivedLoads, ArrivedKeeps DEF LoadArrives
  <2>2. ViewOK(view')
    BY <1>6, ArrivedView
  <2> QED
    BY <1>0, <1>6, <2>1, <2>2, ShapeParts DEF LoadArrives
<1>7. ASSUME NEW k \in 1 .. Len(loads), NEW l, ListAnswered(k, l) PROVE ConsoleShape'
  <2>1. LoadsOK'
    BY <1>0, <1>7, ListAnsweredLoads, ReplacedKeeps DEF ListAnswered
  <2> QED
    BY <1>0, <1>7, <2>1, ShapeParts DEF ListAnswered
<1>8. ASSUME NEW k \in 1 .. Len(loads), NEW l, ListFails(k, l) PROVE ConsoleShape'
  <2>1. LoadsOK'
    BY <1>0, <1>8, ListFailsLoads, ReplacedKeeps DEF ListFails
  <2> QED
    BY <1>0, <1>8, <2>1, ShapeParts DEF ListFails
<1>9. ASSUME NEW s \in Slots, Execute(s) PROVE ConsoleShape'
  <2>1. ServerOK' /\ CallsOK'
    BY <1>0, <1>9, ExecutedServer, ExecutedKeeps
  <2> QED
    BY <1>0, <1>9, <2>1, ShapeParts DEF Execute
<1>10. ASSUME NEW s \in Slots, RefuseCall(s) PROVE ConsoleShape'
  <2>1. CallsOK'
    BY <1>0, <1>10, RefusedKeeps
  <2> QED
    BY <1>0, <1>10, <2>1, ShapeParts DEF RefuseCall
<1>11. ASSUME NEW s \in Slots, Finish(s) PROVE ConsoleShape'
  <2>1. PICK t \in Tenants : t = calls[s].tenant
    BY <1>0 DEF CallsOK, CallType
  <2>2. SendLoad(t) /\ tab' = tab /\ calls' = [calls EXCEPT ![s] = NoCall]
    BY <1>11, <2>1 DEF Finish
  <2>3. LoadsOK' /\ CallsOK'
    BY <1>0, <2>2, LoadSent, AddedKeeps, EndedKeeps
  <2>4. modal' = modal \/ modal' = NoModal
    BY <1>11 DEF Finish
  <2>5. modal' = modal \/ (modal'.item \in Items /\ FormFits(modal'.form, modal'.item))
    BY <1>2, <2>4
  <2> QED
    BY <1>0, <1>11, <2>3, <2>5, ShapeParts DEF Finish
<1>12. ASSUME NEW s \in Slots, ProbeOk(s) PROVE ConsoleShape'
  <2>1. CallsOK'
    BY <1>0, <1>12, EndedKeeps DEF ProbeOk
  <2> QED
    BY <1>0, <1>12, <2>1, ShapeParts DEF ProbeOk
<1>13. ASSUME NEW s \in Slots, CallFails(s) PROVE ConsoleShape'
  <2>1. CallsOK'
    BY <1>0, <1>13, EndedKeeps DEF CallFails
  <2>2. loads' = loads \/ LoadsOK'
    <3>1. CASE calls[s].phase = "executed"
      BY <1>0, <1>13, <3>1, MissedLoads, DoubtedKeeps DEF CallFails
    <3>2. CASE calls[s].phase # "executed"
      BY <1>13, <3>2 DEF CallFails
    <3> QED
      BY <3>1, <3>2
  <2>3. isProbing' \in PluginIds \cup {NoItem}
    BY <1>0, <1>13 DEF CallFails
  <2> QED
    BY <1>0, <1>13, <2>1, <2>2, <2>3, ShapeParts DEF CallFails
<1>14. ASSUME NEW s \in Slots, AssignNext(s) PROVE ConsoleShape'
  <2>1. CallsOK'
    BY <1>0, <1>14, AssignedKeeps
  <2> QED
    BY <1>0, <1>14, <2>1, ShapeParts DEF AssignNext
<1>15. ASSUME UNCHANGED consoleVars PROVE ConsoleShape'
  BY <1>0, <1>15, ShapeParts DEF consoleVars
<1>16. ASSUME Elsewhere PROVE ConsoleShape'
  <2>1. PICK c : c \in CallType /\ Formed(c) /\ ExecuteUnseen(c)
    BY <1>16 DEF Elsewhere
  <2>2. Acceptable(c) /\ server' = Effect(c) /\ Missed /\ Click /\ tab' = tab
    BY <2>1 DEF ExecuteUnseen
  <2>3. ServerOK'
    BY <2>1, <2>2, EffectKeeps
  <2>4. CallsOK' /\ LoadsOK'
    BY <1>0, <2>1, <2>2, UnseenCalls, FadedKeeps, MissedLoads, DoubtedKeeps
  <2> QED
    BY <1>0, <1>1, <2>1, <2>2, <2>3, <2>4, ShapeParts DEF ExecuteUnseen
<1>17. ASSUME NEW i \in Insts, TrialExpires(i) PROVE ConsoleShape'
  <2>1. ServerOK'
    BY <1>17, ExpiredServer DEF ConsoleShape
  <2>2. Missed /\ Click /\ tab' = tab
    BY <1>17 DEF TrialExpires
  <2>3. LoadsOK'
    BY <1>0, <2>2, MissedLoads, DoubtedKeeps
  <2> QED
    BY <1>0, <1>1, <1>17, <2>1, <2>2, <2>3, ShapeParts DEF TrialExpires
<1> QED
  BY <1>3, <1>4, <1>5, <1>6, <1>7, <1>8, <1>9, <1>10, <1>11, <1>12, <1>13, <1>14, <1>15,
     <1>16, <1>17, ConsoleCases, Zenon

-----------------------------------------------------------------------------
(***************************************************************************)
(* One form at a time waits for its call.                                  *)
(***************************************************************************)
LEMMA SubmitsOf ==
  ~Submits("none") /\ ~Submits("probe") /\ Submits("createRole") /\ Submits("assignNew")
  BY DEF Submits

LEMMA SameSubmits ==
  ASSUME OneSubmit, isSubmitting' = isSubmitting,
         \A x \in Slots : Submits(calls'[x].kind) <=> Submits(calls[x].kind)
  PROVE  OneSubmit'
  BY Zenon DEF OneSubmit

LEMMA EndedSubmits ==
  ASSUME OneSubmit, NEW s \in Slots, Puts(s, NoCall),
         isSubmitting' = (isSubmitting /\ ~Submits(calls[s].kind))
  PROVE  OneSubmit'
<1>1. ~Submits(calls'[s].kind) /\ \A x \in Slots : x # s => calls'[x] = calls[x]
  BY NoCallFields, SubmitsOf DEF Puts
<1>2. CASE Submits(calls[s].kind)
  <2>1. \A x \in Slots : ~Submits(calls'[x].kind)
    BY <1>1, <1>2 DEF OneSubmit
  <2>2. isSubmitting' = FALSE
    BY <1>2
  <2> QED
    BY <2>1, <2>2, Zenon DEF OneSubmit
<1>3. CASE ~Submits(calls[s].kind)
  <2>1. isSubmitting' = isSubmitting
    BY <1>3, Zenon DEF OneSubmit
  <2>2. \A x \in Slots : Submits(calls'[x].kind) <=> Submits(calls[x].kind)
    BY <1>1, <1>3
  <2> QED
    BY <2>1, <2>2, SameSubmits
<1> QED
  BY <1>2, <1>3

LEMMA SentSubmits ==
  ASSUME OneSubmit, NEW c, Send(c), NEW s \in Slots, calls[s] = NoCall, Puts(s, c)
  PROVE  OneSubmit'
<1>1. calls'[s] = c /\ ~Submits(calls[s].kind) /\ \A x \in Slots : x # s => calls'[x] = calls[x]
  BY NoCallFields, SubmitsOf DEF Puts
<1>2. isSubmitting' = (isSubmitting \/ Submits(c.kind)) /\ (Submits(c.kind) => ~isSubmitting)
  BY DEF Send
<1>3. CASE Submits(c.kind)
  <2>1. \A x \in Slots : ~Submits(calls[x].kind)
    BY <1>2, <1>3 DEF OneSubmit
  <2>2. \A x \in Slots : Submits(calls'[x].kind) => x = s
    BY <1>1, <2>1
  <2>3. isSubmitting' = TRUE
    BY <1>2, <1>3
  <2> QED
    BY <1>1, <1>3, <2>2, <2>3, Zenon DEF OneSubmit
<1>4. CASE ~Submits(c.kind)
  <2>1. isSubmitting' = isSubmitting
    BY <1>2, <1>4, Zenon DEF OneSubmit
  <2>2. \A x \in Slots : Submits(calls'[x].kind) <=> Submits(calls[x].kind)
    BY <1>1, <1>4
  <2> QED
    BY <2>1, <2>2, SameSubmits
<1> QED
  BY <1>3, <1>4

LEMMA SubmitKept ==
  ASSUME ConsoleShape, OneSubmit, [ConsoleNext]_consoleVars
  PROVE  OneSubmit'
<1>0. LoadsOK /\ CallsOK
  BY DEF ConsoleShape
<1>1. ASSUME UNCHANGED <<calls, isSubmitting>> PROVE OneSubmit'
  BY <1>1, SameSubmits
<1>2. ASSUME Sends PROVE OneSubmit'
  <2>1. PICK c : NewCall(c) /\ Send(c)
    BY <1>2 DEF Sends
  <2> QED
    BY <1>0, <2>1, SentCalls, SentSubmits
<1>3. ASSUME NEW s \in Slots, Execute(s) PROVE OneSubmit'
  <2>1. Carried(s)
    BY <1>0, <1>3, ExecutedCalls
  <2>2. \A x \in Slots : calls'[x].kind = calls[x].kind
    BY <2>1 DEF Carried, Advances
  <2>3. isSubmitting' = isSubmitting
    BY <1>3 DEF Execute
  <2> QED
    BY <2>2, <2>3, SameSubmits
<1>4. ASSUME NEW s \in Slots, RefuseCall(s) PROVE OneSubmit'
  <2>1. \A x \in Slots : calls'[x].kind = calls[x].kind
    BY <1>0, <1>4, RefusedCalls DEF Puts, Advances
  <2>2. isSubmitting' = isSubmitting
    BY <1>4 DEF RefuseCall
  <2> QED
    BY <2>1, <2>2, SameSubmits
<1>5. ASSUME NEW s \in Slots, Finish(s) \/ CallFails(s) PROVE OneSubmit'
  <2>1. Puts(s, NoCall)
    BY <1>0, <1>5, EndedCalls DEF Finish, CallFails
  <2>2. isSubmitting' = (isSubmitting /\ ~Submits(calls[s].kind))
    BY <1>5 DEF Finish, CallFails
  <2> QED
    BY <2>1, <2>2, EndedSubmits
<1>6. ASSUME NEW s \in Slots, ProbeOk(s) PROVE OneSubmit'
  <2>1. Puts(s, NoCall) /\ calls[s].kind = "probe" /\ isSubmitting' = isSubmitting
    BY <1>0, <1>6, EndedCalls DEF ProbeOk
  <2>2. \A x \in Slots : Submits(calls'[x].kind) <=> Submits(calls[x].kind)
    BY <2>1, NoCallFields, SubmitsOf DEF Puts
  <2> QED
    BY <2>1, <2>2, SameSubmits
<1>7. ASSUME NEW s \in Slots, AssignNext(s) PROVE OneSubmit'
  <2>1. PICK d : Puts(s, d) /\ Proceeds(calls[s], d)
    BY <1>0, <1>7, AssignedCalls
  <2>2. Submits(calls[s].kind) /\ Submits(d.kind)
    BY <2>1, SubmitsOf DEF Proceeds, Creating
  <2>3. \A x \in Slots : Submits(calls'[x].kind) <=> Submits(calls[x].kind)
    BY <2>1, <2>2 DEF Puts
  <2>4. isSubmitting' = isSubmitting
    BY <1>7 DEF AssignNext
  <2> QED
    BY <2>3, <2>4, SameSubmits
<1>8. FormStep \/ Reloads \/ UNCHANGED consoleVars => UNCHANGED <<calls, isSubmitting>>
  BY DEF FormStep, Reloads, consoleVars
<1>9. ASSUME NEW k, LoadArrives(k) PROVE UNCHANGED <<calls, isSubmitting>>
  BY <1>9 DEF LoadArrives
<1>10. ASSUME NEW k, NEW l, ListAnswered(k, l) \/ ListFails(k, l)
       PROVE  UNCHANGED <<calls, isSubmitting>>
  BY <1>10 DEF ListAnswered, ListFails
<1>11. ASSUME Elsewhere PROVE OneSubmit'
  <2>1. PICK c : ExecuteUnseen(c)
    BY <1>11 DEF Elsewhere
  <2>2. \A x \in Slots : calls'[x].kind = calls[x].kind
    BY <1>0, <2>1, UnseenCalls DEF Faded, Advances
  <2>3. isSubmitting' = isSubmitting
    BY <2>1 DEF ExecuteUnseen
  <2> QED
    BY <2>2, <2>3, SameSubmits
<1>12. ASSUME NEW i \in Insts, TrialExpires(i) PROVE UNCHANGED <<calls, isSubmitting>>
  BY <1>12 DEF TrialExpires
<1> QED
  BY <1>1, <1>2, <1>3, <1>4, <1>5, <1>6, <1>7, <1>8, <1>9, <1>10, <1>11, <1>12, ConsoleCases,
     Zenon

-----------------------------------------------------------------------------
(***************************************************************************)
(* A quiet page is fresh.                                                  *)
(***************************************************************************)
LEMMA QuietFresh ==
  ASSUME FreshInv, UNCHANGED <<loads, view, server, tenant, tab, lag>>,
         Owed(calls) => Owed(calls')
  PROVE  FreshInv'
<1>1. FlagOrder'
  BY Zenon DEF FreshInv, FlagOrder
<1>2. LastFresh'
  BY Zenon DEF FreshInv, LastFresh
<1>3. PageFresh'
  BY Zenon DEF FreshInv, PageFresh
<1> QED
  BY <1>1, <1>2, <1>3 DEF FreshInv

\* While a call that was carried out is still to be answered, nothing is
\* promised.
LEMMA OwedFresh ==
  ASSUME FreshInv, UNCHANGED <<loads, lag>>, Owed(calls')
  PROVE  FreshInv'
<1>1. FlagOrder'
  BY Zenon DEF FreshInv, FlagOrder
<1>2. LastFresh' /\ PageFresh'
  BY Zenon DEF LastFresh, PageFresh
<1> QED
  BY <1>1, <1>2 DEF FreshInv

\* A new load will show everything done so far.
LEMMA AddedFresh ==
  ASSUME LoadsOK, FreshInv, NEW t, Added(t), lag' = lag
  PROVE  FreshInv'
<1> DEFINE n == Len(loads)
<1>1. /\ n \in Nat /\ Len(loads') = n + 1
      /\ \A k \in 1 .. n : loads'[k] = loads[k]
      /\ DOMAIN loads'[n + 1].got = {} /\ ~loads'[n + 1].overtaken /\ loads'[n + 1].redeems
  BY DEF Added, LoadsOK
<1> HIDE DEF n
<1>2. FlagOrder'
  <2>1. ASSUME NEW j \in 1 .. Len(loads'), NEW k \in 1 .. Len(loads'), j <= k
        PROVE  /\ loads'[k].overtaken => loads'[j].overtaken
               /\ loads'[j].redeems => loads'[k].redeems
    <3>1. CASE k = n + 1
      BY <1>1, <3>1
    <3>2. CASE k # n + 1
      <4>1. j \in 1 .. n /\ k \in 1 .. n
        BY <1>1, <2>1, <3>2
      <4> QED
        BY <1>1, <2>1, <4>1 DEF FreshInv, FlagOrder, n
    <3> QED
      BY <3>1, <3>2
  <2>2. ASSUME NEW k \in 1 .. Len(loads')
        PROVE  loads'[k].redeems \/ loads'[k].overtaken \/ lag'
    <3>1. CASE k = n + 1
      BY <1>1, <3>1
    <3>2. CASE k \in 1 .. n
      BY <1>1, <3>2 DEF FreshInv, FlagOrder, n
    <3> QED
      BY <1>1, <2>2, <3>1, <3>2
  <2> QED
    BY <2>1, <2>2 DEF FlagOrder
<1>3. LastFresh'
  BY <1>1 DEF LastFresh, Current
<1>4. PageFresh'
  <2>1. n + 1 \in 1 .. Len(loads')
    BY <1>1
  <2> QED
    BY <1>1, <2>1 DEF PageFresh
<1> QED
  BY <1>2, <1>3, <1>4 DEF FreshInv

\* An answer arrives for one list of a load: it is what the gateway holds.
LEMMA ReplacedFresh ==
  ASSUME LoadsOK, FreshInv, NEW k \in 1 .. Len(loads), NEW d, Replaced(k, d),
         Current(server, loads[k]) => Current(server, d),
         UNCHANGED <<server, view, tenant, tab, calls, lag>>
  PROVE  FreshInv'
<1>1. /\ Len(loads') = Len(loads)
      /\ \A j \in 1 .. Len(loads) :
           /\ loads'[j].overtaken = loads[j].overtaken /\ loads'[j].redeems = loads[j].redeems
           /\ Current(server, loads[j]) => Current(server, loads'[j])
  BY DEF Replaced
<1>2. FlagOrder'
  BY <1>1 DEF FreshInv, FlagOrder
<1>3. LastFresh'
  <2>1. ASSUME NEW j \in 1 .. Len(loads'), j = Len(loads')
        PROVE  Owed(calls) \/ ~loads'[j].redeems \/ loads'[j].overtaken
                 \/ Current(server, loads'[j])
    BY <1>1, <2>1 DEF FreshInv, LastFresh
  <2> QED
    BY <2>1 DEF LastFresh
<1>4. PageFresh'
  <2>1. (\A j \in 1 .. Len(loads') : loads'[j].overtaken)
           => \A j \in 1 .. Len(loads) : loads[j].overtaken
    BY <1>1
  <2> QED
    BY <2>1 DEF FreshInv, PageFresh
<1> QED
  BY <1>2, <1>3, <1>4 DEF FreshInv

\* The answer of a call that was carried out gets lost, or something changes
\* elsewhere.
LEMMA DoubtedFresh ==
  ASSUME LoadsOK, FreshInv, Doubted, lag' = TRUE
  PROVE  FreshInv'
<1>1. FlagOrder'
  BY DEF FreshInv, FlagOrder, Doubted
<1>2. LastFresh'
  BY DEF LastFresh, Doubted
<1>3. PageFresh'
  BY DEF PageFresh
<1> QED
  BY <1>1, <1>2, <1>3 DEF FreshInv

\* A load is shown: unless it was overtaken, failed in part, asked for another
\* tenant or may miss a change, the last one shows what the gateway holds.
LEMMA ArrivedFresh ==
  ASSUME ConsoleShape, FreshInv, NEW k \in 1 .. Len(loads), LoadArrives(k)
  PROVE  FreshInv'
<1> DEFINE n == Len(loads)
<1>1. n \in Nat /\ k \in 1 .. n /\ LoadsOK
  BY DEF ConsoleShape, LoadsOK
<1>2. /\ Len(loads') = n - 1
      /\ \A j \in 1 .. n - 1 : j >= k => loads'[j] = loads[j + 1]
      /\ \A j \in 1 .. n - 1 : j < k => loads'[j].overtaken /\ loads'[j].redeems = loads[j].redeems
  BY <1>1, ArrivedLoads DEF Shifted
<1>3. /\ \A j, i \in 1 .. n : j <= i =>
           /\ loads[i].overtaken => loads[j].overtaken
           /\ loads[j].redeems => loads[i].redeems
      /\ \A i \in 1 .. n : loads[i].redeems \/ loads[i].overtaken \/ lag
  BY DEF FreshInv, FlagOrder
<1>4. UNCHANGED <<server, calls, tab, tenant>>
  BY DEF LoadArrives
<1>5. /\ loads[k].overtaken \/ loads[k].failed # {} \/ loads[k].tenant # tenant => lag'
      /\ lag /\ ~loads[k].redeems => lag'
  BY DEF LoadArrives
<1>6. FlagOrder'
  <2>1. ASSUME NEW j \in 1 .. n - 1, NEW i \in 1 .. n - 1, j <= i
        PROVE  /\ loads'[i].overtaken => loads'[j].overtaken
               /\ loads'[j].redeems => loads'[i].redeems
    <3>1. j \in 1 .. n /\ i \in 1 .. n /\ j + 1 \in 1 .. n /\ i + 1 \in 1 .. n
          /\ j + 1 <= i + 1 /\ j <= i + 1
      BY <1>1, <2>1
    <3> HIDE DEF n
    <3>2. CASE i < k
      <4>1. j < k
        BY <1>1, <2>1, <3>1, <3>2
      <4>2. loads'[j].overtaken /\ loads'[j].redeems = loads[j].redeems
        BY <1>2, <4>1
      <4>3. loads'[i].redeems = loads[i].redeems
        BY <1>2, <3>2
      <4>4. loads[j].redeems => loads[i].redeems
        BY <1>3, <2>1, <3>1
      <4> QED
        BY <4>2, <4>3, <4>4
    <3>3. CASE j < k /\ i >= k
      BY <1>1, <1>2, <1>3, <2>1, <3>1, <3>3
    <3>4. CASE j >= k
      <4>1. i >= k
        BY <1>1, <2>1, <3>1, <3>4
      <4>2. loads'[j] = loads[j + 1] /\ loads'[i] = loads[i + 1]
        BY <1>2, <3>4, <4>1
      <4>3. /\ loads[i + 1].overtaken => loads[j + 1].overtaken
            /\ loads[j + 1].redeems => loads[i + 1].redeems
        BY <1>3, <3>1
      <4> QED
        BY <4>2, <4>3
    <3> QED
      BY <1>1, <3>1, <3>2, <3>3, <3>4
  <2>2. ASSUME NEW i \in 1 .. n - 1
        PROVE  loads'[i].redeems \/ loads'[i].overtaken \/ lag'
    <3>1. CASE i < k
      BY <1>2, <3>1
    <3>2. CASE i >= k
      <4>1. loads'[i] = loads[i + 1] /\ i + 1 \in 1 .. n /\ k <= i + 1
        BY <1>1, <1>2, <2>2, <3>2
      <4> QED
        BY <1>1, <1>3, <1>5, <4>1
    <3> QED
      BY <1>1, <3>1, <3>2
  <2> QED
    BY <1>2, <2>1, <2>2 DEF FlagOrder
<1>7. CASE k < n
  <2>1. n - 1 \in 1 .. n - 1 /\ loads'[n - 1] = loads[n] /\ n \in 1 .. n
    BY <1>1, <1>2, <1>7
  <2>2. LastFresh'
    <3>1. Owed(calls) \/ ~loads[n].redeems \/ loads[n].overtaken \/ Current(server, loads[n])
      BY <2>1 DEF FreshInv, LastFresh
    <3> QED
      BY <1>2, <1>4, <2>1, <3>1 DEF LastFresh
  <2>3. loads'[n - 1].overtaken => lag'
    BY <1>1, <1>3, <1>5, <1>7, <2>1
  <2>4. PageFresh'
    BY <1>2, <2>1, <2>3 DEF PageFresh
  <2> QED
    BY <1>6, <2>2, <2>4 DEF FreshInv
<1>8. CASE k = n
  <2>1. LastFresh'
    <3>1. \A j \in 1 .. Len(loads') : loads'[j].overtaken
      BY <1>1, <1>2, <1>8
    <3> QED
      BY <3>1 DEF LastFresh
  <2>2. ASSUME ~lag', ~Owed(calls), NEW l \in TabLists(tab)
        PROVE  view'[l] = ReadOf(server, l, tenant)
    <3>1. /\ ~loads[k].overtaken /\ loads[k].failed = {} /\ loads[k].tenant = tenant
          /\ loads[k].redeems
      BY <1>1, <1>3, <1>5, <2>2
    <3>2. Current(server, loads[k])
      BY <1>8, <2>2, <3>1 DEF FreshInv, LastFresh
    <3>3. l \in DOMAIN loads[k].got
      BY <3>1 DEF LoadArrives, Settled
    <3>4. view'[l] = loads[k].got[l]
      BY <3>3, ArrivedView
    <3> QED
      BY <3>1, <3>2, <3>3, <3>4 DEF Current
  <2>3. PageFresh'
    BY <1>4, <2>2, Zenon DEF PageFresh
  <2> QED
    BY <1>6, <2>1, <2>3 DEF FreshInv
<1> QED
  BY <1>1, <1>7, <1>8

\* Only the end of a call that owes a load can settle what is owed.
LEMMA EndedOwed ==
  ASSUME NEW s \in Slots, Puts(s, NoCall), ~Owes(calls[s]), Owed(calls)
  PROVE  Owed(calls')
  BY DEF Owed, Puts

LEMMA FreshKept ==
  ASSUME ConsoleShape, FreshInv, [ConsoleNext]_consoleVars
  PROVE  FreshInv'
<1>0. LoadsOK /\ CallsOK
  BY DEF ConsoleShape
<1>1. ASSUME Sends PROVE FreshInv'
  <2>1. PICK c : NewCall(c) /\ Send(c)
    BY <1>1 DEF Sends
  <2>2. PICK s \in Slots : calls[s] = NoCall /\ Puts(s, c)
    BY <1>0, <2>1, SentCalls
  <2>3. Owed(calls) => Owed(calls')
    BY <2>2, NoCallFields DEF Owed, Owes, Puts
  <2> QED
    BY <2>1, <2>3, QuietFresh DEF Send
<1>2. ASSUME FormStep \/ UNCHANGED consoleVars PROVE FreshInv'
  BY <1>2, QuietFresh DEF FormStep, consoleVars
<1>3. ASSUME Reloads PROVE FreshInv'
  <2>1. PICK t \in Tenants : SendLoad(t) /\ lag' = lag
    BY <1>3 DEF Reloads
  <2> QED
    BY <1>0, <2>1, LoadSent, AddedFresh
<1>4. ASSUME NEW k \in 1 .. Len(loads), LoadArrives(k) PROVE FreshInv'
  BY <1>4, ArrivedFresh
<1>5. ASSUME NEW k \in 1 .. Len(loads), NEW l, ListAnswered(k, l) PROVE FreshInv'
  <2>1. PICK d : /\ Replaced(k, d) /\ LoadOK(d)
                 /\ l \in TabLists(tab) \ DOMAIN loads[k].got
                 /\ DOMAIN d.got = DOMAIN loads[k].got \cup {l}
                 /\ d.got[l] = ReadOf(server, l, loads[k].tenant)
                 /\ \A x \in DOMAIN loads[k].got : d.got[x] = loads[k].got[x]
    BY <1>5, ListAnsweredLoads
  <2>2. Current(server, loads[k]) => Current(server, d)
    BY <2>1 DEF Current, Replaced
  <2> QED
    BY <1>0, <1>5, <2>1, <2>2, ReplacedFresh DEF ListAnswered
<1>6. ASSUME NEW k \in 1 .. Len(loads), NEW l, ListFails(k, l) PROVE FreshInv'
  <2>1. PICK d : Replaced(k, d) /\ LoadOK(d) /\ d.got = loads[k].got
    BY <1>6, ListFailsLoads
  <2>2. Current(server, loads[k]) => Current(server, d)
    BY <2>1 DEF Current, Replaced
  <2> QED
    BY <1>0, <1>6, <2>1, <2>2, ReplacedFresh DEF ListFails
<1>7. ASSUME NEW s \in Slots, Execute(s) PROVE FreshInv'
  <2>1. Carried(s) /\ Fits(calls[s]) /\ (tab = "plugins" => PluginTurns(calls[s], server'))
    BY <1>0, <1>7, ExecutedCalls, ExecutedServer
  <2>2. CASE calls[s].kind = "probe"
    <3>1. tab = "plugins"
      BY <2>1, <2>2 DEF Fits, TrialKinds, ReviewKinds, RoleKinds, GrantKinds, PermKinds
    <3>2. server' = server
      BY <2>1, <2>2, <3>1 DEF PluginTurns
    <3>3. ASSUME NEW x \in Slots, Owes(calls[x]) PROVE Owes(calls'[x])
      <4>1. x # s
        BY <2>2, <3>3 DEF Owes
      <4> QED
        BY <2>1, <3>3, <4>1 DEF Carried, Advances, Owes
    <3>4. Owed(calls) => Owed(calls')
      BY <3>3 DEF Owed
    <3> QED
      BY <1>7, <3>2, <3>4, QuietFresh DEF Execute
  <2>3. CASE calls[s].kind # "probe"
    <3>1. Owes(calls'[s])
      BY <2>1, <2>3 DEF Carried, Advances, Owes
    <3>2. Owed(calls')
      BY <3>1 DEF Owed
    <3> QED
      BY <1>7, <3>2, OwedFresh DEF Execute
  <2> QED
    BY <2>2, <2>3
<1>8. ASSUME NEW s \in Slots, RefuseCall(s) PROVE FreshInv'
  <2>1. PICK c \in CallType : Puts(s, c) /\ Advances(c, calls[s])
                              /\ calls[s].phase = "sent" /\ c.phase = "refused"
    BY <1>0, <1>8, RefusedCalls
  <2>2. ASSUME NEW x \in Slots, Owes(calls[x]) PROVE Owes(calls'[x])
    BY <2>1, <2>2 DEF Puts, Advances, Owes
  <2>3. Owed(calls) => Owed(calls')
    BY <2>2 DEF Owed
  <2> QED
    BY <1>8, <2>3, QuietFresh DEF RefuseCall
<1>9. ASSUME NEW s \in Slots, Finish(s) PROVE FreshInv'
  <2>1. PICK t \in Tenants : t = calls[s].tenant
    BY <1>0 DEF CallsOK, CallType
  <2>2. SendLoad(t) /\ lag' = lag
    BY <1>9, <2>1 DEF Finish
  <2> QED
    BY <1>0, <2>2, LoadSent, AddedFresh
<1>10. ASSUME NEW s \in Slots, ProbeOk(s) PROVE FreshInv'
  <2>1. Puts(s, NoCall) /\ ~Owes(calls[s])
    BY <1>0, <1>10, EndedCalls DEF ProbeOk, Owes
  <2>2. Owed(calls) => Owed(calls')
    BY <2>1, EndedOwed
  <2> QED
    BY <1>10, <2>2, QuietFresh DEF ProbeOk
<1>11. ASSUME NEW s \in Slots, CallFails(s) PROVE FreshInv'
  <2>1. CASE calls[s].phase = "executed"
    <3>1. Doubted
      BY <1>0, <1>11, <2>1, MissedLoads DEF CallFails
    <3>2. lag' = TRUE
      BY <1>11, <2>1 DEF CallFails, Missed
    <3> QED
      BY <1>0, <3>1, <3>2, DoubtedFresh
  <2>2. CASE calls[s].phase # "executed"
    <3>1. Puts(s, NoCall) /\ ~Owes(calls[s])
      BY <1>0, <1>11, <2>2, EndedCalls DEF CallFails, Owes
    <3>2. Owed(calls) => Owed(calls')
      BY <3>1, EndedOwed
    <3> QED
      BY <1>11, <2>2, <3>2, QuietFresh DEF CallFails
  <2> QED
    BY <2>1, <2>2
<1>12. ASSUME NEW s \in Slots, AssignNext(s) PROVE FreshInv'
  <2>1. PICK d : Puts(s, d) /\ Proceeds(calls[s], d)
    BY <1>0, <1>12, AssignedCalls
  <2>2. Owed(calls')
    BY <2>1 DEF Owed, Owes, Puts, Proceeds
  <2> QED
    BY <1>12, <2>2, OwedFresh DEF AssignNext
<1>13. ASSUME Missed PROVE FreshInv'
  BY <1>0, <1>13, MissedLoads, DoubtedFresh DEF Missed
<1>14. ASSUME Elsewhere PROVE Missed
  BY <1>14 DEF Elsewhere, ExecuteUnseen
<1>15. ASSUME NEW i \in Insts, TrialExpires(i) PROVE Missed
  BY <1>15 DEF TrialExpires
<1> QED
  BY <1>1, <1>2, <1>3, <1>4, <1>5, <1>6, <1>7, <1>8, <1>9, <1>10, <1>11, <1>12, <1>13, <1>14,
     <1>15, ConsoleCases, Zenon

-----------------------------------------------------------------------------
(***************************************************************************)
(* A role that is being created has what was assigned so far.              *)
(***************************************************************************)
LEMMA SameBuilt ==
  ASSUME NEW c, NEW d, NEW sv, Built(sv, c), Advances(d, c), d.clean => c.clean,
         d.phase = c.phase \/ (d.phase = "refused" /\ c.phase = "sent")
  PROVE  Built(sv, d)
  BY DEF Built, Advances

LEMMA ProceedsBuilt ==
  ASSUME NEW c, NEW d, NEW sv, Built(sv, c), Proceeds(c, d)
  PROVE  Built(sv, d)
<1> SUFFICES ASSUME d.clean
             PROVE  sv.roles[c.item].exists
                    /\ sv.roles[c.item].perms = d.want \ (d.rest \cup {d.to})
  BY DEF Built, Proceeds
<1>1. c.clean /\ c.phase = "executed" /\ c.kind \in {"createRole", "assignNew"}
  BY DEF Proceeds, Creating
<1>2. sv.roles[c.item].exists /\ sv.roles[c.item].perms = c.want \ c.rest
  BY <1>1 DEF Built
<1>3. d.rest \cup {d.to} = c.rest /\ d.want = c.want
  BY DEF Proceeds
<1> QED
  BY <1>2, <1>3

\* The gateway carries out another call, which leaves a clean creation alone.
LEMMA OtherBuilt ==
  ASSUME CallsOK, BuiltInv, NEW x \in Slots, NEW o, calls'[x] \in CallType,
         tab = "rbac" => RoleTurns(o, server'), Advances(calls'[x], calls[x]),
         calls'[x].phase = calls[x].phase, calls'[x].clean => calls[x].clean,
         calls'[x].clean /\ Creating(calls[x]) => o.item # calls[x].item /\ o.kind # "deletePerm"
  PROVE  Built(server', calls'[x])
<1>1. PICK c \in CallType : c = calls[x]
  BY DEF CallsOK
<1>2. PICK d \in CallType : d = calls'[x]
  OBVIOUS
<1>3. SUFFICES ASSUME d.clean, d.kind = "assignNew" \/ (d.kind = "createRole" /\ d.phase = "executed")
               PROVE  Built(server', d)
  BY <1>2 DEF Built
<1>4. c.kind = d.kind /\ Creating(c) /\ c.clean /\ d.item = c.item
  BY <1>1, <1>2, <1>3 DEF Advances, Creating
<1>5. Fits(c)
  BY <1>1, <1>4 DEF CallsOK, CallOK, Creating
<1>6. tab = "rbac" /\ c.item \in RoleIds
  BY <1>4, <1>5 DEF Fits, Creating, TrialKinds, ReviewKinds, PluginKinds, PermKinds
<1>7. server'.roles[c.item] = server.roles[c.item]
  BY <1>1, <1>2, <1>3, <1>4, <1>6 DEF RoleTurns
<1>8. Built(server, d)
  BY <1>1, <1>2, SameBuilt DEF BuiltInv
<1> QED
  BY <1>4, <1>7, <1>8 DEF Built

\* The gateway carries out the call of a slot.
LEMMA ExecutedBuilt ==
  ASSUME ConsoleShape, BuiltInv, NEW s \in Slots, Execute(s)
  PROVE  BuiltInv'
<1>1. Carried(s) /\ Fits(calls[s]) /\ (tab = "rbac" => RoleTurns(calls[s], server'))
  BY ExecutedCalls, ExecutedServer DEF ConsoleShape
<1>2. CallsOK
  BY DEF ConsoleShape
<1>3. ASSUME NEW x \in Slots PROVE Built(server', calls'[x])
  <2>1. PICK c \in CallType : c = calls[x]
    BY <1>2 DEF CallsOK
  <2>2. PICK d \in CallType : d = calls'[x]
    BY <1>1 DEF Carried
  <2>3. Advances(d, c) /\ (d.clean => c.clean)
    BY <1>1, <2>1, <2>2 DEF Carried
  <2>4. Built(server, c)
    BY <2>1 DEF BuiltInv
  <2>5. SUFFICES ASSUME d.clean, d.kind = "assignNew" \/ (d.kind = "createRole" /\ d.phase = "executed")
                 PROVE  /\ server'.roles[d.item].exists
                        /\ server'.roles[d.item].perms =
                             (IF d.phase = "executed" THEN d.want \ d.rest
                              ELSE d.want \ (d.rest \cup {d.to}))
    BY <2>2 DEF Built
  <2>6. c.kind = d.kind /\ Creating(c) /\ c.clean
    BY <2>3, <2>5 DEF Advances, Creating
  <2>7. c.phase # "-"
    BY <1>2, <2>1, <2>6 DEF CallsOK, CallOK, Creating
  <2>8. Fits(c)
    BY <1>2, <2>1, <2>7 DEF CallsOK, CallOK
  <2>9. tab = "rbac" /\ c.item \in RoleIds /\ (c.kind = "assignNew" => c.to \in c.want \ c.rest)
        /\ (c.kind = "createRole" => c.rest = c.want)
    BY <2>6, <2>8 DEF Fits, Creating, TrialKinds, ReviewKinds, PluginKinds, PermKinds
  <2>10. RoleTurns(calls[s], server')
    BY <1>1, <2>9
  <2>11. CASE x = s
    <3>1. d.phase = "executed" /\ c.phase = "sent" /\ RoleTurns(c, server')
      BY <1>1, <2>1, <2>2, <2>10, <2>11 DEF Carried
    <3>2. CASE c.kind = "createRole"
      <4>1. server'.roles[c.item].exists /\ server'.roles[c.item].perms = {}
        BY <3>1, <3>2 DEF RoleTurns
      <4> QED
        BY <2>3, <2>9, <3>1, <3>2, <4>1 DEF Advances
    <3>3. CASE c.kind = "assignNew"
      <4>1. server.roles[c.item].exists
            /\ server.roles[c.item].perms = c.want \ (c.rest \cup {c.to})
        BY <2>4, <2>6, <3>1, <3>3 DEF Built
      <4>2. /\ server'.roles[c.item].exists = server.roles[c.item].exists
            /\ server'.roles[c.item].perms = server.roles[c.item].perms \cup {c.to}
        BY <3>1, <3>3 DEF RoleTurns
      <4>3. (c.want \ (c.rest \cup {c.to})) \cup {c.to} = c.want \ c.rest
        BY <2>9, <3>3
      <4> QED
        BY <2>3, <3>1, <4>1, <4>2, <4>3 DEF Advances
    <3> QED
      BY <2>6, <3>2, <3>3 DEF Creating
  <2>12. CASE x # s
    <3>1. Built(server', d)
      BY <1>1, <1>2, <2>2, <2>12, OtherBuilt DEF Carried
    <3> QED
      BY <2>5, <3>1 DEF Built
  <2> QED
    BY <2>11, <2>12
<1> QED
  BY <1>3 DEF BuiltInv

\* The gateway is not asked, and a slot's call changes.
LEMMA PutBuilt ==
  ASSUME BuiltInv, server' = server, NEW s \in Slots, NEW c, Puts(s, c),
         Built(server, calls[s]) => Built(server, c)
  PROVE  BuiltInv'
  BY DEF BuiltInv, Puts

LEMMA SameCallsBuilt ==
  ASSUME BuiltInv, UNCHANGED <<server, calls>>
  PROVE  BuiltInv'
  BY DEF BuiltInv

LEMMA BuiltKept ==
  ASSUME ConsoleShape, BuiltInv, [ConsoleNext]_consoleVars
  PROVE  BuiltInv'
<1>0. CallsOK
  BY DEF ConsoleShape
<1>1. ASSUME Sends PROVE BuiltInv'
  <2>1. PICK c : NewCall(c) /\ Send(c)
    BY <1>1 DEF Sends
  <2>2. PICK s \in Slots : Puts(s, c)
    BY <1>0, <2>1, SentCalls
  <2>3. Built(server, c)
    BY <2>1 DEF NewCall, Built
  <2> QED
    BY <2>1, <2>2, <2>3, PutBuilt DEF Send
<1>2. ASSUME FormStep \/ UNCHANGED consoleVars PROVE BuiltInv'
  BY <1>2, SameCallsBuilt DEF FormStep, consoleVars
<1>3. ASSUME Reloads PROVE BuiltInv'
  BY <1>3, SameCallsBuilt DEF Reloads
<1>4. ASSUME NEW k \in 1 .. Len(loads), LoadArrives(k) PROVE BuiltInv'
  BY <1>4, SameCallsBuilt DEF LoadArrives
<1>5. ASSUME NEW k \in 1 .. Len(loads), NEW l, ListAnswered(k, l) PROVE BuiltInv'
  BY <1>5, SameCallsBuilt DEF ListAnswered
<1>6. ASSUME NEW k \in 1 .. Len(loads), NEW l, ListFails(k, l) PROVE BuiltInv'
  BY <1>6, SameCallsBuilt DEF ListFails
<1>7. ASSUME NEW s \in Slots, Execute(s) PROVE BuiltInv'
  BY <1>7, ExecutedBuilt
<1>8. ASSUME NEW s \in Slots, RefuseCall(s) PROVE BuiltInv'
  <2>1. PICK c \in CallType :
          /\ Puts(s, c) /\ Advances(c, calls[s]) /\ c.clean = calls[s].clean
          /\ calls[s].phase = "sent" /\ c.phase = "refused"
    BY <1>0, <1>8, RefusedCalls
  <2>2. Built(server, calls[s]) => Built(server, c)
    BY <2>1, SameBuilt
  <2> QED
    BY <1>8, <2>1, <2>2, PutBuilt DEF RefuseCall
<1>9. Built(server, NoCall)
  BY NoCallFields DEF Built
<1>10. ASSUME NEW s \in Slots, Finish(s) \/ ProbeOk(s) \/ CallFails(s) PROVE BuiltInv'
  <2>1. Puts(s, NoCall)
    BY <1>0, <1>10, EndedCalls DEF Finish, ProbeOk, CallFails
  <2>2. server' = server
    BY <1>10 DEF Finish, ProbeOk, CallFails
  <2> QED
    BY <1>9, <2>1, <2>2, PutBuilt
<1>11. ASSUME NEW s \in Slots, AssignNext(s) PROVE BuiltInv'
  <2>1. PICK d : Puts(s, d) /\ Proceeds(calls[s], d)
    BY <1>0, <1>11, AssignedCalls
  <2>2. Built(server, calls[s]) => Built(server, d)
    BY <2>1, ProceedsBuilt
  <2> QED
    BY <1>11, <2>1, <2>2, PutBuilt DEF AssignNext
<1>12. ASSUME Elsewhere PROVE BuiltInv'
  <2>1. PICK c : c \in CallType /\ Formed(c) /\ ExecuteUnseen(c)
    BY <1>12 DEF Elsewhere
  <2>2. Faded(c)
    BY <1>0, <2>1, UnseenCalls
  <2>3. tab = "rbac" => RoleTurns(c, server')
    BY <2>1, EffectKeeps DEF ExecuteUnseen
  <2>4. \A x \in Slots : Built(server', calls'[x])
    BY <1>0, <2>2, <2>3, OtherBuilt DEF Faded
  <2> QED
    BY <2>4 DEF BuiltInv
<1>13. ASSUME NEW i \in Insts, TrialExpires(i) PROVE BuiltInv'
  <2>1. server'.roles = server.roles /\ calls' = calls
    BY <1>13, ExpiredServer DEF TrialExpires, ConsoleShape
  <2> QED
    BY <2>1 DEF BuiltInv, Built
<1> QED
  BY <1>1, <1>2, <1>3, <1>4, <1>5, <1>6, <1>7, <1>8, <1>10, <1>11, <1>12, <1>13, ConsoleCases,
     Zenon

-----------------------------------------------------------------------------
(***************************************************************************)
(* What holds of the console always.                                       *)
(***************************************************************************)
ConsoleInv == ConsoleShape /\ OneSubmit /\ FreshInv /\ BuiltInv

LEMMA InitInv == ConsoleInit => ConsoleInv
<1> SUFFICES ASSUME ConsoleInit PROVE ConsoleInv
  OBVIOUS
<1>1. ConsoleShape
  BY InitShape
<1>2. \A s \in Slots : calls[s] = NoCall
  BY DEF ConsoleInit
<1>3. OneSubmit
  <2>1. isSubmitting = FALSE
    BY DEF ConsoleInit
  <2>2. \A s \in Slots : ~Submits(calls[s].kind)
    BY <1>2, NoCallFields, SubmitsOf
  <2> QED
    BY <2>1, <2>2, Zenon DEF OneSubmit
<1>4. FreshInv
  <2>1. Len(loads) = 1 /\ loads[1] = Load(NoItem)
    BY DEF ConsoleInit
  <2>2. DOMAIN loads[1].got = {} /\ ~loads[1].overtaken /\ loads[1].redeems
    BY <2>1 DEF Load
  <2>3. \A k \in 1 .. Len(loads) : k = 1
    BY <2>1
  <2>4. FlagOrder
    BY <2>2, <2>3 DEF FlagOrder
  <2>5. LastFresh
    BY <2>2, <2>3 DEF LastFresh, Current
  <2>6. PageFresh
    BY <2>1, <2>2 DEF PageFresh
  <2> QED
    BY <2>4, <2>5, <2>6 DEF FreshInv
<1>5. BuiltInv
  BY <1>2, NoCallFields DEF BuiltInv, Built
<1> QED
  BY <1>1, <1>3, <1>4, <1>5 DEF ConsoleInv

LEMMA ConsoleAlways == ConsoleSpec => []ConsoleInv
<1>1. ConsoleInv /\ [ConsoleNext]_consoleVars => ConsoleInv'
  BY ShapeKept, SubmitKept, FreshKept, BuiltKept DEF ConsoleInv
<1> QED
  BY <1>1, InitInv, PTL DEF ConsoleSpec

\* The console's state keeps its shape: the loads ask for the lists of the
\* tab, a role has permissions that exist, and isSubmitting is on exactly while
\* a form's call is under way.
THEOREM ConsoleTypeCorrect == ConsoleSpec => []ConsoleTypeOK
<1>1. ConsoleInv => ConsoleTypeOK
  <2> SUFFICES ASSUME ConsoleInv PROVE ConsoleTypeOK
    OBVIOUS
  <2>1. ConsoleShape /\ OneSubmit /\ LoadsOK /\ CallsOK /\ ServerOK
    BY DEF ConsoleInv, ConsoleShape
  <2>2. \A k \in DOMAIN loads : Settled(loads[k]) \subseteq TabLists(tab)
    <3>1. DOMAIN loads = 1 .. Len(loads)
      BY <2>1 DEF LoadsOK
    <3> QED
      BY <2>1, <3>1 DEF LoadsOK, LoadOK
  <2>3. \A s \in Slots : calls[s].want \subseteq PermNames /\ calls[s].rest \subseteq calls[s].want
    <3> SUFFICES ASSUME NEW s \in Slots
                 PROVE  calls[s].want \subseteq PermNames /\ calls[s].rest \subseteq calls[s].want
      OBVIOUS
    <3>1. calls[s] \in CallType /\ CallOK(calls[s])
      BY <2>1 DEF CallsOK
    <3> QED
      BY <3>1 DEF CallType, CallOK, Fits
  <2>4. \A i \in Insts : server.trials[i].status \in {"none", "active", "paused", "expired"}
    BY <2>1 DEF ServerOK, ServerType, TrialType
  <2>5. isSubmitting = (\E c \in Pending : Submits(c.kind))
    <3>1. ASSUME NEW s \in Slots, Submits(calls[s].kind) PROVE calls[s] # NoCall
      BY <3>1, NoCallFields, SubmitsOf
    <3>2. (\E c \in Pending : Submits(c.kind)) <=> \E s \in Slots : Submits(calls[s].kind)
      BY <3>1 DEF Pending
    <3> QED
      BY <2>1, <3>2, Zenon DEF OneSubmit
  <2> QED
    BY <2>1, <2>2, <2>3, <2>4, <2>5 DEF ConsoleTypeOK, ConsoleShape, LoadsOK, ServerOK
<1> QED
  BY <1>1, ConsoleAlways, PTL

\* When nothing is under way the page shows what the gateway holds, whatever
\* the order in which calls and loads were answered, unless the history flag
\* says that a change was missed and not made up for.
THEOREM QuietPagesAreFresh == ConsoleSpec => []QuietViewFresh
<1>1. ConsoleInv => QuietViewFresh
  <2> SUFFICES ASSUME ConsoleInv, loads = <<>>, Pending = {}, ~lag, NEW l \in TabLists(tab)
               PROVE  view[l] = Read(l, tenant)
    BY DEF QuietViewFresh
  <2>1. \A s \in Slots : calls[s] = NoCall
    BY DEF Pending
  <2>2. ~Owed(calls)
    BY <2>1, NoCallFields DEF Owed, Owes
  <2>3. view[l] = ReadOf(server, l, tenant)
    <3>1. \A k \in 1 .. Len(loads) : loads[k].overtaken
      OBVIOUS
    <3> QED
      BY <2>2, <3>1 DEF ConsoleInv, FreshInv, PageFresh
  <2>4. server \in ServerType /\ l \in Lists /\ tenant \in Tenants
    BY TabListsAreLists DEF ConsoleInv, ConsoleShape, ServerOK
  <2> QED
    BY <2>3, <2>4, ReadType
<1> QED
  BY <1>1, ConsoleAlways, PTL

\* A switch of the console inverts what is in force when the gateway carries it
\* out, if that is what the administrator saw; a tenant's switch only while the
\* plugin is enabled globally.
THEOREM SwitchesInvert == ConsoleSpec => SwitchInverts
<1>1. ASSUME ConsoleInv, [ConsoleNext]_consoleVars, NEW s \in Slots,
             calls'[s].phase = "executed", calls[s].phase = "sent"
      PROVE  Execute(s)
  <2>0. ConsoleShape /\ CallsOK
    BY <1>1 DEF ConsoleInv, ConsoleShape
  <2>1. ASSUME Sends PROVE FALSE
    <3>1. PICK c : NewCall(c) /\ Send(c)
      BY <2>1 DEF Sends
    <3>2. PICK x \in Slots : Puts(x, c)
      BY <2>0, <3>1, SentCalls
    <3> QED
      BY <1>1, <3>1, <3>2 DEF Puts, NewCall
  <2>2. ASSUME FormStep \/ UNCHANGED consoleVars \/ Reloads PROVE FALSE
    BY <1>1, <2>2 DEF FormStep, consoleVars, Reloads
  <2>3. ASSUME NEW k \in 1 .. Len(loads), LoadArrives(k) PROVE FALSE
    BY <1>1, <2>3 DEF LoadArrives
  <2>4. ASSUME NEW k \in 1 .. Len(loads), NEW l, ListAnswered(k, l) \/ ListFails(k, l) PROVE FALSE
    BY <1>1, <2>4 DEF ListAnswered, ListFails
  <2>5. ASSUME NEW x \in Slots, Execute(x) PROVE Execute(s)
    <3>1. Carried(x)
      BY <2>0, <2>5, ExecutedCalls
    <3>2. x = s
      BY <1>1, <3>1 DEF Carried
    <3> QED
      BY <2>5, <3>2
  <2>6. ASSUME NEW x \in Slots, RefuseCall(x) PROVE FALSE
    <3>1. PICK c \in CallType : Puts(x, c) /\ c.phase = "refused"
      BY <2>0, <2>6, RefusedCalls
    <3> QED
      BY <1>1, <3>1 DEF Puts
  <2>7. ASSUME NEW x \in Slots, Finish(x) \/ ProbeOk(x) \/ CallFails(x) PROVE FALSE
    <3>1. Puts(x, NoCall)
      BY <2>0, <2>7, EndedCalls DEF Finish, ProbeOk, CallFails
    <3> QED
      BY <1>1, <3>1, NoCallFields DEF Puts
  <2>8. ASSUME NEW x \in Slots, AssignNext(x) PROVE FALSE
    <3>1. PICK d : Puts(x, d) /\ Proceeds(calls[x], d)
      BY <2>0, <2>8, AssignedCalls
    <3> QED
      BY <1>1, <3>1 DEF Puts, Proceeds
  <2>9. ASSUME Elsewhere PROVE FALSE
    <3>1. PICK c : Faded(c)
      BY <2>0, <2>9, UnseenCalls DEF Elsewhere
    <3> QED
      BY <1>1, <3>1 DEF Faded
  <2>10. ASSUME NEW i \in Insts, TrialExpires(i) PROVE FALSE
    BY <1>1, <2>10 DEF TrialExpires
  <2> QED
    BY <1>1, <2>0, <2>1, <2>2, <2>3, <2>4, <2>5, <2>6, <2>7, <2>8, <2>9, <2>10, ConsoleCases,
       Zenon
<1>2. ASSUME ConsoleInv, [ConsoleNext]_consoleVars, NEW s \in Slots,
             calls'[s].phase = "executed", calls[s].phase = "sent"
      PROVE  LET c == calls[s] IN
             /\ SwitchHolds(c) /\ c.basis = InForce(c.item, c.tenant)
                  => InForce(c.item, c.tenant)' # InForce(c.item, c.tenant)
             /\ c.kind \in {"assign", "unassign"}
                  /\ (c.basis = "on") = (c.to \in server.roles[c.item].perms)
                  => (c.to \in server'.roles[c.item].perms) # (c.to \in server.roles[c.item].perms)
  <2>0. Execute(s) /\ ConsoleShape /\ CallsOK
    BY <1>1, <1>2 DEF ConsoleInv, ConsoleShape
  <2>1. /\ Carried(s) /\ Fits(calls[s]) /\ ServerOK /\ Acceptable(calls[s])
        /\ tab = "plugins" => PluginTurns(calls[s], server')
        /\ tab = "rbac" => RoleTurns(calls[s], server')
    BY <2>0, ExecutedCalls, ExecutedServer DEF ConsoleShape
  <2>2. PICK c \in CallType : c = calls[s]
    BY <2>0 DEF CallsOK
  <2>3. calls'[s].item = c.item /\ calls'[s].tenant = c.tenant
    BY <2>1, <2>2 DEF Carried, Advances
  <2>4. ASSUME SwitchHolds(c), c.basis = InForce(c.item, c.tenant)
        PROVE  InForce(calls[s].item, calls[s].tenant)' # c.basis
    <3>0. c.kind = "toggle" \/ (c.kind = "override" /\ EnabledGlobally(c.item))
      BY <2>4 DEF SwitchHolds
    <3>1. /\ tab = "plugins" /\ c.item \in PluginIds /\ c.to \in Flags /\ c.to # c.basis
          /\ c.kind = "toggle" => c.tenant = NoItem
          /\ c.kind = "override" => c.tenant # NoItem
      BY <2>1, <2>2, <3>0 DEF Fits, TrialKinds, ReviewKinds, RoleKinds, GrantKinds, PermKinds
    <3>2. PluginTurns(c, server') /\ Acceptable(c)
      BY <2>1, <2>2, <3>1
    <3>3. InForce(calls[s].item, calls[s].tenant)' = c.to
      <4>1. CASE c.kind = "toggle"
        <5>1. /\ c.tenant = NoItem /\ server'.plugins[c.item].enabled = c.to
              /\ server'.plugins[c.item].exists
          BY <3>1, <3>2, <4>1 DEF PluginTurns, Acceptable
        <5> QED
          BY <2>3, <3>1, <5>1 DEF InForce, EnabledGlobally, Flags
      <4>2. CASE c.kind = "override"
        <5>1. /\ c.tenant # NoItem /\ server'.plugins[c.item].over[c.tenant] = c.to
              /\ server'.plugins[c.item].exists /\ server'.plugins[c.item].enabled = "on"
          BY <3>0, <3>1, <3>2, <4>2 DEF PluginTurns, EnabledGlobally
        <5>2. c.to # "unset"
          BY <3>1 DEF Flags
        <5> QED
          BY <2>3, <5>1, <5>2 DEF InForce, EnabledGlobally
      <4> QED
        BY <3>0, <4>1, <4>2
    <3> QED
      BY <2>4, <3>1, <3>3
  <2>5. ASSUME c.kind \in {"assign", "unassign"},
               (c.basis = "on") = (c.to \in server.roles[c.item].perms)
        PROVE  (c.to \in server'.roles[c.item].perms) # (c.to \in server.roles[c.item].perms)
    <3>1. /\ tab = "rbac" /\ c.item \in RoleIds
          /\ c.kind = "assign" => c.basis = "off"
          /\ c.kind = "unassign" => c.basis = "on"
      BY <2>1, <2>2, <2>5 DEF Fits, TrialKinds, ReviewKinds, PluginKinds, PermKinds
    <3>2. RoleTurns(c, server')
      BY <2>1, <2>2, <3>1
    <3>3. CASE c.kind = "assign"
      <4>1. c.to \notin server.roles[c.item].perms
        BY <2>5, <3>1, <3>3
      <4>2. c.to \in server'.roles[c.item].perms
        BY <3>2, <3>3 DEF RoleTurns
      <4> QED
        BY <4>1, <4>2
    <3>4. CASE c.kind = "unassign"
      <4>1. c.to \in server.roles[c.item].perms
        BY <2>5, <3>1, <3>4
      <4>2. c.to \notin server'.roles[c.item].perms
        BY <3>2, <3>4 DEF RoleTurns
      <4> QED
        BY <4>1, <4>2
    <3> QED
      BY <2>5, <3>3, <3>4
  <2> QED
    BY <2>2, <2>4, <2>5
<1>3. ConsoleInv /\ [ConsoleNext]_consoleVars =>
        \A s \in Slots :
          LET c == calls[s] IN
          calls'[s].phase = "executed" /\ c.phase = "sent" =>
            /\ SwitchHolds(c) /\ c.basis = InForce(c.item, c.tenant)
                 => InForce(c.item, c.tenant)' # InForce(c.item, c.tenant)
            /\ c.kind \in {"assign", "unassign"}
                 /\ (c.basis = "on") = (c.to \in server.roles[c.item].perms)
                 => (c.to \in server'.roles[c.item].perms) # (c.to \in server.roles[c.item].perms)
  BY <1>2
<1> QED
  BY <1>3, ConsoleAlways, PTL DEF ConsoleSpec, SwitchInverts

\* When the console reports that a role was created with the chosen
\* permissions, the role has them, unless an assignment failed or another call
\* touched the role in between.
THEOREM CreatedRolesAreWhole == ConsoleSpec => CreatedWhole
<1>1. ASSUME ConsoleInv, NEW s \in Slots, CreateRoleDone(s), calls[s].clean,
             calls[s].phase = "executed"
      PROVE  server.roles[calls[s].item] = [exists |-> TRUE, perms |-> calls[s].want]
  <2>1. PICK c \in CallType : c = calls[s]
    BY <1>1 DEF ConsoleInv, ConsoleShape, CallsOK
  <2>2. Creating(c) /\ c.rest = {} /\ c.clean /\ c.phase = "executed"
    BY <1>1, <2>1 DEF CreateRoleDone
  <2>3. Fits(c)
    BY <1>1, <2>1, <2>2 DEF ConsoleInv, ConsoleShape, CallsOK, CallOK
  <2>4. c.item \in RoleIds
    BY <2>2, <2>3 DEF Fits, Creating, TrialKinds, ReviewKinds, PluginKinds, PermKinds
  <2>5. Built(server, c)
    BY <1>1, <2>1 DEF ConsoleInv, BuiltInv
  <2>6. server.roles[c.item].exists /\ server.roles[c.item].perms = c.want \ c.rest
    BY <2>2, <2>5 DEF Built, Creating
  <2>7. server.roles[c.item] \in RoleType
    BY <1>1, <2>4 DEF ConsoleInv, ConsoleShape, ServerOK, ServerType
  <2>8. PICK r \in RoleType : r = server.roles[c.item]
    BY <2>7
  <2>9. r.exists = TRUE /\ r.perms = c.want
    BY <2>2, <2>6, <2>8 DEF RoleType
  <2>10. r = [exists |-> TRUE, perms |-> c.want]
    BY <2>9 DEF RoleType
  <2> QED
    BY <2>1, <2>8, <2>10
<1>2. ConsoleInv => \A s \in Slots : CreateRoleDone(s) /\ calls[s].clean /\ calls[s].phase = "executed"
        => server.roles[calls[s].item] = [exists |-> TRUE, perms |-> calls[s].want]
  BY <1>1
<1> QED
  BY <1>2, ConsoleAlways, PTL DEF CreatedWhole, ConsoleSpec
=============================================================================
