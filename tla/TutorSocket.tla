----------------------------- MODULE TutorSocket -----------------------------
(***************************************************************************)
(* The student's chat pages over the reconnecting socket of                *)
(* wsTutorService.ts.  Every visit of a page makes a WSTutorService of its *)
(* own and disconnects it when the page goes away; what the service of an  *)
(* earlier visit still does, it does unseen.  SocraticTutorPage ("tutor")  *)
(* has a button that calls connect() again, StudentChatHub ("hub") has not.*)
(***************************************************************************)
EXTENDS Naturals

CONSTANTS
  Pages,         \* pages opened in an instance: "tutor", "hub"
  MaxVisits,     \* bound: visits of the page
  MaxReconnects, \* maxReconnectAttempts
  MaxOrphans     \* bound: timers the service has lost track of

ASSUME TutorAssumption ==
  /\ Pages \subseteq {"tutor", "hub"}
  /\ MaxVisits \in Nat /\ MaxReconnects \in Nat /\ MaxOrphans \in Nat

Visits == 1 .. MaxVisits

VARIABLES
  page,  \* the page this student uses
  visit, \* number of the current or last visit
  here,  \* the page is mounted
  svc,   \* per visit, its service and socket
  shown, \* connection state on the screen
  error  \* an error is on the screen

tutorVars == <<page, visit, here, svc, shown, error>>

\* orphans counts pending timers whose id was overwritten; stranded, history,
\* says that Retry was pressed while a reconnect was pending.
NewService ==
  [sock |-> "none", asked |-> "no", timer |-> FALSE, orphans |-> 0,
   attempts |-> 0, explicit |-> FALSE, state |-> "disconnected",
   stranded |-> FALSE]

TutorInit ==
  /\ page \in Pages
  /\ visit = 0 /\ here = FALSE
  /\ svc = [v \in Visits |-> NewService]
  /\ shown = "disconnected" /\ error = FALSE

OnScreen(v) == here /\ v = visit

\* updateState and onError of the service of visit v, as its page sees them.
Report(v, s, e) ==
  /\ svc' = [svc EXCEPT ![v] = s]
  /\ shown' = IF OnScreen(v) THEN s.state ELSE shown
  /\ error' = IF OnScreen(v) THEN e ELSE error

DisconnectedSilently(s) ==
  [s EXCEPT !.explicit = TRUE, !.sock = "none", !.asked = "no",
            !.state = "disconnected"]

\* disconnect(): the socket is let go with its handlers.  Only the timer whose
\* id is kept is cleared.
Disconnected(s) ==
  [s EXCEPT !.explicit = TRUE, !.timer = FALSE, !.sock = "none",
            !.asked = "no", !.state = "disconnected"]

\* connect(): a socket the service still has is disconnected first.
Connected(s) ==
  LET c == IF s.sock # "none" THEN Disconnected(s) ELSE s
  IN  [c EXCEPT !.explicit = FALSE, !.sock = "connecting",
         !.state = IF c.attempts > 0 THEN "reconnecting" ELSE "connecting"]

(***************************************************************************)
(* The pages.                                                              *)
(***************************************************************************)
Enter ==
  /\ ~here /\ visit < MaxVisits
  /\ visit' = visit + 1 /\ here' = TRUE
  /\ svc' = [svc EXCEPT ![visit + 1] = Connected(NewService)]
  /\ shown' = "connecting" /\ error' = FALSE
  /\ UNCHANGED page

\* The clean-up of the page; the hub runs it as soon as it starts to go away.
Leave ==
  /\ here
  /\ here' = FALSE
  /\ svc' = [svc EXCEPT ![visit] = Disconnected(@)]
  /\ shown' = "disconnected" /\ error' = FALSE
  /\ UNCHANGED <<page, visit>>

\* The button next to the error message.
RetryOffered == here /\ page = "tutor" /\ error

Retry ==
  /\ RetryOffered
  /\ svc[visit].timer => svc[visit].orphans < MaxOrphans
  /\ Report(visit, [Connected(svc[visit]) EXCEPT
                       !.stranded = @ \/ (svc[visit].timer /\ svc[visit].sock = "none")],
            error)
  /\ UNCHANGED <<page, visit, here>>

\* What both send handlers require of the page.
SendOffered == here /\ shown = "connected" /\ svc[visit].asked = "no"

\* The message appears in the chat whether the socket takes it or not.
HandleSend ==
  /\ SendOffered
  /\ IF svc[visit].sock = "open"
     THEN Report(visit, [svc[visit] EXCEPT !.asked = "sent"], error)
     ELSE Report(visit, svc[visit], TRUE)
  /\ UNCHANGED <<page, visit, here>>

\* handleSend of the tutor complains when the page is not connected.
HandleSendOffline ==
  /\ here /\ page = "tutor" /\ shown # "connected"
  /\ error' = TRUE
  /\ UNCHANGED <<page, visit, here, svc, shown>>

\* A chunk of the answer.  The tutor clears the error, the hub keeps it.
HandleIncomingToken(v) ==
  /\ svc[v].sock = "open" /\ svc[v].asked = "passed"
  /\ Report(v, [svc[v] EXCEPT !.asked = "no"], page = "hub" /\ error)
  /\ UNCHANGED <<page, visit, here>>

\* The gateway answers with an error frame.
ErrorFrame(v) ==
  /\ svc[v].sock = "open"
  /\ Report(v, [svc[v] EXCEPT !.asked = "no"], TRUE)
  /\ UNCHANGED <<page, visit, here>>

(***************************************************************************)
(* Events of the socket and of the reconnect timers.                       *)
(***************************************************************************)
OnOpen(v) ==
  /\ svc[v].sock = "connecting"
  /\ Report(v, [svc[v] EXCEPT !.sock = "open", !.attempts = 0,
                              !.state = "connected"],
            page = "tutor" /\ error)
  /\ UNCHANGED <<page, visit, here>>

\* The connection breaks: the socket is no longer open, its close event is
\* still to come.
Break(v) ==
  /\ svc[v].sock = "open"
  /\ svc' = [svc EXCEPT ![v].sock = "closing"]
  /\ UNCHANGED <<page, visit, here, shown, error>>

OnCloseSilent(v) ==
  /\ svc[v].sock \in {"connecting", "closing"}
  /\ Report(v, [svc[v] EXCEPT !.sock = "none", !.asked = "no"], TRUE)
  /\ UNCHANGED <<page, visit, here>>

OnCloseAgain(v) ==
  LET s == [svc[v] EXCEPT !.sock = "none", !.asked = "no"]
  IN  /\ svc[v].sock \in {"connecting", "closing"}
      /\ Report(v, [s EXCEPT !.attempts = IF s.attempts < MaxReconnects
                                          THEN @ + 1 ELSE 0,
                             !.state = "reconnecting", !.timer = TRUE], TRUE)
      /\ UNCHANGED <<page, visit, here>>

\* Several attempts are allowed, each after a longer pause.
OnClose(v) ==
  LET s == [svc[v] EXCEPT !.sock = "none", !.asked = "no"]
  IN  /\ svc[v].sock \in {"connecting", "closing"}
      /\ IF s.explicit
         THEN Report(v, [s EXCEPT !.state = "disconnected"], error)
         ELSE IF s.attempts < MaxReconnects
         THEN Report(v, [s EXCEPT !.attempts = @ + 1, !.state = "reconnecting",
                           !.orphans = IF s.timer THEN @ + 1 ELSE @,
                           !.timer = TRUE], TRUE)
         ELSE Report(v, [s EXCEPT !.state = "disconnected"], TRUE)
      /\ UNCHANGED <<page, visit, here>>

ReconnectTimerKeeps(v) ==
  /\ svc[v].timer
  /\ Report(v, Connected(svc[v]), error)
  /\ UNCHANGED <<page, visit, here>>

\* A timer calls connect(), whatever became of the service since.
ReconnectTimer(v) ==
  /\ \/ /\ svc[v].timer
        /\ Report(v, Connected([svc[v] EXCEPT !.timer = FALSE]), error)
     \/ /\ svc[v].orphans > 0
        /\ Report(v, Connected([svc[v] EXCEPT !.orphans = @ - 1]), error)
  /\ UNCHANGED <<page, visit, here>>

SocketEvent(v) == OnOpen(v) \/ OnClose(v)

\* Every connection attempt ends in an open or a close event, and timers fire.
TutorFairness ==
  \A v \in Visits : WF_tutorVars(SocketEvent(v)) /\ WF_tutorVars(ReconnectTimer(v))

-----------------------------------------------------------------------------
States == {"connecting", "connected", "disconnected", "reconnecting"}

TutorTypeOK ==
  /\ page \in Pages /\ visit \in 0 .. MaxVisits /\ here \in BOOLEAN
  /\ shown \in States /\ error \in BOOLEAN
  /\ svc \in [Visits ->
       [sock : {"none", "connecting", "open", "closing"}, asked : {"no", "sent", "passed"},
        timer : BOOLEAN, orphans : 0 .. MaxOrphans, attempts : 0 .. MaxReconnects,
        explicit : BOOLEAN, state : States, stranded : BOOLEAN]]

\* "connected" on the screen means a socket that was open and whose close event
\* has not come, however connects, closes, retries and timers interleave.
ShownConnected ==
  here /\ shown = "connected" => svc[visit].sock \in {"open", "closing"}

\* After the page is gone its service opens no socket and waits for no timer,
\* unless Retry was pressed while a reconnect was pending: connect() does not
\* clear that timer, and disconnect() no longer knows it.
SilentAfterLeave ==
  \A v \in Visits : ~OnScreen(v) /\ (svc[v].sock # "none" \/ svc[v].timer)
                       => svc[v].stranded

\* While the page is shown, its open socket is dropped by the client only for
\* Retry itself or when a timer that Retry left behind fires.
LiveKept ==
  [][\A v \in Visits :
       OnScreen(v) /\ svc[v].sock = "open" /\ here' /\ svc'[v].sock = "connecting"
          => Retry \/ svc[v].stranded]_tutorVars

\* Trying to connect ends: connected, given up, or the page is left.
Settles ==
  here /\ shown \in {"connecting", "reconnecting"}
     ~> shown \in {"connected", "disconnected"}
=============================================================================
