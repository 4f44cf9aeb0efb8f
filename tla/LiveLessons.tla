----------------------------- MODULE LiveLessons -----------------------------
(***************************************************************************)
(* A student's chat page and a teacher's oversight dashboard, joined by    *)
(* the gateway: every prompt it lets through is streamed to the            *)
(* dashboards, and the prompts of a frozen session are refused.            *)
(***************************************************************************)
EXTENDS TutorSocket, OversightStream

liveVars == <<tutorVars, dashVars>>

LiveInit == TutorInit /\ DashInit

TutorAlone ==
  /\ \/ Enter \/ Leave \/ Retry \/ HandleSend \/ HandleSendOffline
     \/ \E v \in Visits : Break(v) \/ SocketEvent(v) \/ ReconnectTimer(v)
  /\ UNCHANGED dashVars

DashAlone ==
  /\ \/ Open \/ Close \/ ReconnectButton \/ HandleFreezeToggle
     \/ \E v \in DashVisits :
          \/ DashTimer(v)
          \/ \E i \in 1 .. MaxSockets : DashOpened(v, i) \/ DashClosed(v, i)
     \/ \E r \in requests : GatewayFreezes(r) \/ FreezeAnswered(r) \/ FreezeFails(r)
     \/ FreezeExpires \/ OtherDashboard \/ \E r \in abandoned : FreezesLate(r)
  /\ UNCHANGED tutorVars

\* The gateway looks at the freeze flag before it moderates a prompt and asks
\* the AI, and not again after.  When Redis cannot tell it the flag, the prompt
\* of a frozen session passes too.
PassPrompt(v) ==
  /\ svc[v].sock = "open" /\ svc[v].asked = "sent"
  /\ svc' = [svc EXCEPT ![v].asked = "passed"]
  /\ UNCHANGED <<page, visit, here, shown, error, dashVars>>

Refuse(v) == frozen /\ svc[v].asked = "sent" /\ ErrorFrame(v) /\ UNCHANGED dashVars

\* Answered and blocked prompts are streamed to the dashboards.
Answer(v) ==
  /\ HandleIncomingToken(v) /\ Publish
  /\ UNCHANGED <<dash, dashVisit, dashHere, status, requests, flagVars>>

Flagged(v) ==
  /\ svc[v].asked = "passed" /\ ErrorFrame(v) /\ Publish
  /\ UNCHANGED <<dash, dashVisit, dashHere, status, requests, flagVars>>

AIFails(v) == svc[v].asked = "passed" /\ ErrorFrame(v) /\ UNCHANGED dashVars

LiveNext ==
  \/ TutorAlone \/ DashAlone
  \/ \E v \in Visits :
       PassPrompt(v) \/ Refuse(v) \/ Answer(v) \/ Flagged(v) \/ AIFails(v)

LiveSpec == LiveInit /\ [][LiveNext]_liveVars /\ TutorFairness

LiveTypeOK == TutorTypeOK /\ DashTypeOK
=============================================================================
