---------------------------- MODULE SuperConsole ----------------------------
(***************************************************************************)
(* The super administrator's console (SuperAdminDashboard.tsx).  Every     *)
(* handler sends a call to the gateway and, when it succeeds, loads all    *)
(* lists again.  Loads and calls overlap: the lists of a load are answered *)
(* one by one, a load is shown when all its lists are settled, whichever   *)
(* loads were shown before it, and a load started by a handler asks for    *)
(* the tenant that was selected when the handler started.                  *)
(*                                                                         *)
(* An instance works in one tab, since the handlers of a tab touch its     *)
(* lists only.  Telemetry, which no handler changes, is left out; roles    *)
(* and permissions are custom ones, since system roles and permissions of  *)
(* other modules have no buttons that change them.                         *)
(***************************************************************************)
EXTENDS Naturals, Sequences, FiniteSets

CONSTANTS
  Tabs,       \* tabs explored: "infrastructure", "plugins", "rbac"
  Insts, Reqs, PluginIds, System, RoleIds, PermNames,
  NoItem,
  MaxClicks,  \* bound: calls, refreshes, tenant selections, changes from elsewhere
  MaxCalls,   \* bound: calls under way
  MaxLoads    \* bound: loads under way

ASSUME ConsoleAssumption ==
  /\ Tabs \subseteq {"infrastructure", "plugins", "rbac"}
  /\ System \subseteq PluginIds /\ NoItem \notin Insts
  /\ MaxClicks \in Nat /\ MaxCalls \in Nat /\ MaxLoads \in Nat \ {0}

Slots == 1 .. MaxCalls
Tenants == Insts \cup {NoItem}

VARIABLES
  tab,     \* activeTab
  server,  \* what the gateway holds
  view,    \* the lists on the page
  tenant,  \* selectedTenantForOverride
  loads,   \* loads under way, in the order they were sent
  calls,   \* calls under way
  modal,   \* the open form, its item, and the permissions it was opened with
  isSubmitting, isLoading, isProbing, clicks,
  lag      \* history: the page missed a change, and no later load made up for it

consoleVars == <<tab, server, view, tenant, loads, calls, modal, isSubmitting, isLoading,
          isProbing, clicks, lag>>

NoCall == [kind |-> "none", item |-> NoItem, to |-> "-", tenant |-> NoItem, basis |-> "-",
           phase |-> "-", rest |-> {}, want |-> {}, clean |-> TRUE]

NoModal == [form |-> "none", item |-> NoItem, perms |-> {}]

TabLists(t) ==
  CASE t = "infrastructure" -> {"trials", "requests"}
    [] t = "plugins"        -> {"plugins"}
    [] t = "rbac"           -> {"roles", "perms"}

\* ListPlugins of the gateway adds the override of the tenant asked for.
Read(l, t) ==
  IF l = "plugins"
  THEN [p \in PluginIds |->
         [exists |-> server.plugins[p].exists, enabled |-> server.plugins[p].enabled,
          threshold |-> server.plugins[p].threshold,
          override |-> IF t = NoItem THEN "unset" ELSE server.plugins[p].over[t]]]
  ELSE server[l]

\* What the page holds before its first load has arrived.
EmptyView ==
  [trials   |-> [i \in Insts |-> [status |-> "none", limit |-> "low"]],
   requests |-> [r \in Reqs |-> "none"],
   plugins  |-> [p \in PluginIds |->
                   [exists |-> FALSE, enabled |-> "off", threshold |-> "low",
                    override |-> "unset"]],
   roles    |-> [r \in RoleIds |-> [exists |-> FALSE, perms |-> {}]],
   perms    |-> {}]

Load(t) == [tenant |-> t, got |-> [l \in {} |-> {}], failed |-> {},
            overtaken |-> FALSE, redeems |-> TRUE]

\* A gateway with one trial, a pending request, one system plugin, which the
\* tenant may have switched off, and an empty role.
ConsoleInit ==
  /\ tab \in Tabs
  /\ LET i0 == CHOOSE i \in Insts : TRUE
         p0 == CHOOSE p \in System : TRUE
         r0 == CHOOSE r \in RoleIds : TRUE
     IN  \E o \in {"unset", "off"} :
       server =
         [trials   |-> [i \in Insts |->
             [status |-> IF i = i0 THEN "active" ELSE "none", limit |-> "low"]],
          requests |-> [r \in Reqs |-> "PENDING"],
          plugins  |-> [p \in PluginIds |->
             [exists |-> p = p0, enabled |-> "on", threshold |-> "low",
              over |-> [i \in Insts |->
                 IF p = p0 /\ i = i0 /\ tab = "plugins" THEN o ELSE "unset"]]],
          roles    |-> [r \in RoleIds |-> [exists |-> r = r0, perms |-> {}]],
          perms    |-> PermNames]
  /\ view = EmptyView /\ tenant = NoItem
  /\ loads = <<Load(NoItem)>> /\ isLoading = TRUE
  /\ calls = [s \in Slots |-> NoCall] /\ modal = NoModal
  /\ isSubmitting = FALSE /\ isProbing = NoItem /\ clicks = 0 /\ lag = FALSE

(***************************************************************************)
(* loadData.                                                               *)
(***************************************************************************)
SendLoad(t) ==
  /\ Len(loads) < MaxLoads
  /\ loads' = Append(loads, Load(t))
  /\ isLoading' = TRUE

Click == clicks < MaxClicks /\ clicks' = clicks + 1

RefreshOffered == ~isLoading /\ modal = NoModal

Refresh ==
  /\ RefreshOffered /\ Click /\ SendLoad(tenant)
  /\ UNCHANGED <<tab, server, view, tenant, calls, modal, isSubmitting, isProbing, lag>>

\* The tenants offered are those of the list of trials; the effect loads again.
SelectTenant(t) ==
  /\ tab = "plugins" /\ modal = NoModal /\ t # tenant
  /\ Click /\ tenant' = t /\ SendLoad(t)
  /\ UNCHANGED <<tab, server, view, calls, modal, isSubmitting, isProbing, lag>>

Settled(d) == DOMAIN d.got \cup d.failed

\* One of the requests of a load is answered, or fails.
ListAnswered(k, l) ==
  /\ l \in TabLists(tab) \ Settled(loads[k])
  /\ loads' = [loads EXCEPT ![k].got =
        [x \in DOMAIN loads[k].got \cup {l} |->
           IF x = l THEN Read(l, loads[k].tenant) ELSE loads[k].got[x]]]
  /\ UNCHANGED <<tab, server, view, tenant, calls, modal, isSubmitting, isLoading,
                 isProbing, clicks, lag>>

ListFails(k, l) ==
  /\ l \in TabLists(tab) \ Settled(loads[k])
  /\ loads' = [loads EXCEPT ![k].failed = @ \cup {l}]
  /\ UNCHANGED <<tab, server, view, tenant, calls, modal, isSubmitting, isLoading,
                 isProbing, clicks, lag>>

\* Promise.allSettled: the lists that were answered replace those on the page.
LoadArrives(k) ==
  LET d   == loads[k]
      bad == d.overtaken \/ d.failed # {} \/ d.tenant # tenant
  IN  /\ Settled(d) = TabLists(tab)
      /\ view' = [l \in DOMAIN view |-> IF l \in DOMAIN d.got THEN d.got[l] ELSE view[l]]
      /\ loads' = [j \in 1 .. Len(loads) - 1 |->
                     IF j < k THEN [loads[j] EXCEPT !.overtaken = TRUE] ELSE loads[j + 1]]
      /\ isLoading' = FALSE
      /\ lag' = (bad \/ (lag /\ ~d.redeems))
      /\ UNCHANGED <<tab, server, tenant, calls, modal, isSubmitting, isProbing, clicks>>

(***************************************************************************)
(* Calls.                                                                  *)
(***************************************************************************)
Submits(kind) ==
  kind \in {"onboard", "extend", "limits", "config", "create", "update", "remove",
            "createRole", "assignNew", "editRole", "createPerm"}

\* The form a successful call closes, whichever item is open in it by then.
FormOf(kind) ==
  CASE kind = "onboard"                     -> "onboard"
    [] kind \in {"extend", "limits"}        -> "editTrial"
    [] kind \in {"approve", "reject"}       -> "rejectRequest"
    [] kind = "config"                      -> "config"
    [] kind = "create"                      -> "createPlugin"
    [] kind = "update"                      -> "editPlugin"
    [] kind = "remove"                      -> "deletePlugin"
    [] kind \in {"createRole", "assignNew"} -> "createRole"
    [] kind = "editRole"                    -> "editRole"
    [] kind = "createPerm"                  -> "createPerm"
    [] OTHER                                -> "stays open"

Pending == {calls[s] : s \in {x \in Slots : calls[x] # NoCall}}

\* A handler sends its call; a form's handler needs isSubmitting to be off.
Send(c) ==
  /\ Click
  /\ Submits(c.kind) => ~isSubmitting
  /\ \E s \in Slots :
       /\ calls[s] = NoCall /\ \A j \in 1 .. s - 1 : calls[j] # NoCall
       /\ calls' = [calls EXCEPT ![s] = c]
  /\ isSubmitting' = (isSubmitting \/ Submits(c.kind))
  /\ isProbing' = IF c.kind = "probe" THEN c.item ELSE isProbing
  /\ UNCHANGED <<tab, server, view, tenant, loads, modal, isLoading, lag>>

Call(kind, item, to, basis) ==
  [NoCall EXCEPT !.kind = kind, !.item = item, !.to = to, !.basis = basis,
                 !.tenant = tenant, !.phase = "sent"]

\* The same call without reload.
FinishWithoutLoad(s) ==
  /\ calls' = [calls EXCEPT ![s] = NoCall]
  /\ modal' = IF modal.form = FormOf(calls[s].kind) THEN NoModal ELSE modal
  /\ isSubmitting' = (isSubmitting /\ ~Submits(calls[s].kind))
  /\ UNCHANGED <<loads, isLoading, tab, server, view, tenant, isProbing, clicks, lag>>

\* A handler's call succeeded: its form closes and everything is loaded again.
Finish(s) ==
  /\ calls' = [calls EXCEPT ![s] = NoCall]
  /\ modal' = IF modal.form = FormOf(calls[s].kind) THEN NoModal ELSE modal
  /\ isSubmitting' = (isSubmitting /\ ~Submits(calls[s].kind))
  /\ SendLoad(calls[s].tenant)
  /\ UNCHANGED <<tab, server, view, tenant, isProbing, clicks, lag>>

Creating(c) == c.kind \in {"createRole", "assignNew"}

CallOk(s) ==
  /\ calls[s].phase = "executed" /\ ~Creating(calls[s]) /\ calls[s].kind # "probe"
  /\ Finish(s)

ProbeOk(s) ==
  /\ calls[s].phase = "executed" /\ calls[s].kind = "probe"
  /\ calls' = [calls EXCEPT ![s] = NoCall] /\ isProbing' = NoItem
  /\ UNCHANGED <<tab, server, view, tenant, loads, modal, isSubmitting, isLoading, clicks,
                 lag>>

\* The same without a limit on the time a request may take.
CallFailsAnswered(s) ==
  /\ calls[s].phase = "executed" /\ calls[s].kind # "assignNew"
  /\ calls' = [calls EXCEPT ![s] = NoCall]
  /\ isSubmitting' = (isSubmitting /\ ~Submits(calls[s].kind))
  /\ isProbing' = IF calls[s].kind = "probe" THEN NoItem ELSE isProbing
  /\ lag' = TRUE /\ loads' = [k \in DOMAIN loads |-> [loads[k] EXCEPT !.redeems = FALSE]]
  /\ UNCHANGED <<tab, server, view, tenant, modal, isLoading, clicks>>

\* The lists on the page, and those of the loads under way, may lack a change.
Missed ==
  lag' = TRUE /\ loads' = [k \in DOMAIN loads |-> [loads[k] EXCEPT !.redeems = FALSE]]

\* An error, or no answer although the gateway has done its part: the form
\* stays and nothing is loaded.
CallFails(s) ==
  /\ calls[s].phase \in {"executed", "refused"} /\ calls[s].kind # "assignNew"
  /\ calls' = [calls EXCEPT ![s] = NoCall]
  /\ isSubmitting' = (isSubmitting /\ ~Submits(calls[s].kind))
  /\ isProbing' = IF calls[s].kind = "probe" THEN NoItem ELSE isProbing
  /\ IF calls[s].phase = "executed" THEN Missed ELSE UNCHANGED <<lag, loads>>
  /\ UNCHANGED <<tab, server, view, tenant, modal, isLoading, clicks>>

\* The same, stopping after one permission.
AssignOnly(s) ==
  /\ Creating(calls[s]) /\ calls[s].rest # {} /\ calls[s].phase = "executed"
  /\ \E p \in calls[s].rest :
       calls' = [calls EXCEPT ![s] =
         [calls[s] EXCEPT !.kind = "assignNew", !.to = p, !.rest = {}, !.phase = "sent"]]
  /\ UNCHANGED <<tab, server, view, tenant, loads, modal, isSubmitting, isLoading,
                 isProbing, clicks, lag>>

\* handleCreateRole assigns the permissions one after the other and ignores
\* those that fail.
AssignNext(s) ==
  /\ Creating(calls[s]) /\ calls[s].rest # {}
  /\ \/ calls[s].phase = "executed"
     \/ calls[s].kind = "assignNew" /\ calls[s].phase = "refused"
  /\ \E p \in calls[s].rest :
       calls' = [calls EXCEPT ![s] =
         [calls[s] EXCEPT !.kind = "assignNew", !.to = p, !.rest = calls[s].rest \ {p},
            !.phase = "sent", !.clean = calls[s].clean /\ calls[s].phase = "executed"]]
  /\ UNCHANGED <<tab, server, view, tenant, loads, modal, isSubmitting, isLoading,
                 isProbing, clicks, lag>>

CreateRoleDone(s) ==
  /\ Creating(calls[s]) /\ calls[s].rest = {}
  /\ \/ calls[s].phase = "executed"
     \/ calls[s].kind = "assignNew" /\ calls[s].phase = "refused"
  /\ Finish(s)

(***************************************************************************)
(* The gateway executes a call.                                            *)
(***************************************************************************)
\* ToggleTrial succeeds on a trial that is gone, and changes nothing.  Pausing
\* and resuming leave the end of the trial, by which it is listed as expired.
TrialEffect(c) ==
  LET Unless(was, status) == IF was = "expired" THEN was ELSE status
      t == server.trials[c.item]
      Set(u) == [server EXCEPT !.trials[c.item] = u]
  IN  IF c.kind = "onboard" THEN Set([status |-> "active", limit |-> "low"])
      ELSE IF t.status = "none" THEN server
      ELSE CASE c.kind = "pause"  -> Set([t EXCEPT !.status = Unless(t.status, "paused")])
             [] c.kind = "resume" -> Set([t EXCEPT !.status = Unless(t.status, "active")])
             [] c.kind = "extend" -> Set([t EXCEPT !.status = "active"])
             [] c.kind = "limits" -> Set([t EXCEPT !.limit = c.to])
             [] c.kind = "delete" -> Set([t EXCEPT !.status = "none"])

ReviewEffect(c) ==
  [server EXCEPT !.requests[c.item] = IF c.kind = "approve" THEN "APPROVED" ELSE "REJECTED"]

\* Deleting a plugin leaves the overrides of its tenants in memory.  Saving a
\* custom plugin disables it: the form sends no `enabled`, UpdatePlugin copies it.
PluginEffect(c) ==
  CASE c.kind = "toggle"              -> [server EXCEPT !.plugins[c.item].enabled = c.to]
    [] c.kind = "override"            -> [server EXCEPT !.plugins[c.item].over[c.tenant] = c.to]
    [] c.kind = "config"              -> [server EXCEPT !.plugins[c.item].threshold = c.to]
    [] c.kind = "update"              -> [server EXCEPT !.plugins[c.item] =
                                            [server.plugins[c.item] EXCEPT !.enabled = "off",
                                               !.threshold = c.to]]
    [] c.kind = "create"              -> [server EXCEPT !.plugins[c.item] =
                                            [server.plugins[c.item] EXCEPT !.exists = TRUE,
                                               !.enabled = "on", !.threshold = "low"]]
    [] c.kind = "remove"              -> [server EXCEPT !.plugins[c.item].exists = FALSE]
    [] OTHER                          -> server

RoleEffect(c) ==
  CASE c.kind = "createRole"  -> [server EXCEPT !.roles[c.item] = [exists |-> TRUE, perms |-> {}]]
    [] c.kind \in {"assign", "assignNew"} -> [server EXCEPT !.roles[c.item].perms = @ \cup {c.to}]
    [] c.kind = "unassign"    -> [server EXCEPT !.roles[c.item].perms = @ \ {c.to}]
    [] c.kind = "deleteRole"  -> [server EXCEPT !.roles[c.item] = [exists |-> FALSE, perms |-> {}]]
    [] c.kind = "createPerm"  -> [server EXCEPT !.perms = @ \cup {c.to}]
    [] c.kind = "deletePerm"  -> [server EXCEPT !.perms = @ \ {c.to},
                                    !.roles = [r \in RoleIds |->
                                      [server.roles[r] EXCEPT !.perms = @ \ {c.to}]]]
    [] OTHER                  -> server

\* What the gateway requires of a call.
Acceptable(c) ==
  CASE c.kind \in {"approve", "reject"} -> server.requests[c.item] = "PENDING"
    [] c.kind \in {"toggle", "config", "update"} -> server.plugins[c.item].exists
    [] c.kind = "create" -> ~server.plugins[c.item].exists
    [] c.kind = "remove" -> server.plugins[c.item].exists /\ c.item \notin System
    [] c.kind \in {"assign", "assignNew"} ->
         server.roles[c.item].exists /\ c.to \in server.perms
    [] c.kind \in {"unassign", "editRole", "deleteRole"} -> server.roles[c.item].exists
    [] OTHER -> TRUE

Effect(c) ==
  CASE tab = "infrastructure" ->
         IF c.kind \in {"approve", "reject"} THEN ReviewEffect(c) ELSE TrialEffect(c)
    [] tab = "plugins" -> PluginEffect(c)
    [] tab = "rbac"    -> RoleEffect(c)

\* The role being created by call o is touched by call c.
Disturbs(c, o) == Creating(o) /\ (c.item = o.item \/ c.kind = "deletePerm")

Touched(c, o) == [o EXCEPT !.clean = o.clean /\ ~Disturbs(c, o)]

Execute(s) ==
  LET c == calls[s]
  IN  /\ c.phase = "sent" /\ Acceptable(c)
      /\ server' = Effect(c)
      /\ calls' = [x \in Slots |->
           IF x = s THEN [c EXCEPT !.phase = "executed"] ELSE Touched(c, calls[x])]
      /\ UNCHANGED <<tab, view, tenant, loads, modal, isSubmitting, isLoading, isProbing,
                     clicks, lag>>

\* The gateway refuses, or the call is lost on its way.
RefuseCall(s) ==
  /\ calls[s].phase = "sent"
  /\ calls' = [calls EXCEPT ![s].phase = "refused"]
  /\ UNCHANGED <<tab, server, view, tenant, loads, modal, isSubmitting, isLoading,
                 isProbing, clicks, lag>>

(***************************************************************************)
(* Changes the page has no answer for: another administrator's calls, and  *)
(* its own that apiFetch gave up after two minutes and the gateway carries *)
(* out all the same.  A trial comes to its end by itself.                  *)
(***************************************************************************)
FreshTrial(i) ==
  /\ server.trials[i].status = "none"
  /\ \A c \in Pending : c.kind = "onboard" => c.item # i

FreshRole(r) ==
  /\ ~server.roles[r].exists
  /\ \A c \in Pending : c.kind = "createRole" => c.item # r

Unseen(kind, item, to, t) ==
  [NoCall EXCEPT !.kind = kind, !.item = item, !.to = to, !.tenant = t, !.phase = "sent"]

ExecuteUnseen(c) ==
  /\ Click /\ Acceptable(c)
  /\ server' = Effect(c)
  /\ calls' = [x \in Slots |-> Touched(c, calls[x])]
  /\ Missed
  /\ UNCHANGED <<tab, view, tenant, modal, isSubmitting, isLoading, isProbing>>

UnseenTrialCall ==
  /\ tab = "infrastructure"
  /\ \/ \E i \in Insts :
          \/ FreshTrial(i) /\ ExecuteUnseen(Unseen("onboard", i, "-", NoItem))
          \/ \E v \in {"low", "high"} : ExecuteUnseen(Unseen("limits", i, v, NoItem))
          \/ \E kind \in {"pause", "resume", "extend", "delete"} :
               ExecuteUnseen(Unseen(kind, i, "-", NoItem))
     \/ \E r \in Reqs, kind \in {"approve", "reject"} :
          ExecuteUnseen(Unseen(kind, r, "-", NoItem))

UnseenPluginCall ==
  /\ tab = "plugins"
  /\ \E p \in PluginIds :
       \/ \E v \in {"on", "off"} :
            \/ ExecuteUnseen(Unseen("toggle", p, v, NoItem))
            \/ \E t \in Insts : ExecuteUnseen(Unseen("override", p, v, t))
       \/ \E kind \in {"config", "update"}, v \in {"low", "high"} :
            ExecuteUnseen(Unseen(kind, p, v, NoItem))
       \/ p \notin System /\ \E kind \in {"create", "remove"} :
            ExecuteUnseen(Unseen(kind, p, "-", NoItem))

UnseenRoleCall ==
  /\ tab = "rbac"
  /\ \/ \E r \in RoleIds :
          \/ FreshRole(r) /\ ExecuteUnseen(Unseen("createRole", r, "-", NoItem))
          \/ ExecuteUnseen(Unseen("deleteRole", r, "-", NoItem))
          \/ \E p \in PermNames, kind \in {"assign", "unassign"} :
               ExecuteUnseen(Unseen(kind, r, p, NoItem))
     \/ \E p \in PermNames, kind \in {"createPerm", "deletePerm"} :
          ExecuteUnseen(Unseen(kind, NoItem, p, NoItem))

UnseenCall == UnseenTrialCall \/ UnseenPluginCall \/ UnseenRoleCall

\* ListTrialInstitutes lists a trial as expired once its end has passed.
TrialExpires(i) ==
  /\ tab = "infrastructure" /\ server.trials[i].status \in {"active", "paused"}
  /\ Click
  /\ server' = [server EXCEPT !.trials[i].status = "expired"]
  /\ Missed
  /\ UNCHANGED <<tab, view, tenant, calls, modal, isSubmitting, isLoading, isProbing>>

(***************************************************************************)
(* Forms.  An open form covers the page; it can be cancelled while its     *)
(* call is under way.                                                      *)
(***************************************************************************)
OpenForm(form, item, perms) ==
  /\ modal = NoModal
  /\ modal' = [form |-> form, item |-> item, perms |-> perms]
  /\ UNCHANGED <<tab, server, view, tenant, loads, calls, isSubmitting, isLoading,
                 isProbing, clicks, lag>>

Cancel ==
  /\ modal # NoModal
  /\ modal' = NoModal
  /\ UNCHANGED <<tab, server, view, tenant, loads, calls, isSubmitting, isLoading,
                 isProbing, clicks, lag>>

OnPage(t) == tab = t /\ modal = NoModal
InForm(f) == modal.form = f

(***************************************************************************)
(* Infrastructure: trials and requests of institutions.                    *)
(***************************************************************************)
TrialRow(i) == OnPage("infrastructure") /\ view.trials[i].status # "none"
PendingRow(r) == OnPage("infrastructure") /\ view.requests[r] = "PENDING"

HandleToggleTrial(i) ==
  /\ TrialRow(i)
  /\ \/ Send(Call(IF view.trials[i].status = "active" THEN "pause" ELSE "resume", i, "-", "-"))
     \/ Send(Call("delete", i, "-", "-"))

OnboardForm == InForm("onboard")
EditTrialForm == InForm("editTrial")

\* The gateway chooses the new institution.
HandleOnboardTrial ==
  /\ OnboardForm
  /\ \E i \in Insts : FreshTrial(i) /\ Send(Call("onboard", i, "-", "-"))

HandleSaveEdit ==
  /\ EditTrialForm
  /\ \/ Send(Call("extend", modal.item, "-", "-"))
     \/ \E v \in {"low", "high"} : Send(Call("limits", modal.item, v, "-"))

\* Neither button waits for a review under way.
HandleReviewInstitution ==
  \/ \E r \in Reqs : PendingRow(r) /\ Send(Call("approve", r, "-", "-"))
  \/ InForm("rejectRequest") /\ Send(Call("reject", modal.item, "-", "-"))

InfrastructureTab ==
  \/ \E i \in Insts :
       \/ HandleToggleTrial(i)
       \/ TrialRow(i) /\ OpenForm("editTrial", i, {})
  \/ OnPage("infrastructure") /\ OpenForm("onboard", NoItem, {})
  \/ \E r \in Reqs : PendingRow(r) /\ OpenForm("rejectRequest", r, {})
  \/ HandleOnboardTrial \/ HandleSaveEdit \/ HandleReviewInstitution

(***************************************************************************)
(* Plugins.                                                                *)
(***************************************************************************)
PluginCard(p) == OnPage("plugins") /\ view.plugins[p].exists

\* isEffectiveEnabled: the page shows a tenant's override whether or not the
\* plugin is enabled globally.
Shown(p) == IF view.plugins[p].override # "unset" THEN view.plugins[p].override
            ELSE view.plugins[p].enabled

EnabledGlobally(p) == server.plugins[p].exists /\ server.plugins[p].enabled = "on"

\* IsPluginEnabled: an override only switches off what is enabled globally.
InForce(p, t) ==
  IF ~EnabledGlobally(p) THEN "off"
  ELSE IF t # NoItem /\ server.plugins[p].over[t] # "unset" THEN server.plugins[p].over[t]
  ELSE "on"

Opposite(v) == IF v = "on" THEN "off" ELSE "on"

HandleTogglePluginGlobal(p) ==
  /\ PluginCard(p)
  /\ Send(Call(IF tenant # NoItem THEN "override" ELSE "toggle", p,
               Opposite(view.plugins[p].enabled), Shown(p)))

\* Until the load for no tenant arrives, cards go on showing the overrides of
\* the tenant selected before; the switch is global again at once.
HandleTogglePlugin(p) ==
  /\ PluginCard(p)
  /\ IF tenant # NoItem THEN Send(Call("override", p, Opposite(Shown(p)), Shown(p)))
     ELSE Send(Call("toggle", p, Opposite(view.plugins[p].enabled),
                    IF view.plugins[p].override = "unset" THEN Shown(p) ELSE "stale"))

\* Offered for an open circuit; circuits are the subject of CircuitBreaker.
HandleResetCircuit(p) == PluginCard(p) /\ Send(Call("reset", p, "-", "-"))

HandleProbePlugin(p) ==
  PluginCard(p) /\ isProbing # p /\ Send(Call("probe", p, "-", "-"))

CustomPlugin(p) == PluginCard(p) /\ p \notin System
OpenPluginConfig(p) == PluginCard(p) /\ p \in System /\ OpenForm("config", p, {})
OpenCustomPluginEdit(p) == CustomPlugin(p) /\ OpenForm("editPlugin", p, {})
OpenDelete(p) == CustomPlugin(p) /\ OpenForm("deletePlugin", p, {})

HandleSavePluginConfig ==
  InForm("config") /\ \E v \in {"low", "high"} : Send(Call("config", modal.item, v, "-"))

CreatePluginForm == InForm("createPlugin")
EditPluginForm == InForm("editPlugin")

HandleCreatePlugin ==
  CreatePluginForm /\ \E p \in PluginIds \ System : Send(Call("create", p, "-", "-"))

HandleSaveCustomPlugin ==
  EditPluginForm /\ \E v \in {"low", "high"} : Send(Call("update", modal.item, v, "-"))

HandleConfirmDeletePlugin == InForm("deletePlugin") /\ Send(Call("remove", modal.item, "-", "-"))

PluginsTab ==
  \/ \E t \in Tenants : SelectTenant(t)
  \/ \E p \in PluginIds :
       \/ HandleTogglePlugin(p) \/ HandleResetCircuit(p) \/ HandleProbePlugin(p)
       \/ OpenPluginConfig(p) \/ OpenCustomPluginEdit(p) \/ OpenDelete(p)
  \/ OnPage("plugins") /\ OpenForm("createPlugin", NoItem, {})
  \/ HandleSavePluginConfig \/ HandleCreatePlugin \/ HandleSaveCustomPlugin
  \/ HandleConfirmDeletePlugin

(***************************************************************************)
(* Roles and permissions.                                                  *)
(***************************************************************************)
RoleRow(r) == OnPage("rbac") /\ view.roles[r].exists

\* The role's permissions are those of the list when the form was opened; a
\* load does not refresh them.
ManagePermissions(r) == RoleRow(r) /\ OpenForm("managePerms", r, view.roles[r].perms)

HasPerm(p) == p \in modal.perms

HandleToggleRolePermissionAlways(p) ==
  /\ InForm("managePerms") /\ p \in view.perms
  /\ Send(Call("assign", modal.item, p, IF HasPerm(p) THEN "on" ELSE "off"))

HandleToggleRolePermission(p) ==
  /\ InForm("managePerms") /\ p \in view.perms
  /\ IF HasPerm(p) THEN Send(Call("unassign", modal.item, p, "on"))
     ELSE Send(Call("assign", modal.item, p, "off"))

CreateRoleForm == InForm("createRole")
EditRoleForm == InForm("editRole")
CreatePermForm == InForm("createPerm")

HandleCreateRole ==
  /\ CreateRoleForm
  /\ \E r \in RoleIds, ps \in SUBSET view.perms :
       /\ FreshRole(r)
       /\ Send([Call("createRole", r, "-", "-") EXCEPT !.rest = ps, !.want = ps])

HandleSaveRoleEdit == EditRoleForm /\ Send(Call("editRole", modal.item, "-", "-"))

HandleDeleteRole(r) == RoleRow(r) /\ Send(Call("deleteRole", r, "-", "-"))

HandleCreateCustomPermission ==
  CreatePermForm /\ \E p \in PermNames : Send(Call("createPerm", NoItem, p, "-"))

HandleDeleteCustomPermission(p) ==
  OnPage("rbac") /\ p \in view.perms /\ Send(Call("deletePerm", NoItem, p, "-"))

RbacTab ==
  \/ \E r \in RoleIds :
       \/ ManagePermissions(r) \/ HandleDeleteRole(r)
       \/ RoleRow(r) /\ OpenForm("editRole", r, {})
  \/ OnPage("rbac") /\ (OpenForm("createRole", NoItem, {}) \/ OpenForm("createPerm", NoItem, {}))
  \/ \E p \in PermNames : HandleToggleRolePermission(p) \/ HandleDeleteCustomPermission(p)
  \/ HandleCreateRole \/ HandleSaveRoleEdit \/ HandleCreateCustomPermission

Answered(s) == CallOk(s) \/ ProbeOk(s) \/ CallFails(s) \/ AssignNext(s) \/ CreateRoleDone(s)

LoadStep ==
  \E k \in DOMAIN loads :
    \/ LoadArrives(k)
    \/ \E l \in TabLists(tab) : ListAnswered(k, l) \/ ListFails(k, l)

Gateway(s) == Execute(s) \/ RefuseCall(s)

ConsoleNext ==
  \/ InfrastructureTab \/ PluginsTab \/ RbacTab \/ Refresh \/ Cancel \/ LoadStep
  \/ \E s \in Slots : Gateway(s) \/ Answered(s)
  \/ UnseenCall
  \/ \E i \in Insts : TrialExpires(i)

\* Every request ends, at the latest when apiFetch aborts it.
ConsoleFairness ==
  /\ WF_consoleVars(LoadStep)
  /\ \A s \in Slots : WF_consoleVars(Gateway(s)) /\ WF_consoleVars(Answered(s))

ConsoleSpec == ConsoleInit /\ [][ConsoleNext]_consoleVars /\ ConsoleFairness
-----------------------------------------------------------------------------
ConsoleTypeOK ==
  /\ tab \in Tabs /\ tenant \in Tenants /\ isProbing \in PluginIds \cup {NoItem}
  /\ Len(loads) <= MaxLoads /\ clicks \in 0 .. MaxClicks
  /\ \A k \in DOMAIN loads : Settled(loads[k]) \subseteq TabLists(tab)
  /\ \A s \in Slots : calls[s].want \subseteq PermNames /\ calls[s].rest \subseteq calls[s].want
  /\ \A i \in Insts : server.trials[i].status \in {"none", "active", "paused", "expired"}
  /\ \A r \in RoleIds : server.roles[r].perms \subseteq server.perms
  /\ isSubmitting = (\E c \in Pending : Submits(c.kind))

\* When nothing is under way the page shows what the gateway holds, for the
\* tenant that is selected; unless a list failed to load, a load was shown
\* after a later one or for another tenant, the answer of a call that was
\* carried out got lost, or a change came from elsewhere (another
\* administrator, a call given up before, the end of a trial), and no load
\* sent after that has made up for it.
QuietViewFresh ==
  loads = <<>> /\ Pending = {} /\ ~lag =>
    \A l \in TabLists(tab) : view[l] = Read(l, tenant)

\* Otherwise nothing of the plugin is in force, whatever its overrides say.
SwitchHolds(c) == c.kind = "toggle" \/ (c.kind = "override" /\ EnabledGlobally(c.item))

\* A switch of the console inverts what is in force (IsPluginEnabled, or the
\* permissions of a role) when the gateway carries it out, if that is what the
\* administrator saw: globally, for the selected tenant, or granted to a role;
\* unless a global switch was used on a card that still showed the override of
\* a tenant no longer selected, or a tenant's switch on a plugin that is
\* disabled globally, where the override recorded has no effect.
SwitchInverts ==
  [][\A s \in Slots :
       LET c == calls[s] IN
       calls'[s].phase = "executed" /\ c.phase = "sent" =>
         /\ SwitchHolds(c) /\ c.basis = InForce(c.item, c.tenant)
              => InForce(c.item, c.tenant)' # InForce(c.item, c.tenant)
         /\ c.kind \in {"assign", "unassign"}
              /\ (c.basis = "on") = (c.to \in server.roles[c.item].perms)
              => (c.to \in server'.roles[c.item].perms) # (c.to \in server.roles[c.item].perms)
    ]_consoleVars

\* When the console reports that a role was created with the chosen
\* permissions, the role has them, unless an assignment failed or another call
\* touched the role in between.
CreatedWhole ==
  [][\A s \in Slots : CreateRoleDone(s) /\ calls[s].clean /\ calls[s].phase = "executed" =>
       server.roles[calls[s].item] = [exists |-> TRUE, perms |-> calls[s].want]]_consoleVars

\* A form does not stay blocked: the call it sent ends, well or badly, and
\* every form can be submitted again.
BusyEnds == isSubmitting ~> ~isSubmitting
=============================================================================
