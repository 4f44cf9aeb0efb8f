----------------------------- MODULE ClientAuth -----------------------------
(***************************************************************************)
(* Signing in to the web interface: AuthProvider (authService.ts), the     *)
(* route guards of App.tsx, the forms of LoginPage and ResetPasswordPage,  *)
(* the role filter, and the links of Navbar and Sidebar.                   *)
(*                                                                         *)
(* A token is the number of the sign-in that obtained it.  Several         *)
(* requests are under way at once: the sign-in's own request for /me, the  *)
(* one that an effect sends for every new token, and the sign-ins started  *)
(* from a login page that is gone.  A list of permissions is represented   *)
(* by the account it belongs to.                                           *)
(***************************************************************************)
EXTENDS Naturals, FiniteSets

CONSTANTS
  Accounts,   \* accounts that sign in
  Nobody,
  PermsOf,    \* permissions of an account
  Group,      \* which links an account's role brings: a page of Guarded
  MaxLogins,  \* bound: sign-ins
  MaxReloads, \* bound: page loads after the first
  Paths,      \* groups of pages visited in an instance
  Filters,    \* role filters tried in an instance
  Visitors    \* bound: "member" signs in, "newcomer" registers or resets

Tokens == 1 .. MaxLogins
Public == {"landing", "login", "reset"}

\* The permissions the routes of a group ask for: any one opens it.
StudentRoutes == {"EXECUTE_AI_TUTOR"}
EducatorRoutes == {"GENERATE_LESSON_PLAN", "USE_TEXT_LEVELER"}
AdminRoutes == {"MANAGE_LOCAL_ROLES", "MANAGE_USERS", "MANAGE_DISTRICT_AI_KNOWLEDGE"}
UserRoutes == {"MANAGE_USERS"}
ModerationRoutes == {"MODERATE_CONTENT"}
RoleRoutes == {"MANAGE_ROLES"}

Required ==
  [dashboard |-> {}, student |-> StudentRoutes, educator |-> EducatorRoutes,
   admin |-> AdminRoutes, users |-> UserRoutes, moderation |-> ModerationRoutes,
   roles |-> RoleRoutes]

Guarded == DOMAIN Required

ASSUME ClientAssumption ==
  /\ Nobody \notin Accounts
  /\ Paths \subseteq Public \cup Guarded /\ {"login", "dashboard"} \subseteq Paths
  /\ \A a \in Accounts : Group[a] \in Guarded
  /\ "all" \in Filters /\ Filters \subseteq {"all", "teacher", "student", "institute"}
  /\ Visitors \subseteq {"member", "newcomer"}
  /\ MaxLogins \in Nat /\ MaxReloads \in Nat

VARIABLES
  auth,   \* tokens, me, permissions, status of AuthProvider
  stored, \* tokens in the session storage
  effect, \* token whose /me effect has not been answered or cancelled
  flows,  \* the sign-ins: phase, account, where to go, page still there
  path, from,
  form,   \* the login page
  sub,    \* registration or reset request of the login page under way
  accepted,  \* roles whose registration the gateway took
  reset,  \* "none", "busy": request under way, "timer": redirect pending
  roleFilter, reloads,
  visitor, \* what the visitor of this tab does
  late    \* history: me was set by a sign-in whose token had been replaced

vars == <<auth, stored, effect, flows, path, from, form, sub, accepted, reset,
          roleFilter, reloads, visitor, late>>

Roles == {"student", "teacher", "institute_management"}

NoFlow == [phase |-> "unused", acct |-> Nobody, from |-> "dashboard", here |-> FALSE]

OwnerOf(t) == IF t = 0 THEN Nobody ELSE flows[t].acct

Permissions(a) == IF a = Nobody THEN {} ELSE PermsOf[a]

\* A page load reads the tokens back from the session storage.
LoadedAuth(t) ==
  [tokens |-> t, me |-> Nobody, permissions |-> OwnerOf(t),
   status |-> IF t = 0 THEN "anonymous" ELSE "loading"]

BlankForm ==
  [register |-> FALSE, forgot |-> FALSE, role |-> "student", inst |-> FALSE,
   subject |-> FALSE, busy |-> FALSE, oauth |-> FALSE, msg |-> "none"]

NoSub == [kind |-> "none", role |-> "student"]

Init ==
  /\ auth = [tokens |-> 0, me |-> Nobody, permissions |-> Nobody,
             status |-> "anonymous"]
  /\ stored = 0 /\ effect = 0 /\ flows = [k \in Tokens |-> NoFlow]
  /\ path \in Paths \cap {"landing", "login"} /\ from = "dashboard"
  /\ form = BlankForm /\ sub = NoSub /\ accepted = {}
  /\ reset = "none" /\ roleFilter = "all" /\ reloads = 0 /\ late = FALSE
  /\ visitor \in Visitors

(***************************************************************************)
(* What the context derives from its state, and the guards.                *)
(***************************************************************************)
ActivePermissions(au) ==
  Permissions(IF au.permissions # Nobody THEN au.permissions ELSE au.me)

HasPermission(au, need) ==
  \/ "SUPER_ADMIN" \in ActivePermissions(au) \cup Permissions(au.me)
  \/ need \cap ActivePermissions(au) # {}

IsSuperAdmin(au) == HasPermission(au, {"SUPER_ADMIN"})

HasRole(au, g) == au.status = "authenticated" /\ au.me # Nobody /\ Group[au.me] = g

EffectiveRole(au, filter) ==
  CASE IsSuperAdmin(au)        -> filter
    [] HasRole(au, "educator") -> "teacher"
    [] HasRole(au, "student")  -> "student"
    [] HasRole(au, "admin")    -> "institute"
    [] OTHER                   -> "all"

\* RoleGuard inside AuthGuard, once somebody is signed in.
RoleGuard(au, p) ==
  IF p \in Public \/ Required[p] = {} \/ HasPermission(au, Required[p])
  THEN p ELSE "dashboard"

\* Where a render of the routes ends up: AuthGuard sends strangers to the
\* login page and remembers the page, the login page sends users on.
Landed(au, p, f) ==
  CASE au.status = "authenticated" ->
         [path |-> RoleGuard(au, IF p = "login" THEN f ELSE p), from |-> f]
    [] au.status = "anonymous" /\ p \notin Public ->
         [path |-> "login", from |-> p]
    [] OTHER -> [path |-> p, from |-> f]

\* A render of the whole interface: a login page that goes away takes its form
\* along, the requests it started stay under way.
Render(au, fl, p, f, fm) ==
  LET l == Landed(au, p, f)
  IN  /\ auth' = au /\ path' = l.path /\ from' = l.from
      /\ IF l.path = "login" /\ path = "login"
         THEN form' = fm /\ flows' = fl
         ELSE /\ form' = BlankForm
              /\ flows' = [k \in Tokens |-> [fl[k] EXCEPT !.here = FALSE]]

SettledOnSuccessOnly(k) ==
  [form EXCEPT !.busy = @ /\ (~flows[k].here \/ flows[k].phase = "post")]

\* The finally blocks, of a form that is still there.
Settled(k) == [form EXCEPT !.busy = @ /\ ~flows[k].here,
                           !.oauth = @ /\ ~flows[k].here]

(***************************************************************************)
(* Links.  Navbar is on every page, Sidebar on the pages behind the guard. *)
(***************************************************************************)
SolutionsMenu(au) ==
  IF au.status = "authenticated" THEN {"educator", "student", "admin"} ELSE {"login"}

\* A user who is no super administrator gets a link to a page that does not
\* exist, and lands on the start page.
PlatformEngines(au) ==
  IF au.status = "authenticated"
  THEN {"educator", "student"} \cup {IF IsSuperAdmin(au) THEN "admin" ELSE "landing"}
  ELSE {"login"}

AccountLinks(au) == IF au.status = "authenticated" THEN {"dashboard"} ELSE {"login"}

MobileMenu(au) == SolutionsMenu(au) \cup PlatformEngines(au) \cup AccountLinks(au)

Navbar(au) == {"landing"} \cup MobileMenu(au)

Sidebar(au, filter) ==
  LET role == EffectiveRole(au, filter)
      Offers(g, r) == IF role \in {"all", r} THEN {g} ELSE {}
  IN  {"dashboard"} \cup Offers("educator", "teacher") \cup Offers("student", "student")
        \cup Offers("admin", "institute")
        \cup IF IsSuperAdmin(au) THEN {"admin"} ELSE {}

Links ==
  Paths \cap (Navbar(auth) \cup IF path \in Guarded /\ auth.status = "authenticated"
                                THEN Sidebar(auth, roleFilter) ELSE {})

\* A link to the login page carries no page to return to.  A role link of the
\* Navbar opens it in registration mode.
FollowLink(p) ==
  /\ p \in Links /\ p # path
  /\ Render(auth, flows, p, "dashboard", BlankForm)
  /\ sub' = NoSub
  /\ UNCHANGED <<stored, effect, accepted, reset, roleFilter, reloads, late>>

RoleFilterBar ==
  IsSuperAdmin(auth) /\ path \in Guarded /\ auth.status = "authenticated"

SetRoleFilter(f) ==
  /\ RoleFilterBar
  /\ roleFilter # f /\ roleFilter' = f
  /\ UNCHANGED <<auth, stored, effect, flows, path, from, form, sub, accepted, reset,
                 reloads, late>>

\* A page load loses what was under way; the session storage stays, and the
\* history entry keeps the page to return to.
Reload(p) ==
  LET au == LoadedAuth(stored)
      l  == Landed(au, p, from)
  IN  /\ reloads < MaxReloads /\ reloads' = reloads + 1
      /\ auth' = au /\ path' = l.path /\ from' = l.from
      /\ effect' = stored
      /\ flows' = [k \in Tokens |->
           IF flows[k].phase = "unused" THEN flows[k]
           ELSE [flows[k] EXCEPT !.phase = "done", !.here = FALSE]]
      /\ form' = BlankForm /\ sub' = NoSub /\ reset' = "none" /\ late' = FALSE
      /\ UNCHANGED <<stored, accepted, roleFilter>>

(***************************************************************************)
(* AuthProvider.                                                           *)
(***************************************************************************)
HydratePermissionsOnce(old, new) == IF old = Nobody THEN new ELSE old

\* The effects that follow a new token and a new me.
HydratePermissions(old, new) == new

\* setTokens with the effects it triggers: the /me effect of the token before
\* is cancelled, one for the new token starts.
TakeTokens(k, st) ==
  /\ stored' = k /\ effect' = k
  /\ Render([auth EXCEPT !.tokens = k,
               !.permissions = HydratePermissions(@, flows[k].acct)], st, path, from, form)

SignedInAs(a, au) ==
  [au EXCEPT !.me = a, !.status = "authenticated",
             !.permissions = HydratePermissions(@, a)]

SignedOut(au) ==
  [au EXCEPT !.tokens = 0, !.me = Nobody, !.permissions = Nobody,
             !.status = "anonymous"]

\* The effect's request for /me is answered,
EffectOk ==
  /\ effect # 0
  /\ effect' = 0 /\ late' = FALSE
  /\ Render(SignedInAs(OwnerOf(effect), auth), flows, path, from, form)
  /\ UNCHANGED <<stored, sub, accepted, reset, roleFilter, reloads>>

\* refused, lost or aborted after its time-out,
EffectRefused ==
  /\ effect # 0
  /\ effect' = 0 /\ stored' = 0 /\ late' = FALSE
  /\ Render(SignedOut(auth), flows, path, from, form)
  /\ UNCHANGED <<sub, accepted, reset, roleFilter, reloads>>

\* or answered with another error: the tokens and the user are kept.
EffectError ==
  /\ effect # 0
  /\ effect' = 0
  /\ Render([auth EXCEPT !.status = "anonymous"], flows, path, from, form)
  /\ UNCHANGED <<stored, sub, accepted, reset, roleFilter, reloads, late>>

LogoutKeepsStorage ==
  /\ auth.status = "authenticated"
  /\ effect' = 0 /\ late' = FALSE
  /\ Render(SignedOut(auth), flows, path, from, form)
  /\ UNCHANGED <<stored, sub, accepted, reset, roleFilter, reloads>>

LogoutUncancelled ==
  /\ auth.status = "authenticated"
  /\ stored' = 0 /\ late' = FALSE
  /\ Render(SignedOut(auth), flows, path, from, form)
  /\ UNCHANGED <<effect, sub, accepted, reset, roleFilter, reloads>>

\* The button of the Navbar.  The gateway's answer is not waited for.
Logout ==
  /\ auth.status = "authenticated"
  /\ effect' = 0 /\ stored' = 0 /\ late' = FALSE
  /\ Render(SignedOut(auth), flows, path, from, form)
  /\ UNCHANGED <<sub, accepted, reset, roleFilter, reloads>>

(***************************************************************************)
(* Signing in.  Sign-ins are numbered in the order they start.             *)
(***************************************************************************)
NextFlow(k) == flows[k].phase = "unused" /\ \A j \in 1 .. k - 1 : flows[j].phase # "unused"

StartFlow(k, a, ph) ==
  flows' = [flows EXCEPT ![k] =
              [phase |-> ph, acct |-> a, from |-> from, here |-> TRUE]]

LoginForm == path = "login" /\ ~form.register /\ ~form.forgot
OAuthButtons == LoginForm /\ ~form.busy /\ ~form.oauth

\* onSubmit with neither registration nor reset chosen.
SubmitLogin(k, a) ==
  /\ LoginForm /\ ~form.busy
  /\ NextFlow(k) /\ StartFlow(k, a, "post")
  /\ form' = [form EXCEPT !.busy = TRUE, !.msg = "none"]
  /\ UNCHANGED <<auth, stored, effect, path, from, sub, accepted, reset, roleFilter,
                 reloads, late>>

StartOAuth(k, a) ==
  /\ OAuthButtons
  /\ NextFlow(k) /\ StartFlow(k, a, "popup")
  /\ form' = [form EXCEPT !.oauth = TRUE, !.msg = "none"]
  /\ UNCHANGED <<auth, stored, effect, path, from, sub, accepted, reset, roleFilter,
                 reloads, late>>

\* The gateway hands out tokens, to the form or to the popup.
LoginAccepted(k) ==
  /\ flows[k].phase \in {"post", "popup"}
  /\ TakeTokens(k, [flows EXCEPT ![k].phase = "me"])
  /\ UNCHANGED <<sub, accepted, reset, roleFilter, reloads, late>>

\* Wrong credentials, a popup closed or timed out, no answer, or no /me.
LoginFails(k) ==
  /\ flows[k].phase \in {"post", "popup", "me"}
  /\ Render(auth, [flows EXCEPT ![k].phase = "done"], path, from,
            [Settled(k) EXCEPT !.msg = IF flows[k].here THEN "err" ELSE @])
  /\ UNCHANGED <<stored, effect, sub, accepted, reset, roleFilter, reloads, late>>

\* login() ends with its own /me and goes to the page the form came from,
\* whatever became of the token and of the form.
LoginDone(k) ==
  /\ flows[k].phase = "me"
  /\ Render(SignedInAs(flows[k].acct, auth), [flows EXCEPT ![k].phase = "done"],
            flows[k].from, from, Settled(k))
  /\ late' = (auth.tokens # k)
  /\ UNCHANGED <<stored, effect, sub, accepted, reset, roleFilter, reloads>>

(***************************************************************************)
(* The other forms of the login page.                                      *)
(***************************************************************************)
FormOnly ==
  UNCHANGED <<auth, stored, effect, flows, path, from, reset, roleFilter, reloads, late>>

RegisterForm == path = "login" /\ form.register /\ ~form.forgot

\* "Sign up" and "Sign in here"; "Forgot password?" and "Back".
ToggleRegister ==
  /\ path = "login" /\ ~form.forgot
  /\ form' = [form EXCEPT !.register = ~@, !.msg = "none"]
  /\ FormOnly /\ UNCHANGED <<sub, accepted>>

ToggleForgot ==
  /\ path = "login" /\ (form.forgot \/ ~form.register)
  /\ form' = [form EXCEPT !.forgot = ~@, !.msg = "none"]
  /\ FormOnly /\ UNCHANGED <<sub, accepted>>

\* A role link followed on the login page opens its registration form.
RoleLink(r) ==
  /\ path = "login"
  /\ form' = [form EXCEPT !.register = TRUE, !.role = r]
  /\ FormOnly /\ UNCHANGED <<sub, accepted>>

\* The choice of the role stays open while a registration is under way.
SetSignupRole(r) ==
  /\ RegisterForm /\ form.role # r
  /\ form' = [form EXCEPT !.role = r]
  /\ FormOnly /\ UNCHANGED <<sub, accepted>>

InstitutionsLoaded ==
  /\ path = "login" /\ form.register /\ ~form.inst
  /\ form' = [form EXCEPT !.inst = TRUE]
  /\ FormOnly /\ UNCHANGED <<sub, accepted>>

\* The department of a teacher, the name of an institute.
FillSubject ==
  /\ RegisterForm /\ form.role # "student" /\ ~form.subject
  /\ form' = [form EXCEPT !.subject = TRUE]
  /\ FormOnly /\ UNCHANGED <<sub, accepted>>

RegistrationComplete ==
  CASE form.role = "student" -> form.inst
    [] form.role = "teacher" -> form.inst /\ form.subject
    [] OTHER                 -> form.subject

SubmitRegistration ==
  /\ RegisterForm /\ ~form.busy
  /\ IF RegistrationComplete
     THEN /\ sub' = [kind |-> "register", role |-> form.role]
          /\ form' = [form EXCEPT !.busy = TRUE, !.msg = "none"]
     ELSE /\ form' = [form EXCEPT !.msg = "err"]
          /\ UNCHANGED sub
  /\ FormOnly /\ UNCHANGED accepted

SubmitForgot ==
  /\ path = "login" /\ ~form.busy /\ form.forgot
  /\ sub' = [kind |-> "forgot", role |-> form.role]
  /\ form' = [form EXCEPT !.busy = TRUE, !.msg = "none"]
  /\ FormOnly /\ UNCHANGED accepted

RegistrationTakenLate ==
  /\ path = "login" /\ sub.kind = "register"
  /\ accepted' = accepted \cup {sub.role}
  /\ form' = [form EXCEPT !.busy = FALSE, !.msg = form.role, !.register = FALSE]
  /\ sub' = NoSub /\ FormOnly

\* The message names the role the request was for.
RegistrationTaken ==
  /\ path = "login" /\ sub.kind = "register"
  /\ accepted' = accepted \cup {sub.role}
  /\ form' = [form EXCEPT !.busy = FALSE, !.msg = sub.role, !.register = FALSE]
  /\ sub' = NoSub /\ FormOnly

ForgotTaken ==
  /\ path = "login" /\ sub.kind = "forgot"
  /\ form' = [form EXCEPT !.busy = FALSE, !.msg = "sent", !.forgot = FALSE]
  /\ sub' = NoSub /\ FormOnly /\ UNCHANGED accepted

SubmitFails ==
  /\ path = "login" /\ sub.kind # "none"
  /\ form' = [form EXCEPT !.busy = FALSE, !.msg = "err"]
  /\ sub' = NoSub /\ FormOnly
  /\ accepted' \in {accepted, accepted \cup
                     IF sub.kind = "register" THEN {sub.role} ELSE {}}

(***************************************************************************)
(* The reset page.  Its redirect is not cancelled when the page goes away. *)
(***************************************************************************)
ResetOnly ==
  UNCHANGED <<auth, stored, effect, flows, path, from, form, sub, accepted, roleFilter,
              reloads, late>>

ResetForm == path = "reset" /\ reset = "none"

ResetSubmit ==
  /\ ResetForm
  /\ reset' = "busy" /\ ResetOnly

ResetAnswered ==
  /\ reset = "busy"
  /\ reset' \in {"none", "timer"} /\ ResetOnly

ResetRedirect ==
  /\ reset = "timer"
  /\ reset' = "none"
  /\ Render(auth, flows, "login", "dashboard",
            IF path = "login" THEN form ELSE BlankForm)
  /\ UNCHANGED <<stored, effect, sub, accepted, roleFilter, reloads, late>>

Answered(k) == LoginAccepted(k) \/ LoginFails(k) \/ LoginDone(k)

SubAnswered == RegistrationTaken \/ ForgotTaken \/ SubmitFails

EffectAnswered == EffectOk \/ EffectRefused \/ EffectError

MemberNext ==
  \E k \in Tokens : Answered(k) \/ \E a \in Accounts : SubmitLogin(k, a) \/ StartOAuth(k, a)

NewcomerNext ==
  \/ ToggleRegister \/ ToggleForgot \/ InstitutionsLoaded \/ FillSubject
  \/ \E r \in Roles : RoleLink(r) \/ SetSignupRole(r)
  \/ SubmitRegistration \/ SubmitForgot \/ SubAnswered
  \/ ResetSubmit \/ ResetAnswered \/ ResetRedirect

Next ==
  /\ \/ \E p \in Paths : FollowLink(p)
     \/ \E p \in {path} \cup {q \in Paths : q = "reset" /\ visitor = "newcomer"} : Reload(p)
     \/ \E f \in Filters : SetRoleFilter(f)
     \/ EffectAnswered \/ Logout
     \/ visitor = "member" /\ MemberNext
     \/ visitor = "newcomer" /\ NewcomerNext
  /\ UNCHANGED visitor

\* apiFetch aborts a request after its time-out, so every request ends.  The
\* popup of a provider is left to the user.
Fairness ==
  /\ WF_vars(EffectAnswered /\ UNCHANGED visitor)
  /\ WF_vars(SubAnswered /\ UNCHANGED visitor)
  /\ \A k \in Tokens :
       WF_vars(flows[k].phase # "popup" /\ Answered(k) /\ UNCHANGED visitor)

Spec == Init /\ [][Next]_vars /\ Fairness
-----------------------------------------------------------------------------
Messages == {"none", "err", "sent"} \cup Roles

TypeOK ==
  /\ auth \in [tokens : 0 .. MaxLogins, me : Accounts \cup {Nobody},
               permissions : Accounts \cup {Nobody},
               status : {"loading", "anonymous", "authenticated"}]
  /\ stored \in 0 .. MaxLogins /\ effect \in 0 .. MaxLogins
  /\ flows \in [Tokens -> [phase : {"unused", "post", "popup", "me", "done"},
                           acct : Accounts \cup {Nobody},
                           from : Paths, here : BOOLEAN]]
  /\ path \in Paths /\ from \in Paths
  /\ form \in [register : BOOLEAN, forgot : BOOLEAN, role : Roles, inst : BOOLEAN,
               subject : BOOLEAN, busy : BOOLEAN, oauth : BOOLEAN, msg : Messages]
  /\ accepted \subseteq Roles /\ reset \in {"none", "busy", "timer"}
  /\ roleFilter \in Filters /\ visitor \in Visitors

\* Who is signed in on the screen is who the token belongs to, or the profile
\* of the token is still to come; except that login() sets its user without
\* looking at the token again, which a logout, a refused /me or another
\* sign-in may have replaced while it waited.
ScreenMatchesToken ==
  auth.status = "authenticated" =>
    \/ auth.tokens # 0 /\ auth.me = OwnerOf(auth.tokens)
    \/ auth.tokens # 0 /\ effect = auth.tokens
    \/ late

\* A guarded page on the screen is open to the user on the screen, whichever
\* of the overlapping answers filled the permissions; while a replaced token's
\* profile is still to come, the new token's permissions count.
PageAllowed ==
  auth.status = "authenticated" /\ path \in Guarded /\ Required[path] # {} =>
    \/ (Required[path] \cup {"SUPER_ADMIN"}) \cap Permissions(auth.me) # {}
    \/ late \/ effect # 0

\* A confirmation names a role for which the gateway took a registration, even
\* when the form was changed while the request was under way.
ConfirmationTrue == form.msg \in Roles => form.msg \in accepted

\* No request leaves the interface waiting: loading ends, and so does a busy
\* form.
WaitingEnds ==
  /\ auth.status = "loading" ~> auth.status # "loading"
  /\ form.busy ~> ~form.busy

ShownUser == IF auth.status = "authenticated" THEN auth.me ELSE Nobody

InPhase(S) == {k \in Tokens : flows[k].phase \in S}

AskedFor == {flows[k].acct : k \in InPhase({"post", "popup"})}

GrantedTo == {flows[k].acct : k \in InPhase({"me"})} \cup ({OwnerOf(auth.tokens)} \ {Nobody})

Promise ==
  INSTANCE SignIn WITH user <- ShownUser, asked <- AskedFor, granted <- GrantedTo

\* The sign-in machinery keeps the promise of SignIn: nobody appears as signed
\* in without an accepted request, and a sign-out is undone only by a request
\* that was under way or is new; a page load brings nobody back.
KeepsPromise == Promise!SignInSpec
=============================================================================
