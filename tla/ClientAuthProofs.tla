-------------------------- MODULE ClientAuthProofs --------------------------
(***************************************************************************)
(* Signing in to the web interface, for any number of accounts, sign-ins,  *)
(* page loads and groups of pages: whose name is on the screen, which      *)
(* pages are open, what a confirmation says, and that the interface keeps  *)
(* the promise of SignIn.                                                  *)
(***************************************************************************)
EXTENDS ClientAuth, TLAPS

Flow == [phase : {"unused", "post", "popup", "me", "done"},
         acct : Accounts \cup {Nobody}, from : Paths, here : BOOLEAN]

Form == [register : BOOLEAN, forgot : BOOLEAN, role : Roles, inst : BOOLEAN,
         subject : BOOLEAN, busy : BOOLEAN, oauth : BOOLEAN, msg : Messages]

Auth == [tokens : 0 .. MaxLogins, me : Accounts \cup {Nobody},
         permissions : Accounts \cup {Nobody},
         status : {"loading", "anonymous", "authenticated"}]

\* The storage and the effect go with the token of the context, which a sign-in
\* obtained; only a sign-in that was started has an account.
TokenInv ==
  /\ stored = auth.tokens /\ effect \in {0, auth.tokens}
  /\ auth.tokens # 0 => flows[auth.tokens].phase # "unused"
  /\ \A k \in Tokens : flows[k].phase # "unused" => flows[k].acct \in Accounts

ShapeInv ==
  /\ TypeOK /\ TokenInv
  /\ sub \in [kind : {"none", "register", "forgot"}, role : Roles]

LEMMA LandedType ==
  ASSUME NEW au, NEW p \in Paths, NEW f \in Paths
  PROVE  /\ Landed(au, p, f).path \in Paths /\ Landed(au, p, f).from \in Paths
         /\ au.status = "authenticated" => RoleGuard(au, Landed(au, p, f).path) = Landed(au, p, f).path
<1>1. {"login", "dashboard"} \subseteq Paths
  BY ClientAssumption
<1>2. \A q \in Paths : RoleGuard(au, q) \in {q, "dashboard"}
  BY DEF RoleGuard
<1>3. Required["dashboard"] = {}
  BY DEF Required
<1>4. \A q : RoleGuard(au, RoleGuard(au, q)) = RoleGuard(au, q)
  BY <1>3 DEF RoleGuard
<1>5. CASE au.status = "authenticated"
  <2>1. Landed(au, p, f) = [path |-> RoleGuard(au, IF p = "login" THEN f ELSE p), from |-> f]
    BY <1>5 DEF Landed
  <2> QED
    BY <1>1, <1>2, <1>4, <2>1
<1>6. CASE au.status = "anonymous" /\ p \notin Public
  <2>1. Landed(au, p, f) = [path |-> "login", from |-> p]
    BY <1>6 DEF Landed
  <2> QED
    BY <1>1, <1>6, <2>1
<1>7. CASE au.status # "authenticated" /\ ~(au.status = "anonymous" /\ p \notin Public)
  <2>1. Landed(au, p, f) = [path |-> p, from |-> f]
    BY <1>7 DEF Landed
  <2> QED
    BY <1>7, <2>1
<1> QED
  BY <1>5, <1>6, <1>7

\* What a render leaves: the context as given, sign-ins whose page may be gone,
\* an allowed page, and the form as given or a blank one.
Rendered(au, fl, fm) ==
  /\ auth' = au /\ auth' \in Auth /\ path' \in Paths /\ from' \in Paths
  /\ au.status = "authenticated" => RoleGuard(au, path') = path'
  /\ form' \in {fm, BlankForm} /\ form' \in Form
  /\ flows' \in [Tokens -> Flow]
  /\ \A k \in Tokens : /\ flows'[k].phase = fl[k].phase /\ flows'[k].acct = fl[k].acct
                        /\ flows'[k].from = fl[k].from

LEMMA RenderResult ==
  ASSUME NEW au \in Auth, NEW fl \in [Tokens -> Flow], NEW p \in Paths, NEW f \in Paths,
         NEW fm \in Form, Render(au, fl, p, f, fm)
  PROVE  Rendered(au, fl, fm)
<1> USE DEF Rendered
<1>1. /\ auth' = au /\ path' = Landed(au, p, f).path /\ from' = Landed(au, p, f).from
      /\ form' \in {fm, BlankForm}
  BY DEF Render
<1>2. BlankForm \in Form
  BY DEF BlankForm, Form, Roles, Messages
<1>3. CASE flows' = fl
  BY <1>1, <1>2, <1>3, LandedType
<1>4. CASE flows' = [k \in Tokens |-> [fl[k] EXCEPT !.here = FALSE]]
  <2>1. flows' \in [Tokens -> Flow]
    BY <1>4 DEF Flow
  <2>2. \A k \in Tokens : flows'[k].phase = fl[k].phase /\ flows'[k].acct = fl[k].acct
                          /\ flows'[k].from = fl[k].from
    BY <1>4 DEF Flow
  <2> QED
    BY <1>1, <1>2, <2>1, <2>2, LandedType
<1> QED
  BY <1>3, <1>4 DEF Render

LEMMA InitShape == Init => ShapeInv
<1> SUFFICES ASSUME Init PROVE ShapeInv
  OBVIOUS
<1>1. /\ auth = [tokens |-> 0, me |-> Nobody, permissions |-> Nobody, status |-> "anonymous"]
      /\ stored = 0 /\ effect = 0 /\ 0 \in 0 .. MaxLogins
  BY ClientAssumption DEF Init
<1>2. NoFlow \in Flow /\ NoFlow.phase = "unused"
  BY ClientAssumption DEF NoFlow, Flow
<1>3. flows = [k \in Tokens |-> NoFlow]
  BY DEF Init
<1>4. form = BlankForm /\ BlankForm \in Form
  BY DEF Init, BlankForm, Form, Roles, Messages
<1>5. /\ path \in Paths /\ from \in Paths /\ accepted \subseteq Roles
      /\ reset \in {"none", "busy", "timer"} /\ roleFilter \in Filters /\ visitor \in Visitors
  BY ClientAssumption DEF Init
<1>6. TypeOK
  BY <1>1, <1>2, <1>3, <1>4, <1>5 DEF TypeOK, Flow, Form
<1>7. TokenInv
  BY <1>1, <1>2, <1>3 DEF TokenInv
<1>8. sub \in [kind : {"none", "register", "forgot"}, role : Roles]
  BY DEF Init, NoSub, Roles
<1> QED
  BY <1>6, <1>7, <1>8 DEF ShapeInv

-----------------------------------------------------------------------------
(* What the steps do to the context, the sign-ins and the form. *)

LEMMA Types ==
  ASSUME ShapeInv
  PROVE  /\ auth \in Auth /\ flows \in [Tokens -> Flow] /\ form \in Form
         /\ path \in Paths /\ from \in Paths /\ "login" \in Paths /\ "dashboard" \in Paths
         /\ \A t \in 0 .. MaxLogins : t = 0 \/ t \in Tokens
         /\ \A t \in 0 .. MaxLogins : OwnerOf(t) \in Accounts \cup {Nobody}
         /\ effect # 0 => effect = auth.tokens /\ effect \in Tokens
                          /\ OwnerOf(effect) = flows[effect].acct /\ OwnerOf(effect) \in Accounts
<1>1. /\ auth \in Auth /\ flows \in [Tokens -> Flow] /\ form \in Form
      /\ path \in Paths /\ from \in Paths /\ "login" \in Paths /\ "dashboard" \in Paths
  BY ClientAssumption DEF ShapeInv, TypeOK, Auth, Flow, Form
<1>2. \A t \in 0 .. MaxLogins : t = 0 \/ t \in Tokens
  BY ClientAssumption DEF Tokens
<1>3. \A t \in 0 .. MaxLogins : OwnerOf(t) \in Accounts \cup {Nobody}
  BY <1>1, <1>2 DEF OwnerOf, Flow
<1>4. effect # 0 => effect = auth.tokens /\ effect \in Tokens
                    /\ OwnerOf(effect) = flows[effect].acct /\ OwnerOf(effect) \in Accounts
  BY <1>2 DEF ShapeInv, TypeOK, TokenInv, OwnerOf
<1> QED
  BY <1>1, <1>2, <1>3, <1>4

LEMMA EffectSteps ==
  ASSUME ShapeInv
  PROVE  /\ EffectOk => Rendered(SignedInAs(OwnerOf(effect), auth), flows, form)
         /\ EffectRefused \/ Logout => Rendered(SignedOut(auth), flows, form)
         /\ EffectError => Rendered([auth EXCEPT !.status = "anonymous"], flows, form)
<1>1. /\ SignedOut(auth) \in Auth /\ [auth EXCEPT !.status = "anonymous"] \in Auth
  <2>1. auth \in Auth /\ 0 \in 0 .. MaxLogins
    BY Types, ClientAssumption
  <2> QED
    BY <2>1 DEF SignedOut, Auth
<1>2. effect # 0 => SignedInAs(OwnerOf(effect), auth) \in Auth
  BY Types DEF SignedInAs, HydratePermissions, Auth
<1>3. EffectOk => Rendered(SignedInAs(OwnerOf(effect), auth), flows, form)
  BY <1>2, Types, RenderResult DEF EffectOk
<1>4. EffectRefused \/ Logout => Rendered(SignedOut(auth), flows, form)
  BY <1>1, Types, RenderResult DEF EffectRefused, Logout
<1>5. EffectError => Rendered([auth EXCEPT !.status = "anonymous"], flows, form)
  BY <1>1, Types, RenderResult DEF EffectError
<1> QED
  BY <1>3, <1>4, <1>5

WithTokens(k) ==
  [auth EXCEPT !.tokens = k, !.permissions = HydratePermissions(@, flows[k].acct)]

WithPhase(k, ph) == [flows EXCEPT ![k].phase = ph]

LEMMA LoginSteps ==
  ASSUME ShapeInv, NEW k \in Tokens
  PROVE  /\ LoginAccepted(k) => Rendered(WithTokens(k), WithPhase(k, "me"), form)
         /\ LoginFails(k) => /\ \E fm \in Form : fm.msg \in {form.msg, "err"}
                                                /\ Rendered(auth, WithPhase(k, "done"), fm)
         /\ LoginDone(k) => /\ Rendered(SignedInAs(flows[k].acct, auth), WithPhase(k, "done"),
                                        Settled(k))
                            /\ Settled(k).msg = form.msg
<1>1. flows[k] \in Flow /\ flows[k].acct \in Accounts \cup {Nobody} /\ k \in 0 .. MaxLogins
  BY Types DEF Flow, Tokens
<1>2. WithTokens(k) \in Auth /\ SignedInAs(flows[k].acct, auth) \in Auth
  BY <1>1, Types DEF SignedInAs, HydratePermissions, Auth, WithTokens
<1>3. WithPhase(k, "me") \in [Tokens -> Flow] /\ WithPhase(k, "done") \in [Tokens -> Flow]
  BY Types DEF WithPhase, Flow
<1>4. /\ Settled(k) \in Form /\ Settled(k).msg = form.msg
      /\ [Settled(k) EXCEPT !.msg = "err"] \in Form
      /\ [Settled(k) EXCEPT !.msg = "err"].msg = "err"
  <2>1. (form.busy /\ ~flows[k].here) \in BOOLEAN /\ (form.oauth /\ ~flows[k].here) \in BOOLEAN
    OBVIOUS
  <2> QED
    BY <2>1, Types DEF Settled, Form, Messages
<1>5. LoginAccepted(k) => Rendered(WithTokens(k), WithPhase(k, "me"), form)
  BY <1>2, <1>3, Types, RenderResult DEF LoginAccepted, TakeTokens, WithTokens, WithPhase
<1>6. ASSUME LoginFails(k)
      PROVE  \E fm \in Form : fm.msg \in {form.msg, "err"}
                              /\ Rendered(auth, WithPhase(k, "done"), fm)
  <2> DEFINE fm == [Settled(k) EXCEPT !.msg = IF flows[k].here THEN "err" ELSE @]
  <2>1. fm \in Form /\ fm.msg \in {form.msg, "err"}
    <3>1. CASE flows[k].here
      BY <1>4, <3>1
    <3>2. CASE ~flows[k].here
      <4>1. fm = [Settled(k) EXCEPT !.msg = Settled(k).msg]
        BY <3>2
      <4> QED
        BY <1>4, <4>1 DEF Form
    <3> QED
      BY <3>1, <3>2
  <2>2. Render(auth, WithPhase(k, "done"), path, from, fm)
    BY <1>6 DEF LoginFails, WithPhase
  <2> QED
    BY <1>3, <2>1, <2>2, Types, RenderResult
<1>7. LoginDone(k) => Rendered(SignedInAs(flows[k].acct, auth), WithPhase(k, "done"), Settled(k))
  <2>1. flows[k].from \in Paths
    BY <1>1 DEF Flow
  <2> QED
    BY <1>2, <1>3, <1>4, <2>1, Types, RenderResult DEF LoginDone, WithPhase
<1> QED
  BY <1>4, <1>5, <1>6, <1>7

LEMMA PageSteps ==
  ASSUME ShapeInv
  PROVE  /\ \A p \in Paths : FollowLink(p) => Rendered(auth, flows, BlankForm)
         /\ ResetRedirect => Rendered(auth, flows, form)
<1>1. BlankForm \in Form
  BY DEF BlankForm, Form, Roles, Messages
<1>2. \A p \in Paths : FollowLink(p) => Rendered(auth, flows, BlankForm)
  BY <1>1, Types, RenderResult DEF FollowLink
<1>3. ASSUME ResetRedirect PROVE Rendered(auth, flows, form)
  <2>1. CASE path = "login"
    BY <1>3, <2>1, Types, RenderResult DEF ResetRedirect
  <2>2. CASE path # "login"
    <3>1. Rendered(auth, flows, BlankForm)
      BY <1>1, <1>3, <2>2, Types, RenderResult DEF ResetRedirect
    <3> QED
      BY <3>1 DEF Rendered
  <2> QED
    BY <2>1, <2>2
<1> QED
  BY <1>2, <1>3

\* A page load forgets what was under way and keeps the token of the storage.
LEMMA ReloadStep ==
  ASSUME ShapeInv, NEW p \in Paths, Reload(p)
  PROVE  /\ auth' = LoadedAuth(stored) /\ auth' \in Auth /\ auth'.status # "authenticated"
         /\ auth'.tokens = stored /\ effect' = stored /\ UNCHANGED <<stored, accepted>>
         /\ path' \in Paths /\ from' \in Paths /\ form' = BlankForm /\ sub' = NoSub
         /\ flows' \in [Tokens -> Flow]
         /\ \A k \in Tokens : /\ flows'[k].acct = flows[k].acct
                               /\ flows'[k].phase = IF flows[k].phase = "unused" THEN "unused" ELSE "done"
<1>1. /\ auth' = LoadedAuth(stored) /\ effect' = stored /\ UNCHANGED <<stored, accepted>>
      /\ form' = BlankForm /\ sub' = NoSub
      /\ path' = Landed(LoadedAuth(stored), p, from).path
      /\ from' = Landed(LoadedAuth(stored), p, from).from
      /\ flows' = [k \in Tokens |->
           IF flows[k].phase = "unused" THEN flows[k]
           ELSE [flows[k] EXCEPT !.phase = "done", !.here = FALSE]]
  BY DEF Reload
<1>2. stored \in 0 .. MaxLogins /\ OwnerOf(stored) \in Accounts \cup {Nobody}
  BY Types DEF ShapeInv, TypeOK
<1>3. /\ LoadedAuth(stored) \in Auth /\ LoadedAuth(stored).status # "authenticated"
      /\ LoadedAuth(stored).tokens = stored
  BY <1>2 DEF LoadedAuth, Auth
<1>4. path' \in Paths /\ from' \in Paths
  BY <1>1, Types, LandedType
<1>5. flows' \in [Tokens -> Flow]
  BY <1>1, Types DEF Flow
<1>6. \A k \in Tokens :
         /\ flows'[k].acct = flows[k].acct
         /\ flows'[k].phase = IF flows[k].phase = "unused" THEN "unused" ELSE "done"
  BY <1>1, Types DEF Flow
<1> QED
  BY <1>1, <1>3, <1>4, <1>5, <1>6

\* A sign-in starts: the number it takes belongs to no token yet.
LEMMA StartStep ==
  ASSUME ShapeInv, NEW k \in Tokens, NEW a \in Accounts, SubmitLogin(k, a) \/ StartOAuth(k, a)
  PROVE  /\ UNCHANGED <<auth, stored, effect, path, from, sub, accepted, late, reset, roleFilter>>
         /\ flows[k].phase = "unused" /\ k # auth.tokens
         /\ flows' \in [Tokens -> Flow]
         /\ flows'[k].phase \in {"post", "popup"} /\ flows'[k].acct = a
         /\ \A j \in Tokens \ {k} : flows'[j] = flows[j]
         /\ form' \in Form /\ form'.msg = "none"
<1>1. PICK ph \in {"post", "popup"} :
        flows' = [flows EXCEPT ![k] = [phase |-> ph, acct |-> a, from |-> from, here |-> TRUE]]
  BY DEF SubmitLogin, StartOAuth, StartFlow
<1>2. /\ flows[k].phase = "unused"
      /\ UNCHANGED <<auth, stored, effect, path, from, sub, accepted, late, reset, roleFilter>>
  BY DEF SubmitLogin, StartOAuth, NextFlow
<1>3. k # 0
  BY DEF Tokens
<1>4. k # auth.tokens
  BY <1>2, <1>3 DEF ShapeInv, TokenInv
<1>5. /\ flows' \in [Tokens -> Flow]
      /\ flows'[k].phase \in {"post", "popup"} /\ flows'[k].acct = a
      /\ \A j \in Tokens \ {k} : flows'[j] = flows[j]
  BY <1>1, Types DEF Flow
<1>6. form' \in Form /\ form'.msg = "none"
  BY Types DEF SubmitLogin, StartOAuth, Form, Messages
<1> QED
  BY <1>2, <1>4, <1>5, <1>6

NewcomerForms ==
  \/ ToggleRegister \/ ToggleForgot \/ InstitutionsLoaded \/ FillSubject
  \/ (\E r \in Roles : RoleLink(r) \/ SetSignupRole(r))
  \/ SubmitRegistration \/ SubmitForgot \/ SubAnswered

\* The other forms touch neither the context nor the sign-ins; a message that
\* names a role names one that was accepted in this step.
LEMMA FormStep ==
  ASSUME ShapeInv, NewcomerForms
  PROVE  /\ UNCHANGED <<auth, stored, effect, flows, path, from, reset, roleFilter, late>>
         /\ form' \in Form /\ sub' \in [kind : {"none", "register", "forgot"}, role : Roles]
         /\ accepted \subseteq accepted' /\ accepted' \subseteq Roles
         /\ form'.msg \in {form.msg, "none", "err", "sent"} \/ form'.msg \in accepted'
<1> USE DEF FormOnly
<1>0. /\ form \in Form /\ sub \in [kind : {"none", "register", "forgot"}, role : Roles]
      /\ accepted \subseteq Roles
  BY Types DEF ShapeInv, TypeOK
<1>1. CASE ToggleRegister \/ ToggleForgot \/ InstitutionsLoaded \/ FillSubject
  BY <1>0, <1>1 DEF ToggleRegister, ToggleForgot, InstitutionsLoaded, FillSubject, Form, Messages
<1>2. CASE \E r \in Roles : RoleLink(r) \/ SetSignupRole(r)
  BY <1>0, <1>2 DEF RoleLink, SetSignupRole, Form, Messages
<1>3. CASE SubmitRegistration
  <2>1. CASE RegistrationComplete
    <3>1. /\ sub' = [kind |-> "register", role |-> form.role]
          /\ form' = [form EXCEPT !.busy = TRUE, !.msg = "none"]
      BY <1>3, <2>1 DEF SubmitRegistration
    <3>2. /\ UNCHANGED <<auth, stored, effect, flows, path, from, reset, roleFilter, late>>
          /\ accepted' = accepted
      BY <1>3 DEF SubmitRegistration
    <3>3. sub' \in [kind : {"none", "register", "forgot"}, role : Roles]
      BY <1>0, <3>1 DEF Form
    <3>4. form' \in Form /\ form'.msg = "none"
      BY <1>0, <3>1 DEF Form, Messages
    <3> QED
      BY <1>0, <3>2, <3>3, <3>4
  <2>2. CASE ~RegistrationComplete
    BY <1>0, <1>3, <2>2 DEF SubmitRegistration, Form, Messages
  <2> QED
    BY <2>1, <2>2
<1>4. CASE SubmitForgot
  BY <1>0, <1>4 DEF SubmitForgot, Form, Messages
<1>5. CASE RegistrationTaken
  <2>1. sub.role \in Roles /\ NoSub \in [kind : {"none", "register", "forgot"}, role : Roles]
    BY <1>0 DEF NoSub, Roles
  <2> QED
    BY <1>0, <1>5, <2>1 DEF RegistrationTaken, Form, Messages
<1>6. CASE ForgotTaken
  BY <1>0, <1>6 DEF ForgotTaken, Form, Messages, NoSub, Roles
<1>7. CASE SubmitFails
  <2>1. sub.role \in Roles /\ NoSub \in [kind : {"none", "register", "forgot"}, role : Roles]
    BY <1>0 DEF NoSub, Roles
  <2>2. accepted' \subseteq Roles /\ accepted \subseteq accepted'
    BY <1>0, <1>7, <2>1 DEF SubmitFails
  <2>3. form' \in Form /\ form'.msg = "err"
    BY <1>0, <1>7 DEF SubmitFails, Form, Messages
  <2> QED
    BY <1>7, <2>1, <2>2, <2>3 DEF SubmitFails
<1> QED
  BY <1>1, <1>2, <1>3, <1>4, <1>5, <1>6, <1>7 DEF NewcomerForms, SubAnswered

-----------------------------------------------------------------------------
(* Types and tokens. *)

Subs == [kind : {"none", "register", "forgot"}, role : Roles]

LEMMA ShapeFrom ==
  ASSUME ShapeInv, visitor' = visitor,
         auth' \in Auth, flows' \in [Tokens -> Flow], form' \in Form,
         path' \in Paths, from' \in Paths, sub' \in Subs, accepted' \subseteq Roles,
         reset' \in {"none", "busy", "timer"}, roleFilter' \in Filters,
         stored' = auth'.tokens, effect' \in {0, auth'.tokens},
         auth'.tokens # 0 => flows'[auth'.tokens].phase # "unused",
         \A k \in Tokens : flows'[k].phase # "unused" => flows'[k].acct \in Accounts
  PROVE  ShapeInv'
<1>1. auth'.tokens \in 0 .. MaxLogins /\ 0 \in 0 .. MaxLogins
  BY ClientAssumption DEF Auth
<1>2. TypeOK'
  BY <1>1 DEF ShapeInv, TypeOK, Auth, Flow, Form
<1>3. TokenInv'
  BY DEF TokenInv
<1> QED
  BY <1>2, <1>3 DEF ShapeInv, Subs

LEMMA ShapeRendered ==
  ASSUME ShapeInv, visitor' = visitor, NEW au, NEW fl, NEW fm, Rendered(au, fl, fm),
         sub' \in Subs, accepted' \subseteq Roles,
         reset' \in {"none", "busy", "timer"}, roleFilter' \in Filters,
         stored' = au.tokens, effect' \in {0, au.tokens},
         au.tokens # 0 => au.tokens \in Tokens /\ fl[au.tokens].phase # "unused",
         \A k \in Tokens : fl[k].phase # "unused" => fl[k].acct \in Accounts
  PROVE  ShapeInv'
BY ShapeFrom DEF Rendered

LEMMA NextShape == ShapeInv /\ [Next]_vars => ShapeInv'
<1> SUFFICES ASSUME ShapeInv, [Next]_vars PROVE ShapeInv'
  OBVIOUS
<1>0. /\ sub \in Subs /\ accepted \subseteq Roles /\ reset \in {"none", "busy", "timer"}
      /\ roleFilter \in Filters /\ NoSub \in Subs
      /\ stored = auth.tokens /\ effect \in {0, auth.tokens}
      /\ auth.tokens # 0 => flows[auth.tokens].phase # "unused"
      /\ \A k \in Tokens : flows[k].phase # "unused" => flows[k].acct \in Accounts
      /\ auth.tokens # 0 => auth.tokens \in Tokens
  <2>1. auth.tokens \in 0 .. MaxLogins
    BY Types DEF Auth
  <2> QED
    BY <2>1, Types DEF ShapeInv, TypeOK, TokenInv, Subs, NoSub, Roles
<1>1. CASE UNCHANGED vars
  BY <1>1 DEF vars, ShapeInv, TypeOK, TokenInv
<1> SUFFICES ASSUME Next PROVE ShapeInv'
  BY <1>1
<1>2. visitor' = visitor
  BY DEF Next
<1>3. ASSUME NEW p \in Paths, FollowLink(p) PROVE ShapeInv'
  <2>1. Rendered(auth, flows, BlankForm)
    BY <1>3, PageSteps
  <2>2. UNCHANGED <<stored, effect, accepted, reset, roleFilter>> /\ sub' = NoSub
    BY <1>3 DEF FollowLink
  <2> QED
    BY <1>0, <1>2, <2>1, <2>2, ShapeRendered
<1>4. ASSUME NEW p \in Paths, Reload(p) PROVE ShapeInv'
  <2>1. reset' = "none" /\ roleFilter' = roleFilter
    BY <1>4 DEF Reload
  <2>2. BlankForm \in Form
    BY DEF BlankForm, Form, Roles, Messages
  <2> QED
    BY <1>0, <1>2, <1>4, <2>1, <2>2, ReloadStep, ShapeFrom
<1>5. ASSUME NEW f \in Filters, SetRoleFilter(f) PROVE ShapeInv'
  BY <1>0, <1>2, <1>5, Types, ShapeFrom DEF SetRoleFilter
<1>6. CASE EffectOk
  <2>1. Rendered(SignedInAs(OwnerOf(effect), auth), flows, form)
    BY <1>6, EffectSteps
  <2>2. SignedInAs(OwnerOf(effect), auth).tokens = auth.tokens
    BY Types DEF SignedInAs, Auth
  <2>3. effect' = 0 /\ UNCHANGED <<stored, sub, accepted, reset, roleFilter>>
    BY <1>6 DEF EffectOk
  <2> QED
    BY <1>0, <1>2, <2>1, <2>2, <2>3, ShapeRendered
<1>7. CASE EffectRefused \/ Logout
  <2>1. Rendered(SignedOut(auth), flows, form)
    BY <1>7, EffectSteps
  <2>2. SignedOut(auth).tokens = 0
    BY Types DEF SignedOut, Auth
  <2>3. effect' = 0 /\ stored' = 0 /\ UNCHANGED <<sub, accepted, reset, roleFilter>>
    BY <1>7 DEF EffectRefused, Logout
  <2> QED
    BY <1>0, <1>2, <2>1, <2>2, <2>3, ShapeRendered
<1>8. CASE EffectError
  <2>1. Rendered([auth EXCEPT !.status = "anonymous"], flows, form)
    BY <1>8, EffectSteps
  <2>2. [auth EXCEPT !.status = "anonymous"].tokens = auth.tokens
    BY Types DEF Auth
  <2>3. effect' = 0 /\ UNCHANGED <<stored, sub, accepted, reset, roleFilter>>
    BY <1>8 DEF EffectError
  <2> QED
    BY <1>0, <1>2, <2>1, <2>2, <2>3, ShapeRendered
<1>9. ASSUME NEW k \in Tokens, NEW a \in Accounts, SubmitLogin(k, a) \/ StartOAuth(k, a)
      PROVE  ShapeInv'
  BY <1>0, <1>2, <1>9, StartStep, Types, ShapeFrom
<1>10. ASSUME NEW k \in Tokens, Answered(k) PROVE ShapeInv'
  <2>1. /\ UNCHANGED <<sub, accepted, reset, roleFilter>> /\ k # 0
        /\ flows[k].phase # "unused" /\ flows[k].acct \in Accounts
    BY <1>0, <1>10 DEF Answered, LoginAccepted, LoginFails, LoginDone, Tokens
  <2>2. ASSUME NEW ph \in {"me", "done"}
        PROVE  \A j \in Tokens : /\ WithPhase(k, ph)[j].acct = flows[j].acct
                                 /\ WithPhase(k, ph)[j].phase = IF j = k THEN ph ELSE flows[j].phase
    BY Types DEF WithPhase, Flow
  <2>3. CASE LoginAccepted(k)
    <3>1. Rendered(WithTokens(k), WithPhase(k, "me"), form)
      BY <2>3, LoginSteps
    <3>2. WithTokens(k).tokens = k /\ stored' = k /\ effect' = k
      BY <2>3, Types DEF WithTokens, Auth, LoginAccepted, TakeTokens
    <3> QED
      BY <1>0, <1>2, <2>1, <2>2, <3>1, <3>2, ShapeRendered
  <2>4. CASE LoginFails(k)
    <3>1. PICK fm \in Form : Rendered(auth, WithPhase(k, "done"), fm)
      BY <2>4, LoginSteps
    <3>2. UNCHANGED <<stored, effect>>
      BY <2>4 DEF LoginFails
    <3> QED
      BY <1>0, <1>2, <2>1, <2>2, <3>1, <3>2, ShapeRendered
  <2>5. CASE LoginDone(k)
    <3>1. Rendered(SignedInAs(flows[k].acct, auth), WithPhase(k, "done"), Settled(k))
      BY <2>5, LoginSteps
    <3>2. UNCHANGED <<stored, effect>> /\ SignedInAs(flows[k].acct, auth).tokens = auth.tokens
      BY <2>5, Types DEF LoginDone, SignedInAs, Auth
    <3> QED
      BY <1>0, <1>2, <2>1, <2>2, <3>1, <3>2, ShapeRendered
  <2> QED
    BY <1>10, <2>3, <2>4, <2>5 DEF Answered
<1>11. CASE NewcomerForms
  <2>1. /\ UNCHANGED <<auth, stored, effect, flows, path, from, reset, roleFilter>>
        /\ form' \in Form /\ sub' \in Subs /\ accepted' \subseteq Roles
    BY <1>11, FormStep DEF Subs
  <2> QED
    BY <1>0, <1>2, <2>1, Types, ShapeFrom
<1>12. CASE ResetSubmit \/ ResetAnswered
  <2>1. reset' \in {"none", "busy", "timer"} /\ ResetOnly
    BY <1>12 DEF ResetSubmit, ResetAnswered
  <2>2. UNCHANGED <<auth, stored, effect, flows, path, from, form, sub, accepted, roleFilter>>
    BY <2>1 DEF ResetOnly
  <2> QED
    BY <1>0, <1>2, <2>1, <2>2, Types, ShapeFrom
<1>13. CASE ResetRedirect
  <2>1. Rendered(auth, flows, form)
    BY <1>13, PageSteps
  <2>2. reset' = "none" /\ UNCHANGED <<stored, effect, sub, accepted, roleFilter>>
    BY <1>13 DEF ResetRedirect
  <2> QED
    BY <1>0, <1>2, <2>1, <2>2, ShapeRendered
<1>14. CASE visitor = "member" /\ MemberNext
  BY <1>9, <1>10, <1>14 DEF MemberNext
<1>15. CASE visitor = "newcomer" /\ NewcomerNext
  BY <1>11, <1>12, <1>13, <1>15 DEF NewcomerNext, NewcomerForms
<1>16. ASSUME NEW p \in {path} \cup {q \in Paths : q = "reset" /\ visitor = "newcomer"}, Reload(p)
       PROVE  ShapeInv'
  BY <1>4, <1>16, Types
<1> QED
  BY <1>3, <1>5, <1>6, <1>7, <1>8, <1>14, <1>15, <1>16 DEF Next, EffectAnswered

LEMMA ShapeInvariant == Spec => []ShapeInv
BY InitShape, NextShape, PTL DEF Spec

\* The state of the context, of the sign-ins and of the forms keeps its type, and
\* every page the routes lead to exists.
THEOREM ClientTypeCorrect == Spec => []TypeOK
BY ShapeInvariant, PTL DEF ShapeInv

-----------------------------------------------------------------------------
(* Who is on the screen, and which page. *)

SameFlows == \A k \in Tokens : flows'[k].phase = flows[k].phase /\ flows'[k].acct = flows[k].acct

PageGuarded == auth.status = "authenticated" => RoleGuard(auth, path) = path

\* Steps that leave the context and the sign-ins alone.
Quiet ==
  /\ UNCHANGED <<auth, stored, effect, late>> /\ SameFlows
  /\ path' = path \/ PageGuarded'

LEMMA StepCases ==
  ASSUME ShapeInv, [Next]_vars
  PROVE  \/ Quiet \/ EffectOk \/ EffectRefused \/ EffectError \/ Logout
         \/ \E p \in Paths : Reload(p)
         \/ \E k \in Tokens : \/ LoginAccepted(k) \/ LoginFails(k) \/ LoginDone(k)
                               \/ \E a \in Accounts : SubmitLogin(k, a) \/ StartOAuth(k, a)
<1>1. ASSUME NEW fm, Rendered(auth, flows, fm), UNCHANGED <<stored, effect, late>>
      PROVE  Quiet
  BY <1>1 DEF Rendered, Quiet, SameFlows, PageGuarded
<1>2. ASSUME NEW p \in Paths, FollowLink(p) PROVE Quiet
  <2>1. Rendered(auth, flows, BlankForm)
    BY <1>2, PageSteps
  <2> QED
    BY <1>1, <1>2, <2>1 DEF FollowLink
<1>3. CASE ResetRedirect
  <2>1. Rendered(auth, flows, form)
    BY <1>3, PageSteps
  <2> QED
    BY <1>1, <1>3, <2>1 DEF ResetRedirect
<1>4. CASE ResetSubmit \/ ResetAnswered
  BY <1>4 DEF ResetSubmit, ResetAnswered, ResetOnly, Quiet, SameFlows
<1>5. CASE NewcomerForms
  <2>1. UNCHANGED <<auth, stored, effect, flows, path, late>>
    BY <1>5, FormStep
  <2> QED
    BY <2>1 DEF Quiet, SameFlows
<1>6. CASE UNCHANGED vars
  BY <1>6 DEF vars, Quiet, SameFlows
<1>7. ASSUME NEW f \in Filters, SetRoleFilter(f) PROVE Quiet
  BY <1>7 DEF SetRoleFilter, Quiet, SameFlows
<1>8. CASE visitor = "newcomer" /\ NewcomerNext
  BY <1>3, <1>4, <1>5, <1>8 DEF NewcomerNext, NewcomerForms
<1>9. ASSUME NEW p \in {path} \cup {q \in Paths : q = "reset" /\ visitor = "newcomer"}, Reload(p)
      PROVE  \E q \in Paths : Reload(q)
  BY <1>9, Types
<1> QED
  BY <1>2, <1>6, <1>7, <1>8, <1>9 DEF Next, EffectAnswered, MemberNext, Answered

\* After the profile of the token has arrived, the permissions are those of the
\* user on the screen.
ScreenInv ==
  /\ ScreenMatchesToken /\ PageGuarded
  /\ auth.status = "authenticated" /\ effect = 0 => auth.permissions = auth.me

LEMMA NextScreen == ShapeInv /\ ScreenInv /\ [Next]_vars => ScreenInv'
<1> SUFFICES ASSUME ShapeInv, ScreenInv, [Next]_vars PROVE ScreenInv'
  OBVIOUS
<1>1. /\ auth.tokens \in 0 .. MaxLogins /\ (auth.tokens # 0 => auth.tokens \in Tokens)
      /\ effect \in {0, auth.tokens}
  BY Types DEF Auth, ShapeInv, TokenInv
<1>2. ASSUME auth'.status # "authenticated" PROVE ScreenInv'
  BY <1>2 DEF ScreenInv, ScreenMatchesToken, PageGuarded
<1>3. CASE Quiet
  <2>1. OwnerOf(auth.tokens)' = OwnerOf(auth.tokens)
    BY <1>1, <1>3 DEF Quiet, SameFlows, OwnerOf
  <2>2. PageGuarded'
    BY <1>3 DEF Quiet, ScreenInv, PageGuarded
  <2> QED
    BY <1>3, <2>1, <2>2 DEF Quiet, ScreenInv, ScreenMatchesToken
<1>4. CASE EffectOk
  <2> DEFINE au == SignedInAs(OwnerOf(effect), auth)
  <2>1. Rendered(au, flows, form) /\ effect # 0
    BY <1>4, EffectSteps DEF EffectOk
  <2>2. au.tokens = auth.tokens /\ au.me = OwnerOf(effect) /\ au.permissions = OwnerOf(effect)
    BY Types DEF SignedInAs, HydratePermissions, Auth
  <2>3. effect = auth.tokens /\ effect \in Tokens /\ effect # 0
    BY <1>1, <2>1
  <2> HIDE DEF au
  <2>4. auth' = au /\ PageGuarded'
    BY <2>1 DEF Rendered, PageGuarded
  <2>5. OwnerOf(auth.tokens)' = OwnerOf(effect)
    BY <2>1, <2>2, <2>3, <2>4 DEF OwnerOf, Rendered
  <2> QED
    BY <2>2, <2>3, <2>4, <2>5 DEF ScreenInv, ScreenMatchesToken
<1>5. CASE EffectRefused \/ Logout
  <2>1. auth' = SignedOut(auth)
    BY <1>5, EffectSteps DEF Rendered
  <2>2. auth'.status = "anonymous"
    BY <2>1, Types DEF SignedOut, Auth
  <2> QED
    BY <1>2, <2>2
<1>6. CASE EffectError
  <2>1. auth' = [auth EXCEPT !.status = "anonymous"]
    BY <1>6, EffectSteps DEF Rendered
  <2>2. auth'.status = "anonymous"
    BY <2>1, Types DEF Auth
  <2> QED
    BY <1>2, <2>2
<1>7. ASSUME NEW p \in Paths, Reload(p) PROVE ScreenInv'
  BY <1>2, <1>7, ReloadStep
<1>8. ASSUME NEW k \in Tokens, LoginAccepted(k) PROVE ScreenInv'
  <2>1. Rendered(WithTokens(k), WithPhase(k, "me"), form)
    BY <1>8, LoginSteps
  <2>2. WithTokens(k).tokens = k /\ effect' = k /\ k # 0
    BY <1>8, Types DEF WithTokens, Auth, LoginAccepted, TakeTokens, Tokens
  <2>3. auth' = WithTokens(k) /\ PageGuarded'
    BY <2>1 DEF Rendered, PageGuarded
  <2> QED
    BY <2>1, <2>2, <2>3 DEF ScreenInv, ScreenMatchesToken
<1>9. ASSUME NEW k \in Tokens, LoginFails(k) PROVE ScreenInv'
  <2>1. PICK fm \in Form : Rendered(auth, WithPhase(k, "done"), fm)
    BY <1>9, LoginSteps
  <2>2. UNCHANGED <<auth, effect, late>> /\ PageGuarded'
    BY <1>9, <2>1 DEF LoginFails, Rendered, PageGuarded
  <2>3. \A j \in Tokens : flows'[j].acct = flows[j].acct
    BY <2>1, Types DEF Rendered, WithPhase, Flow
  <2>4. OwnerOf(auth.tokens)' = OwnerOf(auth.tokens)
    BY <1>1, <2>2, <2>3 DEF OwnerOf
  <2> QED
    BY <2>2, <2>4 DEF ScreenInv, ScreenMatchesToken
<1>10. ASSUME NEW k \in Tokens, LoginDone(k) PROVE ScreenInv'
  <2> DEFINE au == SignedInAs(flows[k].acct, auth)
  <2>1. /\ Rendered(au, WithPhase(k, "done"), Settled(k)) /\ late' = (auth.tokens # k) /\ k # 0
    BY <1>10, LoginSteps DEF LoginDone, Tokens
  <2>2. au.tokens = auth.tokens /\ au.me = flows[k].acct /\ au.permissions = flows[k].acct
    BY Types DEF SignedInAs, HydratePermissions, Auth
  <2> HIDE DEF au
  <2>3. auth' = au /\ PageGuarded'
    BY <2>1 DEF Rendered, PageGuarded
  <2>4. flows'[k].acct = flows[k].acct
    BY <2>1, Types DEF Rendered, WithPhase, Flow
  <2>5. auth.tokens = k => OwnerOf(auth.tokens)' = flows[k].acct
    BY <2>1, <2>2, <2>3, <2>4 DEF OwnerOf
  <2> QED
    BY <2>1, <2>2, <2>3, <2>5 DEF ScreenInv, ScreenMatchesToken
<1>11. ASSUME NEW k \in Tokens, NEW a \in Accounts, SubmitLogin(k, a) \/ StartOAuth(k, a)
       PROVE  ScreenInv'
  <2>1. UNCHANGED <<auth, effect, late, path>> /\ k # auth.tokens
        /\ \A j \in Tokens \ {k} : flows'[j] = flows[j]
    BY <1>11, StartStep
  <2>2. OwnerOf(auth.tokens)' = OwnerOf(auth.tokens)
    BY <1>1, <2>1 DEF OwnerOf
  <2> QED
    BY <2>1, <2>2 DEF ScreenInv, ScreenMatchesToken, PageGuarded
<1> QED
  BY <1>3, <1>4, <1>5, <1>6, <1>7, <1>8, <1>9, <1>10, <1>11, StepCases

LEMMA ScreenInvariant == Spec => []ScreenInv
<1>1. Init => ScreenInv
  BY DEF Init, ScreenInv, ScreenMatchesToken, PageGuarded
<1> QED
  BY <1>1, NextScreen, ShapeInvariant, PTL DEF Spec

\* However sign-ins, sign-outs and the requests for /me overlap, the user the
\* context shows as signed in owns the token, or the profile of the token is
\* still to come, or login() set its user after its token had been replaced.
THEOREM ScreenShowsTokensOwner == Spec => []ScreenMatchesToken
BY ScreenInvariant, PTL DEF ScreenInv

\* RoleGuard shows a guarded page only to a user on the screen whose permissions
\* open it, for every assignment of permissions to accounts, outside the same
\* two windows.
THEOREM PagesAreGuarded == Spec => []PageAllowed
<1>1. ShapeInv /\ ScreenInv => PageAllowed
  <2> SUFFICES ASSUME ShapeInv, ScreenInv, auth.status = "authenticated", path \in Guarded,
                      Required[path] # {}, effect = 0
               PROVE  (Required[path] \cup {"SUPER_ADMIN"}) \cap Permissions(auth.me) # {}
    BY DEF PageAllowed
  <2>1. auth.permissions = auth.me /\ RoleGuard(auth, path) = path
    BY DEF ScreenInv, PageGuarded
  <2>2. path \notin Public /\ path # "dashboard"
    BY DEF Guarded, Required, Public
  <2>3. HasPermission(auth, Required[path])
    BY <2>1, <2>2 DEF RoleGuard
  <2>4. ActivePermissions(auth) = Permissions(auth.me)
    BY <2>1 DEF ActivePermissions
  <2> QED
    BY <2>3, <2>4 DEF HasPermission
<1> QED
  BY <1>1, ScreenInvariant, ShapeInvariant, PTL

-----------------------------------------------------------------------------
(* Confirmations. *)

\* A step shows no new confirmation, or one of a role that is accepted.
Truthful ==
  /\ accepted \subseteq accepted'
  /\ form'.msg \in {form.msg, "none", "err", "sent"} \/ form'.msg \in accepted'

LEMMA NextTruthful == ShapeInv /\ [Next]_vars => Truthful
<1> SUFFICES ASSUME ShapeInv, [Next]_vars PROVE Truthful
  OBVIOUS
<1> USE DEF Truthful
<1>0. BlankForm.msg = "none"
  BY DEF BlankForm
<1>1. ASSUME NEW au, NEW fl, NEW fm, Rendered(au, fl, fm), fm.msg \in {form.msg, "none", "err"},
             accepted' = accepted
      PROVE  Truthful
  BY <1>0, <1>1 DEF Rendered
<1>2. ASSUME NEW p \in Paths, FollowLink(p) PROVE Truthful
  <2>1. Rendered(auth, flows, BlankForm) /\ accepted' = accepted
    BY <1>2, PageSteps DEF FollowLink
  <2> QED
    BY <1>0, <1>1, <2>1
<1>3. ASSUME NEW p \in Paths, Reload(p) PROVE Truthful
  BY <1>0, <1>3, ReloadStep
<1>4. CASE EffectOk
  BY <1>1, <1>4, EffectSteps DEF EffectOk
<1>5. CASE EffectRefused \/ Logout
  BY <1>1, <1>5, EffectSteps DEF EffectRefused, Logout
<1>6. CASE EffectError
  BY <1>1, <1>6, EffectSteps DEF EffectError
<1>7. ASSUME NEW k \in Tokens, LoginAccepted(k) PROVE Truthful
  BY <1>1, <1>7, LoginSteps DEF LoginAccepted
<1>8. ASSUME NEW k \in Tokens, LoginFails(k) PROVE Truthful
  BY <1>1, <1>8, LoginSteps DEF LoginFails
<1>9. ASSUME NEW k \in Tokens, LoginDone(k) PROVE Truthful
  BY <1>1, <1>9, LoginSteps DEF LoginDone
<1>10. ASSUME NEW k \in Tokens, NEW a \in Accounts, SubmitLogin(k, a) \/ StartOAuth(k, a)
       PROVE  Truthful
  BY <1>10, StartStep
<1>11. CASE NewcomerForms
  BY <1>11, FormStep
<1>12. CASE ResetRedirect
  BY <1>1, <1>12, PageSteps DEF ResetRedirect
<1>13. ASSUME UNCHANGED <<form, accepted>> PROVE Truthful
  BY <1>13
<1>14. CASE ResetSubmit \/ ResetAnswered \/ UNCHANGED vars
  BY <1>13, <1>14 DEF ResetSubmit, ResetAnswered, ResetOnly, vars
<1>15. ASSUME NEW f \in Filters, SetRoleFilter(f) PROVE Truthful
  BY <1>13, <1>15 DEF SetRoleFilter
<1>16. CASE visitor = "member" /\ MemberNext
  BY <1>7, <1>8, <1>9, <1>10, <1>16 DEF MemberNext, Answered
<1>17. CASE visitor = "newcomer" /\ NewcomerNext
  BY <1>11, <1>12, <1>14, <1>17 DEF NewcomerNext, NewcomerForms
<1>18. ASSUME NEW p \in {path} \cup {q \in Paths : q = "reset" /\ visitor = "newcomer"}, Reload(p)
       PROVE  Truthful
  BY <1>3, <1>18, Types
<1> QED
  BY <1>2, <1>4, <1>5, <1>6, <1>14, <1>15, <1>16, <1>17, <1>18 DEF Next, EffectAnswered

\* The message of onSubmit names a role for which the gateway took a
\* registration, whatever was chosen in the form while it was under way.
THEOREM ConfirmationsAreTrue == Spec => []ConfirmationTrue
<1>1. Init => ConfirmationTrue
  BY DEF Init, ConfirmationTrue, BlankForm, Roles
<1>2. ShapeInv /\ ConfirmationTrue /\ [Next]_vars => ConfirmationTrue'
  <2>1. {"none", "err", "sent"} \cap Roles = {}
    BY DEF Roles
  <2> QED
    BY <2>1, NextTruthful DEF Truthful, ConfirmationTrue
<1> QED
  BY <1>1, <1>2, ShapeInvariant, PTL DEF Spec

-----------------------------------------------------------------------------
(* The promise of SignIn. *)

\* The tokens' owner, in the sense of the promise.
LEMMA OwnerGranted ==
  ASSUME ShapeInv
  PROVE  /\ GrantedTo \subseteq Accounts /\ AskedFor \subseteq Accounts
         /\ auth.tokens # 0 => /\ auth.tokens \in Tokens /\ OwnerOf(auth.tokens) \in Accounts
                               /\ OwnerOf(auth.tokens) \in GrantedTo
         /\ \A k \in Tokens : flows[k].phase = "me" => flows[k].acct \in GrantedTo
         /\ \A k \in Tokens : flows[k].phase \in {"post", "popup"} => flows[k].acct \in AskedFor
<1>1. auth.tokens # 0 => auth.tokens \in Tokens /\ OwnerOf(auth.tokens) \in Accounts
  <2>1. auth.tokens \in 0 .. MaxLogins
    BY Types DEF Auth
  <2> QED
    BY <2>1, Types DEF ShapeInv, TokenInv, OwnerOf
<1>2. \A k \in Tokens : flows[k].phase # "unused" => flows[k].acct \in Accounts
  BY DEF ShapeInv, TokenInv
<1>3. auth.tokens = 0 => OwnerOf(auth.tokens) = Nobody
  BY DEF OwnerOf
<1> QED
  BY <1>1, <1>2, <1>3, ClientAssumption DEF GrantedTo, AskedFor, InPhase

\* Sign-ins end, and the token stays or is given up.
LEMMA Fewer ==
  ASSUME ShapeInv,
         \A k \in Tokens : /\ flows'[k].acct = flows[k].acct
                           /\ flows'[k].phase \in {flows[k].phase, "done"},
         auth'.tokens \in {0, auth.tokens}
  PROVE  AskedFor' \subseteq AskedFor /\ GrantedTo' \subseteq GrantedTo
<1>1. AskedFor' \subseteq AskedFor
  BY DEF AskedFor, InPhase
<1>2. {flows'[k].acct : k \in InPhase({"me"})'} \subseteq {flows[k].acct : k \in InPhase({"me"})}
  BY DEF InPhase
<1>3. auth'.tokens # 0 => OwnerOf(auth.tokens)' = OwnerOf(auth.tokens)
  BY OwnerGranted DEF OwnerOf
<1>4. auth'.tokens = 0 => OwnerOf(auth.tokens)' = Nobody
  BY DEF OwnerOf
<1> QED
  BY <1>1, <1>2, <1>3, <1>4 DEF GrantedTo

LEMMA StepKeepsPromise == ShapeInv /\ [Next]_vars => [Promise!Step]_(Promise!signInVars)
<1> SUFFICES ASSUME ShapeInv, [Next]_vars
             PROVE  \/ UNCHANGED <<ShownUser, AskedFor, GrantedTo>>
                    \/ Promise!Withdraw
                    \/ \E a \in Accounts : Promise!Ask(a) \/ Promise!Grant(a) \/ Promise!Show(a)
  BY DEF Promise!Step, Promise!signInVars
<1> USE DEF Promise!Withdraw, Promise!Ask, Promise!Grant, Promise!Show
<1>1. CASE Quiet
  <2>1. AskedFor' = AskedFor
    BY <1>1 DEF Quiet, SameFlows, AskedFor, InPhase
  <2>2. {flows'[k].acct : k \in InPhase({"me"})'} = {flows[k].acct : k \in InPhase({"me"})}
    BY <1>1 DEF Quiet, SameFlows, InPhase
  <2>3. OwnerOf(auth.tokens)' = OwnerOf(auth.tokens)
    BY <1>1, OwnerGranted DEF Quiet, SameFlows, OwnerOf
  <2>4. ShownUser' = ShownUser
    BY <1>1 DEF Quiet, ShownUser
  <2> QED
    BY <2>1, <2>2, <2>3, <2>4 DEF GrantedTo
<1>2. CASE EffectOk
  <2> DEFINE a == OwnerOf(effect)
  <2>1. effect # 0 /\ effect = auth.tokens /\ a \in Accounts
    BY <1>2, Types DEF EffectOk
  <2>2. Rendered(SignedInAs(a, auth), flows, form)
    BY <1>2, EffectSteps
  <2>3. /\ SignedInAs(a, auth).tokens = auth.tokens /\ SignedInAs(a, auth).me = a
        /\ SignedInAs(a, auth).status = "authenticated"
    BY Types DEF SignedInAs, Auth
  <2>4. auth' = SignedInAs(a, auth) /\ SameFlows
    BY <2>2 DEF Rendered, SameFlows
  <2>5. AskedFor' \subseteq AskedFor /\ GrantedTo' \subseteq GrantedTo
    BY <2>3, <2>4, Fewer DEF SameFlows
  <2>6. a \in GrantedTo
    BY <2>1, OwnerGranted
  <2>7. ShownUser' = a
    BY <2>3, <2>4 DEF ShownUser
  <2> HIDE DEF a
  <2>8. Promise!Show(a)
    BY <2>5, <2>6, <2>7
  <2> QED
    BY <2>1, <2>8
<1>3. CASE EffectRefused \/ Logout
  <2>1. Rendered(SignedOut(auth), flows, form)
    BY <1>3, EffectSteps
  <2>2. SignedOut(auth).tokens = 0 /\ SignedOut(auth).status = "anonymous"
    BY Types DEF SignedOut, Auth
  <2>3. auth' = SignedOut(auth) /\ SameFlows
    BY <2>1 DEF Rendered, SameFlows
  <2>4. AskedFor' \subseteq AskedFor /\ GrantedTo' \subseteq GrantedTo
    BY <2>2, <2>3, Fewer DEF SameFlows
  <2>5. ShownUser' = Nobody
    BY <2>2, <2>3 DEF ShownUser
  <2> QED
    BY <2>4, <2>5
<1>4. CASE EffectError
  <2>1. Rendered([auth EXCEPT !.status = "anonymous"], flows, form)
    BY <1>4, EffectSteps
  <2>2. auth' = [auth EXCEPT !.status = "anonymous"] /\ SameFlows
    BY <2>1 DEF Rendered, SameFlows
  <2>3. auth'.tokens = auth.tokens /\ auth'.status = "anonymous"
    BY <2>2, Types DEF Auth
  <2>4. AskedFor' \subseteq AskedFor /\ GrantedTo' \subseteq GrantedTo
    BY <2>2, <2>3, Fewer DEF SameFlows
  <2>5. ShownUser' = Nobody
    BY <2>3 DEF ShownUser
  <2> QED
    BY <2>4, <2>5
<1>5. ASSUME NEW p \in Paths, Reload(p) PROVE Promise!Withdraw
  <2>1. auth'.tokens = auth.tokens
    BY <1>5, ReloadStep DEF ShapeInv, TokenInv
  <2>2. \A k \in Tokens : flows'[k].acct = flows[k].acct
                          /\ flows'[k].phase \in {flows[k].phase, "done"}
    BY <1>5, ReloadStep
  <2>3. ShownUser' = Nobody
    BY <1>5, ReloadStep DEF ShownUser
  <2> QED
    BY <2>1, <2>2, <2>3, Fewer
<1>6. ASSUME NEW k \in Tokens, NEW a \in Accounts, SubmitLogin(k, a) \/ StartOAuth(k, a)
      PROVE  Promise!Ask(a)
  <2>1. /\ auth' = auth /\ k # auth.tokens /\ flows[k].phase = "unused"
        /\ flows'[k].phase \in {"post", "popup"} /\ flows'[k].acct = a
        /\ \A j \in Tokens \ {k} : flows'[j] = flows[j]
    BY <1>6, StartStep
  <2>2. AskedFor' = AskedFor \cup {a}
    BY <2>1 DEF AskedFor, InPhase
  <2>3. OwnerOf(auth.tokens)' = OwnerOf(auth.tokens)
    BY <2>1, OwnerGranted DEF OwnerOf
  <2>4. {flows'[j].acct : j \in InPhase({"me"})'} = {flows[j].acct : j \in InPhase({"me"})}
    BY <2>1 DEF InPhase
  <2>5. GrantedTo' = GrantedTo
    BY <2>3, <2>4 DEF GrantedTo
  <2> QED
    BY <2>1, <2>2, <2>5 DEF ShownUser
<1>7. ASSUME NEW k \in Tokens, LoginAccepted(k)
      PROVE  \E a \in Accounts : Promise!Grant(a)
  <2> DEFINE a == flows[k].acct
  <2>1. flows[k].phase \in {"post", "popup"} /\ a \in AskedFor /\ a \in Accounts
    BY <1>7, OwnerGranted DEF LoginAccepted
  <2>2. Rendered(WithTokens(k), WithPhase(k, "me"), form)
    BY <1>7, LoginSteps
  <2>3. WithTokens(k).tokens = k /\ WithTokens(k).me = auth.me
        /\ WithTokens(k).status = auth.status /\ k # 0
    BY Types DEF WithTokens, Auth, Tokens
  <2>4. \A j \in Tokens : /\ flows'[j].acct = flows[j].acct
                          /\ flows'[j].phase = IF j = k THEN "me" ELSE flows[j].phase
    BY <2>2, Types DEF Rendered, WithPhase, Flow
  <2>5. auth' = WithTokens(k)
    BY <2>2 DEF Rendered
  <2>6. ShownUser' = ShownUser
    BY <2>3, <2>5 DEF ShownUser
  <2>7. AskedFor' \subseteq AskedFor
    BY <2>4 DEF AskedFor, InPhase
  <2>8. OwnerOf(auth.tokens)' = a
    BY <2>3, <2>4, <2>5 DEF OwnerOf
  <2>9. {flows'[j].acct : j \in InPhase({"me"})'}
           = {flows[j].acct : j \in InPhase({"me"})} \cup {a}
    BY <2>1, <2>4 DEF InPhase
  <2>10. a # Nobody
    BY <2>1, ClientAssumption
  <2>11. a \in GrantedTo' /\ GrantedTo' \subseteq GrantedTo \cup {a}
    BY <2>8, <2>9, <2>10 DEF GrantedTo
  <2> HIDE DEF a
  <2>12. Promise!Grant(a)
    BY <2>1, <2>6, <2>7, <2>11
  <2> QED
    BY <2>1, <2>12
<1>8. ASSUME NEW k \in Tokens, LoginFails(k) PROVE Promise!Withdraw
  <2>1. PICK fm \in Form : Rendered(auth, WithPhase(k, "done"), fm)
    BY <1>8, LoginSteps
  <2>2. \A j \in Tokens : /\ flows'[j].acct = flows[j].acct
                          /\ flows'[j].phase \in {flows[j].phase, "done"}
    BY <2>1, Types DEF Rendered, WithPhase, Flow
  <2>3. auth' = auth
    BY <2>1 DEF Rendered
  <2> QED
    BY <2>2, <2>3, Fewer DEF ShownUser
<1>9. ASSUME NEW k \in Tokens, LoginDone(k)
      PROVE  \E a \in Accounts : Promise!Show(a)
  <2> DEFINE a == flows[k].acct
  <2>1. a \in GrantedTo /\ a \in Accounts
    BY <1>9, OwnerGranted DEF LoginDone
  <2>2. Rendered(SignedInAs(a, auth), WithPhase(k, "done"), Settled(k))
    BY <1>9, LoginSteps
  <2>3. /\ SignedInAs(a, auth).tokens = auth.tokens /\ SignedInAs(a, auth).me = a
        /\ SignedInAs(a, auth).status = "authenticated"
    BY Types DEF SignedInAs, Auth
  <2>4. \A j \in Tokens : /\ flows'[j].acct = flows[j].acct
                          /\ flows'[j].phase \in {flows[j].phase, "done"}
    BY <2>2, Types DEF Rendered, WithPhase, Flow
  <2>5. auth' = SignedInAs(a, auth)
    BY <2>2 DEF Rendered
  <2>6. AskedFor' \subseteq AskedFor /\ GrantedTo' \subseteq GrantedTo
    BY <2>3, <2>4, <2>5, Fewer
  <2>7. ShownUser' = a
    BY <2>3, <2>5 DEF ShownUser
  <2> HIDE DEF a
  <2>8. Promise!Show(a)
    BY <2>1, <2>6, <2>7
  <2> QED
    BY <2>1, <2>8
<1> QED
  BY <1>1, <1>2, <1>3, <1>4, <1>5, <1>6, <1>7, <1>8, <1>9, StepCases

\* The web interface implements SignIn: nobody appears as signed in without a
\* request the gateway accepted, a sign-out is undone only by a request that was
\* under way or is new, and a page load brings nobody back.
THEOREM SignInIsImplemented == Spec => KeepsPromise
<1>1. Init => Promise!Start
  <2> SUFFICES ASSUME Init
               PROVE  ShownUser = Nobody /\ AskedFor = {} /\ GrantedTo = {}
    BY DEF Promise!Start
  <2>1. \A k \in Tokens : flows[k].phase = "unused"
    BY DEF Init, NoFlow
  <2>2. auth.status = "anonymous" /\ auth.tokens = 0
    BY DEF Init
  <2> QED
    BY <2>1, <2>2 DEF ShownUser, AskedFor, GrantedTo, InPhase, OwnerOf
<1> QED
  BY <1>1, StepKeepsPromise, ShapeInvariant, PTL DEF Spec, KeepsPromise, Promise!SignInSpec
=============================================================================
