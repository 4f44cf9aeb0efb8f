------------------------- MODULE SessionLifecycle -------------------------
(***************************************************************************)
(* Login sessions of the gateway.  A session lives twice: as a row of the  *)
(* Postgres table "sessions" and as a Redis key "session:<id>".  Validate  *)
(* believes Redis first and asks Postgres only when the key is missing.    *)
(* Every request handler is a sequence of separate database transactions   *)
(* and Redis commands, so other handlers run between any two of them.      *)
(*                                                                         *)
(* A member of Sids is one login attempt and the fresh session id it will  *)
(* draw; a member of Ops is one administrator or password-reset request.   *)
(***************************************************************************)
EXTENDS Naturals, FiniteSets

CONSTANTS
  Users,             \* user ids
  Sids,              \* login attempts = session ids
  Ops,               \* IsolateUser / DeleteUser / ResetPassword requests
  Others,            \* requests that update a row of users and may wait for it
  PoolSize,          \* connections of the Postgres pool (10 in the dev config)
  Owner,             \* Owner[s]: the user who logs in with attempt s
  OAuthSids,         \* attempts made through the OAuth callback
  RedisMayFail,      \* TRUE: any Redis command may return an error
  DbMayFail,         \* TRUE: a Postgres transaction may fail and roll back
  InstitutionColumn, \* TRUE: table sessions still has column institution_id
  MaxPw              \* bound: number of password changes per user

ASSUME ConstantsAssumption ==
  /\ Users # {}
  /\ Owner \in [Sids -> Users]
  /\ OAuthSids \subseteq Sids
  /\ RedisMayFail \in BOOLEAN
  /\ DbMayFail \in BOOLEAN
  /\ InstitutionColumn \in BOOLEAN
  /\ MaxPw \in Nat
  /\ PoolSize \in Nat \ {0}

VARIABLES
  waiting,   \* requests that wait for a row of users, a connection in hand
  status,    \* users.status
  pw,        \* version of users.password_hash
  resetTok,  \* Redis: a pwd_reset_token of the user exists
  pc,        \* where each login attempt is
  row,       \* sessions row: absent, live, revoked
  rowTok,    \* sessions.token_id is set
  key,       \* Redis key session:<id> exists
  jwt,       \* rows of table jwt_tokens recorded for the session
  blk,       \* Redis jwt:blacklist:<tid> entries, per session
  lo,        \* where the session's Logout request is
  op,        \* administrator and reset requests
  doomed,    \* history: sessions a completed revocation had to end
  excuse     \* history: why a key may outlive its row

vars == <<waiting, status, pw, resetTok, pc, row, rowTok, key, jwt, blk, lo, op, doomed,
          excuse>>

Early    == {"idle", "read", "ready"}
Underway == {"row", "key", "tokens", "tid", "got", "set"}
LoginPc  == Early \cup Underway \cup {"done", "failed"}
Kinds    == {"isolate", "delete", "reset"}
OpPc     == {"idle", "gotTok", "read", "select", "del", "done"}
TokenKinds == {"access", "refresh"}
Excuses  == {"raced", "missed", "cascade", "lostDel"}

OpRec == [pc: OpPc, kind: Kinds, user: Users, keys: SUBSET Sids,
          toks: SUBSET Sids, settled: SUBSET Sids]

TypeOK ==
  /\ waiting \in SUBSET (Others \X Users)
  /\ status \in [Users -> {"active", "isolated", "deleted"}]
  /\ pw \in [Users -> 0..MaxPw]
  /\ resetTok \in [Users -> BOOLEAN]
  /\ pc \in [Sids -> LoginPc]
  /\ row \in [Sids -> {"none", "live", "revoked"}]
  /\ rowTok \in [Sids -> BOOLEAN]
  /\ key \in [Sids -> BOOLEAN]
  /\ jwt \in [Sids -> BOOLEAN]
  /\ blk \in [Sids -> SUBSET TokenKinds]
  /\ lo \in [Sids -> {"no", "blacklisted", "revoked", "done"}]
  /\ op \in [Ops -> OpRec]
  /\ doomed \in SUBSET Sids
  /\ excuse \in [Sids -> SUBSET Excuses]

Init ==
  /\ waiting = {}
  /\ status = [u \in Users |-> "active"]
  /\ pw = [u \in Users |-> 0]
  /\ resetTok = [u \in Users |-> FALSE]
  /\ pc = [s \in Sids |-> "idle"]
  /\ row = [s \in Sids |-> "none"]
  /\ rowTok = [s \in Sids |-> FALSE]
  /\ key = [s \in Sids |-> FALSE]
  /\ jwt = [s \in Sids |-> FALSE]
  /\ blk = [s \in Sids |-> {}]
  /\ lo = [s \in Sids |-> "no"]
  /\ op = [o \in Ops |-> [pc |-> "idle", kind |-> "isolate",
                          user |-> CHOOSE u \in Users : TRUE,
                          keys |-> {}, toks |-> {}, settled |-> {}]]
  /\ doomed = {}
  /\ excuse = [s \in Sids |-> {}]

---------------------------------------------------------------------------
(* What the code reads. *)

Of(u) == {s \in Sids : Owner[s] = u}

\* What becomes of a Redis command: carried out, or reported as an error that
\* was not carried out ("lost") or was carried out all the same ("late").
RedisOutcome == IF RedisMayFail THEN {"ok", "lost", "late"} ELSE {"ok"}

\* A password login updates users.last_login inside the transaction it keeps
\* open until its end: until then no other statement can update that row.
RowLocked(u) == \E s \in Of(u) \ OAuthSids : pc[s] \in Underway \cup {"ready"}

\* Password logins keep the connection of their outer transaction until they end.
OuterTx == {s \in Sids \ OAuthSids : pc[s] \in Underway \cup {"read", "ready"}}

\* The pool has a connection left; BeginTx waits for one without a deadline.
PoolFree ==
  Cardinality(OuterTx) + Cardinality(waiting) + Cardinality({o \in Ops : op[o].pc = "select"})
    < PoolSize

\* SessionManager.Validate with Redis answering: a present key decides.  The
\* stored JSON never says revoked, because Revoke deletes it instead.
ValidSession(s) == key[s] \/ row[s] = "live"

\* TokenValidator.validate for a token that was handed to the client.
AcceptsToken(s, k) == pc[s] = "done" /\ k \notin blk[s] /\ ValidSession(s)

---------------------------------------------------------------------------
(* AuthService.Login and OAuthService.Callback, one action per commit or   *)
(* Redis command.                                                          *)

userVars == <<status, pw, resetTok>>
opVars   == <<op, doomed>>

\* Login begins its transaction, reads the user row and checks password and status.
LoginRead(s) ==
  /\ s \notin OAuthSids
  /\ PoolFree
  /\ pc[s] = "idle"
  /\ status[Owner[s]] = "active"
  /\ pc' = [pc EXCEPT ![s] = "read"]
  /\ UNCHANGED <<waiting, userVars, row, rowTok, key, jwt, blk, lo, opVars, excuse>>

\* update users set last_login: waits for the row lock, re-checks nothing.
LoginTouch(s) ==
  /\ pc[s] = "read"
  /\ ~RowLocked(Owner[s])
  /\ pc' = [pc EXCEPT ![s] = "ready"]
  /\ UNCHANGED <<waiting, userVars, row, rowTok, key, jwt, blk, lo, opVars, excuse>>

\* Callback finds the user by OAuth account or email; it reads no status and
\* keeps no transaction open.
FindUser(s) ==
  /\ s \in OAuthSids
  /\ PoolFree
  /\ pc[s] = "idle"
  /\ status[Owner[s]] # "deleted"
  /\ pc' = [pc EXCEPT ![s] = "ready"]
  /\ UNCHANGED <<waiting, userVars, row, rowTok, key, jwt, blk, lo, opVars, excuse>>

\* Mutant: the insert itself needs the user row the login still has locked.
CreateRowLocking(s) ==
  /\ pc[s] = "ready"
  /\ PoolFree
  /\ ~RowLocked(Owner[s])
  /\ row' = [row EXCEPT ![s] = "live"]
  /\ pc' = [pc EXCEPT ![s] = "row"]
  /\ UNCHANGED <<waiting, userVars, rowTok, key, jwt, blk, lo, opVars, excuse>>

\* SessionManager.Create, the insert: fails on the foreign key when the user
\* is gone, and on the missing column when the schema has dropped it.
CreateRow(s) ==
  /\ pc[s] = "ready"
  /\ PoolFree
  /\ IF status[Owner[s]] # "deleted" /\ InstitutionColumn
       THEN /\ row' = [row EXCEPT ![s] = "live"]
            /\ pc' = [pc EXCEPT ![s] = "row"]
       ELSE /\ pc' = [pc EXCEPT ![s] = "failed"]
            /\ UNCHANGED row
  /\ UNCHANGED <<waiting, userVars, rowTok, key, jwt, blk, lo, opVars, excuse>>

\* SessionManager.Create, the Redis SET: its error fails the login.
CreateKey(s) ==
  /\ pc[s] = "row"
  /\ \E r \in RedisOutcome :
       /\ key' = [key EXCEPT ![s] = r # "lost"]
       /\ pc' = [pc EXCEPT ![s] = IF r = "ok" THEN "key" ELSE "failed"]
  /\ UNCHANGED <<waiting, userVars, row, rowTok, jwt, blk, lo, opVars, excuse>>

\* Mutant: an error of recordToken is ignored, as errors of SetTokenID are.
IssueUserTokensUnrecorded(s) ==
  /\ pc[s] = "key"
  /\ PoolFree
  /\ jwt' = [jwt EXCEPT ![s] = status[Owner[s]] # "deleted"]
  /\ pc' = [pc EXCEPT ![s] = "tokens"]
  /\ UNCHANGED <<waiting, userVars, row, rowTok, key, blk, lo, opVars, excuse>>

\* TokenGenerator.IssueUserTokens: both jwt_tokens rows reference the user; the
\* second insert may fail after the first is committed.
IssueUserTokens(s) ==
  /\ pc[s] = "key"
  /\ PoolFree
  /\ IF status[Owner[s]] # "deleted"
       THEN /\ jwt' = [jwt EXCEPT ![s] = TRUE]
            /\ \E next \in {"tokens"} \cup (IF DbMayFail THEN {"failed"} ELSE {}) :
                 pc' = [pc EXCEPT ![s] = next]
       ELSE /\ pc' = [pc EXCEPT ![s] = "failed"]
            /\ UNCHANGED jwt
  /\ UNCHANGED <<waiting, userVars, row, rowTok, key, blk, lo, opVars, excuse>>

\* SessionManager.SetTokenID, the update of sessions.token_id.  When it fails,
\* SetTokenID ends there and the login goes on.
SetTokenIDRow(s) ==
  /\ pc[s] = "tokens"
  /\ PoolFree
  /\ \/ /\ rowTok' = [rowTok EXCEPT ![s] = row[s] # "none"]
        /\ pc' = [pc EXCEPT ![s] = "tid"]
     \/ /\ DbMayFail
        /\ pc' = [pc EXCEPT ![s] = "set"]
        /\ UNCHANGED rowTok
  /\ UNCHANGED <<waiting, userVars, row, key, jwt, blk, lo, opVars, excuse>>

\* SetTokenID, the Redis GET: without a key there is nothing to rewrite.
SetTokenIDGet(s) ==
  /\ pc[s] = "tid"
  /\ \E r \in RedisOutcome :
       pc' = [pc EXCEPT ![s] = IF r = "ok" /\ key[s] THEN "got" ELSE "set"]
  /\ UNCHANGED <<waiting, userVars, row, rowTok, key, jwt, blk, lo, opVars, excuse>>

\* SetTokenID, the Redis SET of what the GET returned, whether or not the key
\* has been deleted meanwhile.
SetTokenIDSet(s) ==
  /\ pc[s] = "got"
  /\ \E r \in RedisOutcome : key' = [key EXCEPT ![s] = @ \/ r # "lost"]
  /\ pc' = [pc EXCEPT ![s] = "set"]
  /\ UNCHANGED <<waiting, userVars, row, rowTok, jwt, blk, lo, opVars, excuse>>

\* The outer transaction commits and the tokens go to the client.
LoginCommit(s) ==
  /\ pc[s] = "set"
  /\ pc' = [pc EXCEPT ![s] = "done"]
  /\ UNCHANGED <<waiting, userVars, row, rowTok, key, jwt, blk, lo, opVars, excuse>>

\* The request is cancelled or a statement fails: the outer transaction rolls
\* back, what other transactions and Redis already hold stays.
LoginAbort(s) ==
  /\ pc[s] \in Underway \cup {"read", "ready"}
  /\ pc' = [pc EXCEPT ![s] = "failed"]
  /\ UNCHANGED <<waiting, userVars, row, rowTok, key, jwt, blk, lo, opVars, excuse>>

---------------------------------------------------------------------------
(* AuthService.Logout: blacklist the access token, then Revoke.            *)

LogoutBlacklist(s) ==
  /\ lo[s] = "no"
  /\ AcceptsToken(s, "access")
  /\ \E r \in RedisOutcome :
       blk' = [blk EXCEPT ![s] = @ \cup (IF r = "lost" THEN {} ELSE {"access"})]
  /\ lo' = [lo EXCEPT ![s] = "blacklisted"]
  /\ UNCHANGED <<waiting, userVars, pc, row, rowTok, key, jwt, opVars, excuse>>

RevokeRow(s) ==
  /\ lo[s] = "blacklisted"
  /\ PoolFree
  /\ row' = [row EXCEPT ![s] = IF @ = "live" THEN "revoked" ELSE @]
  /\ lo' = [lo EXCEPT ![s] = "revoked"]
  /\ UNCHANGED <<waiting, userVars, pc, rowTok, key, jwt, blk, opVars, excuse>>

\* Revoke returns the database error and leaves the key alone.
RevokeFails(s) ==
  /\ DbMayFail
  /\ lo[s] = "blacklisted"
  /\ lo' = [lo EXCEPT ![s] = "done"]
  /\ UNCHANGED <<waiting, userVars, pc, row, rowTok, key, jwt, blk, opVars, excuse>>

\* Mutant: Logout trusts the blacklist and leaves the session key alone.
RevokeKeyKept(s) ==
  /\ lo[s] = "revoked"
  /\ lo' = [lo EXCEPT ![s] = "done"]
  /\ doomed' = doomed \cup {s}
  /\ UNCHANGED <<waiting, userVars, pc, row, rowTok, key, jwt, blk, op, excuse>>

\* Redis DEL of the session key: an error is ignored.
RevokeKey(s) ==
  /\ lo[s] = "revoked"
  /\ \E r \in RedisOutcome :
       /\ key' = [key EXCEPT ![s] = IF r = "lost" THEN @ ELSE FALSE]
       /\ excuse' = [excuse EXCEPT ![s] = @ \cup (IF r = "lost" THEN {"lostDel"} ELSE {})]
  /\ lo' = [lo EXCEPT ![s] = "done"]
  /\ doomed' = doomed \cup {s}
  /\ UNCHANGED <<waiting, userVars, pc, row, rowTok, jwt, blk, op>>

---------------------------------------------------------------------------
(* Administrator and password operations.                                  *)

sessVars == <<pc, rowTok, key, jwt, blk, lo>>

Begin(o, k, u, next) ==
  op' = [op EXCEPT ![o].pc = next, ![o].kind = k, ![o].user = u]

\* IsolateUser up to its commit.
IsolateUser(o, u) ==
  /\ op[o].pc = "idle"
  /\ PoolFree
  /\ status[u] # "deleted"
  /\ ~RowLocked(u)
  /\ status' = [status EXCEPT ![u] = "isolated"]
  /\ Begin(o, "isolate", u, "read")
  /\ UNCHANGED <<waiting, pw, resetTok, sessVars, row, doomed, excuse>>

\* DeleteUser up to its commit: jwt_tokens rows block the delete, sessions
\* rows go with the user.
DeleteUser(o, u) ==
  /\ op[o].pc = "idle"
  /\ PoolFree
  /\ status[u] # "deleted"
  /\ ~RowLocked(u)
  /\ \A s \in Of(u) : ~jwt[s]
  /\ status' = [status EXCEPT ![u] = "deleted"]
  /\ row' = [s \in Sids |-> IF s \in Of(u) THEN "none" ELSE row[s]]
  /\ excuse' = [s \in Sids |-> excuse[s] \cup
                  (IF s \in Of(u) /\ row[s] # "none" THEN {"cascade"} ELSE {})]
  /\ Begin(o, "delete", u, "read")
  /\ UNCHANGED <<waiting, pw, resetTok, sessVars, doomed>>

\* ForgotPassword: only active users get a token.
ForgotPassword(u) ==
  /\ PoolFree
  /\ status[u] = "active"
  /\ ~resetTok[u]
  /\ resetTok' = [resetTok EXCEPT ![u] = TRUE]
  /\ UNCHANGED <<waiting, status, pw, sessVars, row, opVars, excuse>>

ResetTokenExpires(u) ==
  /\ resetTok[u]
  /\ resetTok' = [resetTok EXCEPT ![u] = FALSE]
  /\ UNCHANGED <<waiting, status, pw, sessVars, row, opVars, excuse>>

\* ResetPassword reads the token, hashes, and then updates the user.
ResetGet(o, u) ==
  /\ op[o].pc = "idle"
  /\ resetTok[u]
  /\ Begin(o, "reset", u, "gotTok")
  /\ UNCHANGED <<waiting, userVars, sessVars, row, doomed, excuse>>

ResetUpdate(o) ==
  LET u == op[o].user IN
  /\ op[o].pc = "gotTok"
  /\ PoolFree
  /\ ~RowLocked(u)
  /\ IF status[u] = "deleted"
       THEN /\ op' = [op EXCEPT ![o].pc = "done"]
            /\ UNCHANGED pw
       ELSE /\ pw[u] < MaxPw
            /\ pw' = [pw EXCEPT ![u] = @ + 1]
            /\ op' = [op EXCEPT ![o].pc = "read"]
  /\ UNCHANGED <<waiting, status, resetTok, sessVars, row, doomed, excuse>>

\* The update fails: the token stays usable.
ResetFails(o) ==
  /\ DbMayFail
  /\ op[o].pc = "gotTok"
  /\ op' = [op EXCEPT ![o].pc = "done"]
  /\ UNCHANGED <<waiting, userVars, sessVars, row, doomed, excuse>>

\* ChangePassword by a signed-in user; it touches no session.
ChangePassword(u) ==
  /\ PoolFree
  /\ \E s \in Of(u) : AcceptsToken(s, "access")
  /\ status[u] # "deleted"
  /\ ~RowLocked(u)
  /\ pw[u] < MaxPw
  /\ pw' = [pw EXCEPT ![u] = @ + 1]
  /\ UNCHANGED <<waiting, status, resetTok, sessVars, row, opVars, excuse>>

\* Mutant: re-activating a user also clears revoked on the user's sessions.
ApproveUserRestoring(u, st) ==
  /\ PoolFree
  /\ status[u] # "deleted"
  /\ ~RowLocked(u)
  /\ st # status[u]
  /\ status' = [status EXCEPT ![u] = st]
  /\ row' = [s \in Sids |-> IF s \in Of(u) /\ row[s] = "revoked" /\ st = "active"
                              THEN "live" ELSE row[s]]
  /\ UNCHANGED <<waiting, pw, resetTok, sessVars, opVars, excuse>>

\* ApproveUser writes the status the administrator chose, and nothing else
\* that a session depends on.
ApproveUser(u, st) ==
  /\ PoolFree
  /\ status[u] # "deleted"
  /\ ~RowLocked(u)
  /\ st # status[u]
  /\ status' = [status EXCEPT ![u] = st]
  /\ UNCHANGED <<waiting, pw, resetTok, sessVars, row, opVars, excuse>>

\* ApproveUser, ChangePassword, IsolateUser and the others that update a row of
\* users have begun their transaction and wait for a login to release the row.
WaitForRow(r, u) ==
  /\ RowLocked(u)
  /\ PoolFree
  /\ waiting' = waiting \cup {<<r, u>>}
  /\ UNCHANGED <<userVars, sessVars, row, opVars, excuse>>

\* The wait ends with the lock, and the request does what its action says, or
\* with the request's cancellation.
WaitOver(r, u) ==
  /\ <<r, u>> \in waiting
  /\ waiting' = waiting \ {<<r, u>>}
  /\ UNCHANGED <<userVars, sessVars, row, opVars, excuse>>

---------------------------------------------------------------------------
(* SessionManager.RevokeAllUserSessions, called by all three operations.   *)

\* The select of session and token ids.
RevokeAllSelect(o) ==
  LET S == {s \in Of(op[o].user) : row[s] # "none"} IN
  /\ op[o].pc = "read"
  /\ PoolFree
  /\ op' = [op EXCEPT ![o].pc = "select", ![o].keys = S,
                      ![o].toks = {s \in S : rowTok[s]},
                      ![o].settled = {s \in S : pc[s] = "done"}]
  /\ UNCHANGED <<waiting, userVars, sessVars, row, doomed, excuse>>

\* The update and the commit: it also hits rows inserted since the select.
RevokeAllUpdate(o) ==
  LET S == {s \in Of(op[o].user) : row[s] = "live"} IN
  /\ op[o].pc = "select"
  /\ row' = [s \in Sids |-> IF s \in S THEN "revoked" ELSE row[s]]
  /\ excuse' = [s \in Sids |-> excuse[s] \cup
                  (IF s \in S /\ pc[s] \in Underway THEN {"raced"} ELSE {}) \cup
                  (IF s \in S \ op[o].keys THEN {"missed"} ELSE {})]
  /\ op' = [op EXCEPT ![o].pc = "del"]
  /\ UNCHANGED <<waiting, userVars, sessVars, doomed>>

\* The transaction fails and is rolled back: no session is touched, and the
\* caller, which ignores the error, reports success.
RevokeAllFails(o) ==
  /\ DbMayFail
  /\ op[o].pc \in {"read", "select"}
  /\ op' = [op EXCEPT ![o].pc = "del", ![o].keys = {}, ![o].toks = {},
                      ![o].settled = {}]
  /\ UNCHANGED <<waiting, userVars, sessVars, row, doomed, excuse>>

\* Mutant: only sessions that already have a token id get their key deleted.
RevokeAllDelWithToken(o, s) ==
  /\ op[o].pc = "del"
  /\ s \in op[o].keys
  /\ key' = [key EXCEPT ![s] = @ /\ s \notin op[o].toks]
  /\ op' = [op EXCEPT ![o].keys = @ \ {s}]
  /\ UNCHANGED <<waiting, userVars, pc, row, rowTok, jwt, blk, lo, doomed, excuse>>

\* One DEL per selected session; errors are ignored.
RevokeAllDel(o, s) ==
  /\ op[o].pc = "del"
  /\ s \in op[o].keys
  /\ \E r \in RedisOutcome :
       /\ key' = [key EXCEPT ![s] = IF r = "lost" THEN @ ELSE FALSE]
       /\ excuse' = [excuse EXCEPT ![s] = @ \cup (IF r = "lost" THEN {"lostDel"} ELSE {})]
  /\ op' = [op EXCEPT ![o].keys = @ \ {s}]
  /\ UNCHANGED <<waiting, userVars, pc, row, rowTok, jwt, blk, lo, doomed>>

\* Then one blacklist entry per selected token id, the refresh token's.
RevokeAllBlacklist(o, s) ==
  /\ op[o].pc = "del"
  /\ op[o].keys = {}
  /\ s \in op[o].toks
  /\ \E r \in RedisOutcome :
       blk' = [blk EXCEPT ![s] = @ \cup (IF r = "lost" THEN {} ELSE {"refresh"})]
  /\ op' = [op EXCEPT ![o].toks = @ \ {s}]
  /\ UNCHANGED <<waiting, userVars, pc, row, rowTok, key, jwt, lo, doomed, excuse>>

\* The caller answers; ResetPassword deletes its token first.
OpFinish(o) ==
  /\ op[o].pc = "del"
  /\ op[o].keys = {} /\ op[o].toks = {}
  /\ \E r \in RedisOutcome :
       resetTok' = [resetTok EXCEPT ![op[o].user] =
                      @ /\ (op[o].kind # "reset" \/ r = "lost")]
  /\ op' = [op EXCEPT ![o].pc = "done"]
  /\ doomed' = doomed \cup op[o].settled
  /\ UNCHANGED <<waiting, status, pw, sessVars, row, excuse>>

---------------------------------------------------------------------------
(* Redis and time. *)

\* Redis drops the key (eviction, restart without persistence).  Expiry of the
\* whole session, which only ends it sooner, is left out.
EvictKey(s) ==
  /\ key[s]
  /\ key' = [key EXCEPT ![s] = FALSE]
  /\ UNCHANGED <<waiting, userVars, pc, row, rowTok, jwt, blk, lo, opVars, excuse>>

\* A blacklist entry outlives neither its 30 minutes nor its 24 hours.
BlacklistExpires(s, k) ==
  /\ k \in blk[s]
  /\ blk' = [blk EXCEPT ![s] = @ \ {k}]
  /\ UNCHANGED <<waiting, userVars, pc, row, rowTok, key, jwt, lo, opVars, excuse>>

LoginStep(s) ==
  \/ LoginRead(s) \/ LoginTouch(s) \/ FindUser(s) \/ CreateRow(s)
  \/ CreateKey(s) \/ IssueUserTokens(s) \/ SetTokenIDRow(s)
  \/ SetTokenIDGet(s) \/ SetTokenIDSet(s) \/ LoginCommit(s)

LogoutStep(s) ==
  LogoutBlacklist(s) \/ RevokeRow(s) \/ RevokeFails(s) \/ RevokeKey(s)

RevokeAllStep(o) ==
  \/ RevokeAllSelect(o) \/ RevokeAllUpdate(o) \/ RevokeAllFails(o)
  \/ OpFinish(o)
  \/ \E s \in Sids : RevokeAllDel(o, s) \/ RevokeAllBlacklist(o, s)

Next ==
  \/ \E s \in Sids : \/ LoginStep(s) \/ LoginAbort(s) \/ LogoutStep(s)
                     \/ EvictKey(s)
                     \/ \E k \in TokenKinds : BlacklistExpires(s, k)
  \/ \E o \in Ops : \/ ResetUpdate(o) \/ ResetFails(o) \/ RevokeAllStep(o)
                    \/ \E u \in Users : \/ IsolateUser(o, u) \/ DeleteUser(o, u)
                                        \/ ResetGet(o, u)
  \/ \E u \in Users : \/ ForgotPassword(u) \/ ResetTokenExpires(u)
                      \/ ChangePassword(u)
                      \/ \E st \in {"active", "isolated"} : ApproveUser(u, st)
                      \/ \E r \in Others : WaitForRow(r, u) \/ WaitOver(r, u)

Spec == Init /\ [][Next]_vars

\* The Go scheduler, Postgres and Redis let every handler that has started run
\* to its end, and the queues of the pool and of a row lock are served in turn;
\* nobody is obliged to send a request or to cancel one.
FairSpec ==
  /\ Spec
  /\ \A s \in Sids : SF_vars(pc[s] # "idle" /\ LoginStep(s))
  /\ \A o \in Ops : WF_vars(RevokeAllUpdate(o))
  /\ \A r \in Others, u \in Users : WF_vars(~RowLocked(u) /\ WaitOver(r, u))

---------------------------------------------------------------------------
(* Properties *)

\* A DEL of the key is still to come, from Logout or RevokeAllUserSessions.
DelPending(s) ==
  \/ lo[s] = "revoked"
  \/ \E o \in Ops : op[o].pc = "del" /\ s \in op[o].keys

\* A Redis key outlives its revoked or deleted row (and Validate then accepts
\* a dead session) only while its DEL is still to come, or when one of the
\* code's four windows was hit: a login in flight rewrote the key, the row
\* was inserted between RevokeAll's select and update, the row went by the
\* cascade of DeleteUser, or the DEL itself was lost.
StaleKeyExplained ==
  \A s \in Sids :
    key[s] /\ row[s] # "live" => DelPending(s) \/ excuse[s] # {}

\* With Redis answering, a session whose login had completed when Logout or
\* RevokeAllUserSessions looked at it is rejected once that request is over,
\* whatever other logins and revocations ran in between.
RevocationTakesEffect ==
  ~RedisMayFail => \A s \in doomed : ~ValidSession(s)

\* A session that has stopped validating after its login was completed never
\* validates again: no handler brings a key or a live row back.
RevocationFinal ==
  [][\A s \in Sids : pc[s] = "done" /\ ~ValidSession(s) => ~ValidSession(s)']_vars

\* No client ever holds tokens of a deleted user: the jwt_tokens foreign key
\* stops either the delete or the login that raced with it.
DeletedUserHasNoToken ==
  \A s \in Sids : status[Owner[s]] = "deleted" => pc[s] # "done"

\* README.md: isolation "deletes all active session keys"; the security guide:
\* it "instantly wipes all user session keys".
IsolationWipesKeys ==
  \A o \in Ops :
    op[o].kind = "isolate" /\ op[o].pc = "done" /\ status[op[o].user] = "isolated"
      => \A s \in Of(op[o].user) : ~key[s]

\* Logins hold every connection, or requests that wait for a row the logins have
\* locked do: a login that needs one more for its session or tokens waits for ever.
PoolJammed == Cardinality(OuterTx) + Cardinality(waiting) >= PoolSize

\* A login that has started ends, although it holds a row lock and a connection
\* through four transactions on other connections and waits for other logins'
\* locks.  The one way not to end is a pool that stays jammed.
LoginEnds ==
  \A s \in Sids :
    \/ pc[s] \in Underway \cup {"read", "ready"} ~> pc[s] \in {"done", "failed"}
    \/ <>[]PoolJammed

=============================================================================
