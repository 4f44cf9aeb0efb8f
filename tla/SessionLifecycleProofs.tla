----------------------- MODULE SessionLifecycleProofs -----------------------
(***************************************************************************)
(* Proofs about SessionLifecycle for any number of users, logins and       *)
(* requests.  Each safety property gets the strengthening that makes it    *)
(* inductive; all of them lean on TypeOK.                                  *)
(***************************************************************************)
EXTENDS SessionLifecycle, TLAPS

---------------------------------------------------------------------------
(* The strengthenings. *)

\* Only a session whose login is over is logged out.
LogoutAfterLogin ==
  \A s \in Sids : /\ lo[s] # "no" => pc[s] = "done"
                  /\ lo[s] = "revoked" => row[s] # "live"

\* Before its insert a login has neither row nor key.
EarlyClean ==
  \A s \in Sids : pc[s] \in Early => ~key[s] /\ row[s] = "none"

\* A login in flight that has lost its row was raced by a revocation, or its
\* user was deleted.
RacedMarked ==
  \A s \in Sids : pc[s] \in Underway /\ row[s] # "live"
                    => excuse[s] \cap {"raced", "cascade"} # {}

StaleInv == LogoutAfterLogin /\ EarlyClean /\ RacedMarked /\ StaleKeyExplained

\* A token is recorded before it can reach the client ...
Recorded ==
  \A s \in Sids : pc[s] \in {"tokens", "tid", "got", "set", "done"} => jwt[s]

\* ... and a recorded token keeps the user from being deleted.
NoDeletedJwt == \A s \in Sids : status[Owner[s]] = "deleted" => ~jwt[s]

TokenInv == Recorded /\ NoDeletedJwt /\ DeletedUserHasNoToken

\* What RevokeAllUserSessions knows of the settled sessions it selected.
Settled(o) ==
  op[o].pc \in {"select", "del"} =>
    \A s \in op[o].settled :
      /\ pc[s] = "done"
      /\ Owner[s] = op[o].user
      /\ op[o].pc = "select" => s \in op[o].keys
      /\ op[o].pc = "del" => row[s] # "live" /\ (s \in op[o].keys \/ ~key[s])

SettledInv == \A o \in Ops : Settled(o)

DoomedDead == \A s \in doomed : pc[s] = "done" /\ ~ValidSession(s)

RevokeInv == SettledInv /\ DoomedDead

\* A step leaves the login of a finished session finished and brings neither
\* its row nor its key back.
DoneStable ==
  \A s \in Sids : pc[s] = "done" =>
    /\ pc'[s] = "done"
    /\ row'[s] = "live" => row[s] = "live"
    /\ key'[s] => key[s]

---------------------------------------------------------------------------
(* Type correctness. *)

\* The initial state has every variable in its range.
LEMMA InitType == Init => TypeOK
  BY ConstantsAssumption
     DEF Init, TypeOK, LoginPc, Early, OpRec, OpPc, Kinds

\* A request record stays one when its handler is started ...
LEMMA OpStarts ==
  ASSUME op \in [Ops -> OpRec], NEW o \in Ops, NEW k \in Kinds, NEW u \in Users,
         NEW p \in OpPc, Begin(o, k, u, p)
  PROVE  op' \in [Ops -> OpRec]
  BY DEF Begin, OpRec

\* ... and when it moves on.
LEMMA OpMoves ==
  ASSUME op \in [Ops -> OpRec], NEW o \in Ops, NEW p \in OpPc,
         op' = [op EXCEPT ![o].pc = p]
  PROVE  op' \in [Ops -> OpRec]
  BY DEF OpRec

\* What the select of RevokeAllUserSessions leaves in its record.
LEMMA SelectFields ==
  ASSUME TypeOK, NEW o \in Ops, RevokeAllSelect(o)
  PROVE  LET S == {s \in Of(op[o].user) : row[s] # "none"} IN
         /\ op' \in [Ops -> OpRec]
         /\ op'[o].pc = "select" /\ op'[o].user = op[o].user
         /\ op'[o].keys = S
         /\ op'[o].settled = {s \in S : pc[s] = "done"}
<1> DEFINE S == {s \in Of(op[o].user) : row[s] # "none"}
           B == {s \in S : rowTok[s]}
           C == {s \in S : pc[s] = "done"}
<1>1. S \in SUBSET Sids /\ B \in SUBSET Sids /\ C \in SUBSET Sids
  BY DEF Of
<1>2. op' = [op EXCEPT ![o].pc = "select", ![o].keys = S, ![o].toks = B, ![o].settled = C]
  BY DEF RevokeAllSelect
<1>3. op \in [Ops -> OpRec] /\ "select" \in OpPc
  BY DEF TypeOK, OpPc
<1>4. /\ op' \in [Ops -> OpRec]
      /\ op'[o].pc = "select" /\ op'[o].user = op[o].user
      /\ op'[o].keys = S /\ op'[o].settled = C
  <2> HIDE DEF S, B, C
  <2> DEFINE r == [op[o] EXCEPT !.pc = "select", !.keys = S, !.toks = B, !.settled = C]
  <2>1. r \in OpRec
    BY <1>1, <1>3 DEF OpRec
  <2>2. op' = [op EXCEPT ![o] = r]
    BY <1>2
  <2>3. r.pc = "select" /\ r.user = op[o].user /\ r.keys = S /\ r.settled = C
    BY <1>3 DEF OpRec
  <2> QED
    BY <1>3, <2>1, <2>2, <2>3
<1> QED
  BY <1>4

\* Dropping a session whose key is deleted keeps the record's type.
LEMMA OpDrops ==
  ASSUME op \in [Ops -> OpRec], NEW o \in Ops, NEW s \in Sids,
         op' = [op EXCEPT ![o].keys = @ \ {s}]
  PROVE  op' \in [Ops -> OpRec]
  BY DEF OpRec

\* So does dropping a session whose token is blacklisted ...
LEMMA OpDropsToken ==
  ASSUME op \in [Ops -> OpRec], NEW o \in Ops, NEW s \in Sids,
         op' = [op EXCEPT ![o].toks = @ \ {s}]
  PROVE  op' \in [Ops -> OpRec]
  BY DEF OpRec

\* ... and forgetting all of them.
LEMMA OpClears ==
  ASSUME op \in [Ops -> OpRec], NEW o \in Ops, NEW p \in OpPc,
         op' = [op EXCEPT ![o].pc = p, ![o].keys = {}, ![o].toks = {}, ![o].settled = {}]
  PROVE  op' \in [Ops -> OpRec]
<1> DEFINE r == [op[o] EXCEPT !.pc = p, !.keys = {}, !.toks = {}, !.settled = {}]
<1>1. r \in OpRec
  BY DEF OpRec
<1>2. op' = [op EXCEPT ![o] = r]
  OBVIOUS
<1> QED
  BY <1>1, <1>2

\* A request's records of settled sessions name sessions.
LEMMA SettledTyped ==
  ASSUME TypeOK, NEW o \in Ops
  PROVE  op[o] \in OpRec /\ op[o].settled \subseteq Sids
<1>1. op[o] \in OpRec
  BY DEF TypeOK
<1>2. op[o].settled \subseteq Sids
  BY <1>1 DEF OpRec
<1> QED
  BY <1>1, <1>2

\* What the deletion of one session key leaves in the request records.
LEMMA DelFields ==
  ASSUME TypeOK, NEW o \in Ops, NEW s \in Sids, RevokeAllDel(o, s)
  PROVE  /\ \A p \in Ops : p # o => op'[p] = op[p]
         /\ op[o].pc = "del" /\ op'[o].pc = "del"
         /\ op'[o].settled = op[o].settled /\ op'[o].user = op[o].user
         /\ op'[o].keys = op[o].keys \ {s}
<1>1. op[o].pc = "del" /\ op' = [op EXCEPT ![o].keys = @ \ {s}]
  BY DEF RevokeAllDel
<1>2. op \in [Ops -> OpRec]
  BY DEF TypeOK
<1>3. \A p \in Ops : p # o => op'[p] = op[p]
  BY <1>1, <1>2
<1>4. op'[o] = [op[o] EXCEPT !.keys = op[o].keys \ {s}] /\ op[o] \in OpRec
  BY <1>1, <1>2
<1>5. /\ op'[o].pc = op[o].pc /\ op'[o].settled = op[o].settled
      /\ op'[o].user = op[o].user /\ op'[o].keys = op[o].keys \ {s}
  BY <1>4 DEF OpRec
<1> QED
  BY <1>1, <1>3, <1>5

\* What the blacklisting of one token leaves in the request records.
LEMMA BlacklistFields ==
  ASSUME TypeOK, NEW o \in Ops, NEW s \in Sids, RevokeAllBlacklist(o, s)
  PROVE  /\ \A p \in Ops : p # o => op'[p] = op[p]
         /\ op'[o].pc = op[o].pc /\ op'[o].settled = op[o].settled
         /\ op'[o].user = op[o].user /\ op'[o].keys = op[o].keys
<1>1. op' = [op EXCEPT ![o].toks = @ \ {s}]
  BY DEF RevokeAllBlacklist
<1>2. op \in [Ops -> OpRec]
  BY DEF TypeOK
<1>3. \A p \in Ops : p # o => op'[p] = op[p]
  BY <1>1, <1>2
<1>4. op'[o] = [op[o] EXCEPT !.toks = op[o].toks \ {s}] /\ op[o] \in OpRec
  BY <1>1, <1>2
<1>5. /\ op'[o].pc = op[o].pc /\ op'[o].settled = op[o].settled
      /\ op'[o].user = op[o].user /\ op'[o].keys = op[o].keys
  BY <1>4 DEF OpRec
<1> QED
  BY <1>3, <1>5

\* A request that waits for a row has done nothing but begin its transaction.
LEMMA WaitsChangeNothing ==
  ASSUME NEW r, NEW u, WaitForRow(r, u) \/ WaitOver(r, u)
  PROVE  UNCHANGED <<status, pw, resetTok, pc, row, rowTok, key, jwt, blk, lo, op, doomed, excuse>>
BY DEF WaitForRow, WaitOver, userVars, sessVars, opVars

\* Every action keeps every variable in its range.
LEMMA NextType == TypeOK /\ [Next]_vars => TypeOK'
<1> SUFFICES ASSUME TypeOK, [Next]_vars PROVE TypeOK'
  OBVIOUS
<1> USE ConstantsAssumption DEF TypeOK, LoginPc, Early, Underway, userVars,
        opVars, TokenKinds, Excuses, RedisOutcome
<1>1. ASSUME NEW s \in Sids, LoginRead(s) PROVE TypeOK'
  BY <1>1 DEF LoginRead
<1>2. ASSUME NEW s \in Sids, LoginTouch(s) PROVE TypeOK'
  BY <1>2 DEF LoginTouch
<1>3. ASSUME NEW s \in Sids, FindUser(s) PROVE TypeOK'
  BY <1>3 DEF FindUser
<1>4. ASSUME NEW s \in Sids, CreateRow(s) PROVE TypeOK'
  BY <1>4 DEF CreateRow
<1>5. ASSUME NEW s \in Sids, CreateKey(s) PROVE TypeOK'
  BY <1>5 DEF CreateKey
<1>6. ASSUME NEW s \in Sids, IssueUserTokens(s) PROVE TypeOK'
  <2>1. pc' \in [Sids -> LoginPc]
    <3>1. PICK next \in {"tokens", "failed"} : pc' = [pc EXCEPT ![s] = next]
      BY <1>6, Zenon DEF IssueUserTokens
    <3> QED
      BY <3>1
  <2>2. jwt' \in [Sids -> BOOLEAN]
    BY <1>6 DEF IssueUserTokens
  <2> QED
    BY <1>6, <2>1, <2>2 DEF IssueUserTokens
<1>7. ASSUME NEW s \in Sids, SetTokenIDRow(s) PROVE TypeOK'
  BY <1>7 DEF SetTokenIDRow
<1>8. ASSUME NEW s \in Sids, SetTokenIDGet(s) PROVE TypeOK'
  BY <1>8 DEF SetTokenIDGet
<1>9. ASSUME NEW s \in Sids, SetTokenIDSet(s) PROVE TypeOK'
  BY <1>9 DEF SetTokenIDSet
<1>10. ASSUME NEW s \in Sids, LoginCommit(s) PROVE TypeOK'
  BY <1>10 DEF LoginCommit
<1>11. ASSUME NEW s \in Sids, LoginAbort(s) PROVE TypeOK'
  BY <1>11 DEF LoginAbort
<1>12. ASSUME NEW s \in Sids, LogoutBlacklist(s) PROVE TypeOK'
  BY <1>12 DEF LogoutBlacklist
<1>13. ASSUME NEW s \in Sids, RevokeRow(s) PROVE TypeOK'
  BY <1>13 DEF RevokeRow
<1>14. ASSUME NEW s \in Sids, RevokeKey(s) PROVE TypeOK'
  <2>1. key' \in [Sids -> BOOLEAN]
    <3>1. PICK r \in RedisOutcome : key' = [key EXCEPT ![s] = IF r = "lost" THEN @ ELSE FALSE]
      BY <1>14 DEF RevokeKey
    <3> QED
      BY <3>1
  <2>2. excuse' \in [Sids -> SUBSET Excuses]
    BY <1>14 DEF RevokeKey
  <2> QED
    BY <1>14, <2>1, <2>2 DEF RevokeKey
<1>15. ASSUME NEW s \in Sids, EvictKey(s) PROVE TypeOK'
  BY <1>15 DEF EvictKey
<1>16. ASSUME NEW s \in Sids, NEW k \in TokenKinds, BlacklistExpires(s, k) PROVE TypeOK'
  BY <1>16 DEF BlacklistExpires
<1> USE DEF sessVars
<1>17. ASSUME NEW o \in Ops, NEW u \in Users, IsolateUser(o, u) PROVE TypeOK'
  <2>1. op' \in [Ops -> OpRec]
    BY <1>17, OpStarts DEF IsolateUser, OpPc, Kinds
  <2> QED
    BY <2>1, <1>17 DEF IsolateUser
<1>18. ASSUME NEW o \in Ops, NEW u \in Users, DeleteUser(o, u) PROVE TypeOK'
  <2>1. op' \in [Ops -> OpRec]
    BY <1>18, OpStarts DEF DeleteUser, OpPc, Kinds
  <2> QED
    BY <2>1, <1>18 DEF DeleteUser
<1>19. ASSUME NEW o \in Ops, NEW u \in Users, ResetGet(o, u) PROVE TypeOK'
  <2>1. op' \in [Ops -> OpRec]
    BY <1>19, OpStarts DEF ResetGet, OpPc, Kinds
  <2> QED
    BY <2>1, <1>19 DEF ResetGet
<1>20. ASSUME NEW o \in Ops, ResetUpdate(o) PROVE TypeOK'
  <2>1. op' \in [Ops -> OpRec]
    BY <1>20, OpMoves DEF ResetUpdate, OpPc
  <2> QED
    BY <2>1, <1>20 DEF ResetUpdate
<1>21. ASSUME NEW o \in Ops, RevokeAllSelect(o) PROVE TypeOK'
  <2>1. op' \in [Ops -> OpRec]
    BY <1>21, SelectFields DEF TypeOK
  <2> QED
    BY <2>1, <1>21 DEF RevokeAllSelect
<1>22. ASSUME NEW o \in Ops, RevokeAllUpdate(o) PROVE TypeOK'
  <2>1. op' \in [Ops -> OpRec]
    BY <1>22, OpMoves DEF RevokeAllUpdate, OpPc
  <2> QED
    BY <2>1, <1>22 DEF RevokeAllUpdate
<1>23. ASSUME NEW o \in Ops, OpFinish(o) PROVE TypeOK'
  <2>1. op' \in [Ops -> OpRec]
    BY <1>23, OpMoves DEF OpFinish, OpPc
  <2> QED
    BY <2>1, <1>23 DEF OpFinish, OpRec
<1>24. ASSUME NEW o \in Ops, NEW s \in Sids, RevokeAllDel(o, s) PROVE TypeOK'
  <2>1. op' \in [Ops -> OpRec]
    BY <1>24, OpDrops DEF RevokeAllDel
  <2>2. key' \in [Sids -> BOOLEAN]
    <3>1. PICK r \in RedisOutcome :
            key' = [key EXCEPT ![s] = IF r = "lost" THEN key[s] ELSE FALSE]
      BY <1>24, Zenon DEF RevokeAllDel
    <3>2. (IF r = "lost" THEN key[s] ELSE FALSE) \in BOOLEAN
      OBVIOUS
    <3> QED
      BY <3>1, <3>2, Zenon
  <2>3. excuse' \in [Sids -> SUBSET Excuses]
    BY <1>24 DEF RevokeAllDel
  <2> QED
    BY <2>1, <2>2, <2>3, <1>24 DEF RevokeAllDel
<1>25. ASSUME NEW o \in Ops, NEW s \in Sids, RevokeAllBlacklist(o, s) PROVE TypeOK'
  <2>1. op' \in [Ops -> OpRec]
    BY <1>25, OpDropsToken DEF RevokeAllBlacklist
  <2> QED
    BY <2>1, <1>25 DEF RevokeAllBlacklist
<1>26. ASSUME NEW u \in Users, ForgotPassword(u) PROVE TypeOK'
  BY <1>26 DEF ForgotPassword
<1>27. ASSUME NEW u \in Users, ResetTokenExpires(u) PROVE TypeOK'
  BY <1>27 DEF ResetTokenExpires
<1>28. ASSUME NEW u \in Users, ChangePassword(u) PROVE TypeOK'
  BY <1>28 DEF ChangePassword
<1>29. ASSUME NEW u \in Users, NEW st \in {"active", "isolated"}, ApproveUser(u, st)
      PROVE TypeOK'
  BY <1>29 DEF ApproveUser
<1>30. CASE UNCHANGED vars
  BY <1>30 DEF vars
<1>31. ASSUME NEW s \in Sids, RevokeFails(s) PROVE TypeOK'
  BY <1>31 DEF RevokeFails
<1>32. ASSUME NEW o \in Ops, ResetFails(o) PROVE TypeOK'
  <2>1. op' \in [Ops -> OpRec]
    BY <1>32, OpMoves DEF ResetFails, OpPc
  <2> QED
    BY <2>1, <1>32 DEF ResetFails
<1>33. ASSUME NEW o \in Ops, RevokeAllFails(o) PROVE TypeOK'
  <2>1. op' \in [Ops -> OpRec]
    BY <1>33, OpClears DEF RevokeAllFails, OpPc
  <2> QED
    BY <2>1, <1>33 DEF RevokeAllFails
<1>34. ASSUME NEW r \in Others, NEW u \in Users, WaitForRow(r, u) \/ WaitOver(r, u)
      PROVE  TypeOK'
  <2>1. waiting' \in SUBSET (Others \X Users)
    BY <1>34 DEF WaitForRow, WaitOver
  <2> QED
    BY <2>1, <1>34, WaitsChangeNothing
<1> QED
  BY <1>34, <1>31, <1>32, <1>33, <1>1, <1>2, <1>3, <1>4, <1>5, <1>6, <1>7, <1>8, <1>9, <1>10, <1>11, <1>12, <1>13, <1>14, <1>15, <1>16, <1>17, <1>18, <1>19, <1>20, <1>21, <1>22, <1>23, <1>24, <1>25, <1>26, <1>27, <1>28, <1>29, <1>30
     DEF Next, LoginStep, LogoutStep, RevokeAllStep

\* Every state the handlers reach is well typed.
THEOREM TypeCorrect == Spec => []TypeOK
<1>1. Init => TypeOK
  BY InitType
<1>2. TypeOK /\ [Next]_vars => TypeOK'
  BY NextType
<1> QED
  BY <1>1, <1>2, PTL DEF Spec

---------------------------------------------------------------------------
(* A key that outlives its row is explained. *)

\* A step of any handler keeps StaleInv.
LEMMA NextStale == TypeOK /\ TypeOK' /\ StaleInv /\ [Next]_vars => StaleInv'
<1> SUFFICES ASSUME TypeOK, TypeOK', StaleInv, [Next]_vars PROVE StaleInv'
  OBVIOUS
<1> USE DEF TypeOK, StaleInv, LogoutAfterLogin, EarlyClean, RacedMarked,
        StaleKeyExplained, DelPending, Early, Underway, LoginPc, userVars, opVars, sessVars
<1>1. ASSUME UNCHANGED <<pc, row, key, lo, op, excuse>> PROVE StaleInv'
  BY <1>1
<1>2. ASSUME NEW s \in Sids, LoginRead(s) PROVE StaleInv'
  <2>1. LogoutAfterLogin'
    BY <1>2 DEF LoginRead
  <2>2. EarlyClean'
    BY <1>2 DEF LoginRead
  <2>3. RacedMarked'
    BY <1>2 DEF LoginRead
  <2>4. StaleKeyExplained'
    BY <1>2 DEF LoginRead
  <2> QED
    BY <2>1, <2>2, <2>3, <2>4
<1>3. ASSUME NEW s \in Sids, LoginTouch(s) PROVE StaleInv'
  <2>1. LogoutAfterLogin'
    BY <1>3 DEF LoginTouch
  <2>2. EarlyClean'
    BY <1>3 DEF LoginTouch
  <2>3. RacedMarked'
    BY <1>3 DEF LoginTouch
  <2>4. StaleKeyExplained'
    BY <1>3 DEF LoginTouch
  <2> QED
    BY <2>1, <2>2, <2>3, <2>4
<1>4. ASSUME NEW s \in Sids, FindUser(s) PROVE StaleInv'
  <2>1. LogoutAfterLogin'
    BY <1>4 DEF FindUser
  <2>2. EarlyClean'
    BY <1>4 DEF FindUser
  <2>3. RacedMarked'
    BY <1>4 DEF FindUser
  <2>4. StaleKeyExplained'
    BY <1>4 DEF FindUser
  <2> QED
    BY <2>1, <2>2, <2>3, <2>4
<1>5. ASSUME NEW s \in Sids, CreateRow(s) PROVE StaleInv'
  <2>1. LogoutAfterLogin'
    BY <1>5 DEF CreateRow
  <2>2. EarlyClean'
    BY <1>5 DEF CreateRow
  <2>3. RacedMarked'
    BY <1>5 DEF CreateRow
  <2>4. StaleKeyExplained'
    BY <1>5 DEF CreateRow
  <2> QED
    BY <2>1, <2>2, <2>3, <2>4
<1>6. ASSUME NEW s \in Sids, CreateKey(s) PROVE StaleInv'
  <2>1. LogoutAfterLogin'
    BY <1>6 DEF CreateKey
  <2>2. EarlyClean'
    BY <1>6 DEF CreateKey
  <2>3. RacedMarked'
    BY <1>6 DEF CreateKey
  <2>4. StaleKeyExplained'
    BY <1>6 DEF CreateKey
  <2> QED
    BY <2>1, <2>2, <2>3, <2>4
<1>7. ASSUME NEW s \in Sids, IssueUserTokens(s) PROVE StaleInv'
  <2>1. LogoutAfterLogin'
    BY <1>7 DEF IssueUserTokens
  <2>2. EarlyClean'
    BY <1>7 DEF IssueUserTokens
  <2>3. RacedMarked'
    BY <1>7 DEF IssueUserTokens
  <2>4. StaleKeyExplained'
    BY <1>7 DEF IssueUserTokens
  <2> QED
    BY <2>1, <2>2, <2>3, <2>4
<1>8. ASSUME NEW s \in Sids, SetTokenIDRow(s) PROVE StaleInv'
  <2>1. LogoutAfterLogin'
    BY <1>8 DEF SetTokenIDRow
  <2>2. EarlyClean'
    BY <1>8 DEF SetTokenIDRow
  <2>3. RacedMarked'
    BY <1>8 DEF SetTokenIDRow
  <2>4. StaleKeyExplained'
    BY <1>8 DEF SetTokenIDRow
  <2> QED
    BY <2>1, <2>2, <2>3, <2>4
<1>9. ASSUME NEW s \in Sids, SetTokenIDGet(s) PROVE StaleInv'
  <2>1. LogoutAfterLogin'
    BY <1>9 DEF SetTokenIDGet
  <2>2. EarlyClean'
    BY <1>9 DEF SetTokenIDGet
  <2>3. RacedMarked'
    BY <1>9 DEF SetTokenIDGet
  <2>4. StaleKeyExplained'
    BY <1>9 DEF SetTokenIDGet
  <2> QED
    BY <2>1, <2>2, <2>3, <2>4
<1>10. ASSUME NEW s \in Sids, SetTokenIDSet(s) PROVE StaleInv'
  <2>1. LogoutAfterLogin'
    BY <1>10 DEF SetTokenIDSet
  <2>2. EarlyClean'
    BY <1>10 DEF SetTokenIDSet
  <2>3. RacedMarked'
    BY <1>10 DEF SetTokenIDSet
  <2>4. StaleKeyExplained'
    BY <1>10 DEF SetTokenIDSet
  <2> QED
    BY <2>1, <2>2, <2>3, <2>4
<1>11. ASSUME NEW s \in Sids, LoginCommit(s) PROVE StaleInv'
  <2>1. LogoutAfterLogin'
    BY <1>11 DEF LoginCommit
  <2>2. EarlyClean'
    BY <1>11 DEF LoginCommit
  <2>3. RacedMarked'
    BY <1>11 DEF LoginCommit
  <2>4. StaleKeyExplained'
    BY <1>11 DEF LoginCommit
  <2> QED
    BY <2>1, <2>2, <2>3, <2>4
<1>12. ASSUME NEW s \in Sids, LoginAbort(s) PROVE StaleInv'
  <2>1. LogoutAfterLogin'
    BY <1>12 DEF LoginAbort
  <2>2. EarlyClean'
    BY <1>12 DEF LoginAbort
  <2>3. RacedMarked'
    BY <1>12 DEF LoginAbort
  <2>4. StaleKeyExplained'
    BY <1>12 DEF LoginAbort
  <2> QED
    BY <2>1, <2>2, <2>3, <2>4
<1>13. ASSUME NEW s \in Sids, LogoutBlacklist(s) PROVE StaleInv'
  <2>1. LogoutAfterLogin'
    BY <1>13 DEF LogoutBlacklist, AcceptsToken
  <2>2. EarlyClean'
    BY <1>13 DEF LogoutBlacklist
  <2>3. RacedMarked'
    BY <1>13 DEF LogoutBlacklist
  <2>4. StaleKeyExplained'
    BY <1>13 DEF LogoutBlacklist
  <2> QED
    BY <2>1, <2>2, <2>3, <2>4
<1>14. ASSUME NEW s \in Sids, RevokeRow(s) PROVE StaleInv'
  <2>1. LogoutAfterLogin'
    BY <1>14 DEF RevokeRow
  <2>2. EarlyClean'
    BY <1>14 DEF RevokeRow
  <2>3. RacedMarked'
    BY <1>14 DEF RevokeRow
  <2>4. StaleKeyExplained'
    BY <1>14 DEF RevokeRow
  <2> QED
    BY <2>1, <2>2, <2>3, <2>4
<1>15. ASSUME NEW s \in Sids, RevokeKey(s) PROVE StaleInv'
  <2>1. LogoutAfterLogin'
    BY <1>15 DEF RevokeKey
  <2>2. EarlyClean'
    BY <1>15 DEF RevokeKey
  <2>3. RacedMarked'
    BY <1>15 DEF RevokeKey
  <2>4. StaleKeyExplained'
    <3> SUFFICES ASSUME NEW t \in Sids, key'[t], row'[t] # "live"
                 PROVE  DelPending(t)' \/ excuse'[t] # {}
      OBVIOUS
    <3>1. CASE t = s
      BY <1>15, <3>1 DEF RevokeKey
    <3>2. CASE t # s
      <4>1. key[t] /\ row[t] # "live" /\ excuse'[t] = excuse[t]
        BY <1>15, <3>2 DEF RevokeKey
      <4>2. DelPending(t) => DelPending(t)'
        BY <1>15, <3>2 DEF RevokeKey
      <4> QED
        BY <4>1, <4>2
    <3> QED
      BY <3>1, <3>2
  <2> QED
    BY <2>1, <2>2, <2>3, <2>4
<1>16. ASSUME NEW s \in Sids, EvictKey(s) PROVE StaleInv'
  <2>1. LogoutAfterLogin'
    BY <1>16 DEF EvictKey
  <2>2. EarlyClean'
    BY <1>16 DEF EvictKey
  <2>3. RacedMarked'
    BY <1>16 DEF EvictKey
  <2>4. StaleKeyExplained'
    BY <1>16 DEF EvictKey
  <2> QED
    BY <2>1, <2>2, <2>3, <2>4
<1>17. ASSUME NEW o \in Ops, NEW u \in Users, IsolateUser(o, u) PROVE StaleInv'
  <2>1. LogoutAfterLogin'
    BY <1>17 DEF IsolateUser
  <2>2. EarlyClean'
    BY <1>17 DEF IsolateUser
  <2>3. RacedMarked'
    BY <1>17 DEF IsolateUser
  <2>4. StaleKeyExplained'
    BY <1>17 DEF IsolateUser, Begin
  <2> QED
    BY <2>1, <2>2, <2>3, <2>4
<1>18. ASSUME NEW o \in Ops, NEW u \in Users, DeleteUser(o, u) PROVE StaleInv'
  <2>1. LogoutAfterLogin'
    BY <1>18 DEF DeleteUser, Begin
  <2>2. EarlyClean'
    BY <1>18 DEF DeleteUser, Begin
  <2>3. RacedMarked'
    <3> SUFFICES ASSUME NEW t \in Sids, pc[t] \in Underway, row'[t] # "live"
                 PROVE  "raced" \in excuse'[t] \/ "cascade" \in excuse'[t]
      BY <1>18 DEF DeleteUser
    <3>1. row[t] = "live" => "cascade" \in excuse'[t]
      BY <1>18 DEF DeleteUser
    <3>2. excuse[t] \subseteq excuse'[t]
      BY <1>18 DEF DeleteUser
    <3> QED
      BY <3>1, <3>2
  <2>4. StaleKeyExplained'
    <3> SUFFICES ASSUME NEW t \in Sids, key[t], row'[t] # "live"
                 PROVE  DelPending(t)' \/ excuse'[t] # {}
      BY <1>18 DEF DeleteUser
    <3>1. row[t] = "live" => "cascade" \in excuse'[t]
      BY <1>18 DEF DeleteUser
    <3>2. excuse[t] \subseteq excuse'[t]
      BY <1>18 DEF DeleteUser
    <3>3. DelPending(t) => DelPending(t)'
      BY <1>18 DEF DeleteUser, Begin
    <3> QED
      BY <3>1, <3>2, <3>3
  <2> QED
    BY <2>1, <2>2, <2>3, <2>4
<1>19. ASSUME NEW o \in Ops, NEW u \in Users, ResetGet(o, u) PROVE StaleInv'
  <2>1. LogoutAfterLogin'
    BY <1>19 DEF ResetGet
  <2>2. EarlyClean'
    BY <1>19 DEF ResetGet
  <2>3. RacedMarked'
    BY <1>19 DEF ResetGet
  <2>4. StaleKeyExplained'
    BY <1>19 DEF ResetGet, Begin
  <2> QED
    BY <2>1, <2>2, <2>3, <2>4
<1>20. ASSUME NEW o \in Ops, ResetUpdate(o) PROVE StaleInv'
  <2>1. LogoutAfterLogin'
    BY <1>20 DEF ResetUpdate
  <2>2. EarlyClean'
    BY <1>20 DEF ResetUpdate
  <2>3. RacedMarked'
    BY <1>20 DEF ResetUpdate
  <2>4. StaleKeyExplained'
    BY <1>20 DEF ResetUpdate
  <2> QED
    BY <2>1, <2>2, <2>3, <2>4
<1>21. ASSUME NEW o \in Ops, RevokeAllSelect(o) PROVE StaleInv'
  <2>1. LogoutAfterLogin'
    BY <1>21 DEF RevokeAllSelect
  <2>2. EarlyClean'
    BY <1>21 DEF RevokeAllSelect
  <2>3. RacedMarked'
    BY <1>21 DEF RevokeAllSelect
  <2>4. StaleKeyExplained'
    BY <1>21 DEF RevokeAllSelect
  <2> QED
    BY <2>1, <2>2, <2>3, <2>4
<1>22. ASSUME NEW o \in Ops, RevokeAllUpdate(o) PROVE StaleInv'
  <2>1. LogoutAfterLogin'
    BY <1>22 DEF RevokeAllUpdate
  <2>2. EarlyClean'
    BY <1>22 DEF RevokeAllUpdate
  <2>3. RacedMarked'
    <3> SUFFICES ASSUME NEW t \in Sids, pc[t] \in Underway, row'[t] # "live"
                 PROVE  "raced" \in excuse'[t] \/ "cascade" \in excuse'[t]
      BY <1>22 DEF RevokeAllUpdate
    <3>1. row[t] = "live" => "raced" \in excuse'[t]
      BY <1>22 DEF RevokeAllUpdate
    <3>2. excuse[t] \subseteq excuse'[t]
      BY <1>22 DEF RevokeAllUpdate
    <3> QED
      BY <3>1, <3>2
  <2>4. StaleKeyExplained'
    BY <1>22 DEF RevokeAllUpdate
  <2> QED
    BY <2>1, <2>2, <2>3, <2>4
<1>23. ASSUME NEW o \in Ops, OpFinish(o) PROVE StaleInv'
  <2>1. LogoutAfterLogin'
    BY <1>23 DEF OpFinish
  <2>2. EarlyClean'
    BY <1>23 DEF OpFinish
  <2>3. RacedMarked'
    BY <1>23 DEF OpFinish
  <2>4. StaleKeyExplained'
    BY <1>23 DEF OpFinish
  <2> QED
    BY <2>1, <2>2, <2>3, <2>4
<1>24. ASSUME NEW o \in Ops, NEW s \in Sids, RevokeAllDel(o, s) PROVE StaleInv'
  <2>1. LogoutAfterLogin'
    BY <1>24 DEF RevokeAllDel
  <2>2. EarlyClean'
    BY <1>24 DEF RevokeAllDel
  <2>3. RacedMarked'
    BY <1>24 DEF RevokeAllDel
  <2>4. StaleKeyExplained'
    <3> SUFFICES ASSUME NEW t \in Sids, key'[t], row'[t] # "live"
                 PROVE  DelPending(t)' \/ excuse'[t] # {}
      OBVIOUS
    <3>1. CASE t = s
      BY <1>24, <3>1 DEF RevokeAllDel
    <3>2. CASE t # s
      <4>1. key[t] /\ row[t] # "live" /\ excuse'[t] = excuse[t]
        BY <1>24, <3>2 DEF RevokeAllDel
      <4>2. DelPending(t) => DelPending(t)'
        BY <1>24, <3>2 DEF RevokeAllDel
      <4> QED
        BY <4>1, <4>2
    <3> QED
      BY <3>1, <3>2
  <2> QED
    BY <2>1, <2>2, <2>3, <2>4
<1>25. ASSUME NEW o \in Ops, NEW s \in Sids, RevokeAllBlacklist(o, s) PROVE StaleInv'
  <2>1. LogoutAfterLogin'
    BY <1>25 DEF RevokeAllBlacklist
  <2>2. EarlyClean'
    BY <1>25 DEF RevokeAllBlacklist
  <2>3. RacedMarked'
    BY <1>25 DEF RevokeAllBlacklist
  <2>4. StaleKeyExplained'
    BY <1>25 DEF RevokeAllBlacklist
  <2> QED
    BY <2>1, <2>2, <2>3, <2>4
<1>26. ASSUME NEW s \in Sids, RevokeFails(s) PROVE StaleInv'
  <2>1. LogoutAfterLogin'
    BY <1>26 DEF RevokeFails
  <2>2. EarlyClean'
    BY <1>26 DEF RevokeFails
  <2>3. RacedMarked'
    BY <1>26 DEF RevokeFails
  <2>4. StaleKeyExplained'
    BY <1>26 DEF RevokeFails
  <2> QED
    BY <2>1, <2>2, <2>3, <2>4
<1>27. ASSUME NEW o \in Ops, ResetFails(o) PROVE StaleInv'
  <2>1. LogoutAfterLogin'
    BY <1>27 DEF ResetFails
  <2>2. EarlyClean'
    BY <1>27 DEF ResetFails
  <2>3. RacedMarked'
    BY <1>27 DEF ResetFails
  <2>4. StaleKeyExplained'
    BY <1>27 DEF ResetFails
  <2> QED
    BY <2>1, <2>2, <2>3, <2>4
<1>28. ASSUME NEW o \in Ops, RevokeAllFails(o) PROVE StaleInv'
  <2>1. LogoutAfterLogin'
    BY <1>28 DEF RevokeAllFails
  <2>2. EarlyClean'
    BY <1>28 DEF RevokeAllFails
  <2>3. RacedMarked'
    BY <1>28 DEF RevokeAllFails
  <2>4. StaleKeyExplained'
    BY <1>28 DEF RevokeAllFails
  <2> QED
    BY <2>1, <2>2, <2>3, <2>4
<1>29. ASSUME NEW r \in Others, NEW u \in Users, WaitForRow(r, u) \/ WaitOver(r, u)
      PROVE  StaleInv'
  BY <1>1, <1>29, WaitsChangeNothing
<1> QED
  BY <1>29, <1>26, <1>27, <1>28, <1>1, <1>2, <1>3, <1>4, <1>5, <1>6, <1>7, <1>8, <1>9, <1>10, <1>11, <1>12, <1>13, <1>14, <1>15, <1>16, <1>17, <1>18, <1>19, <1>20, <1>21, <1>22, <1>23, <1>24, <1>25
     DEF vars, Next, LoginStep, LogoutStep, RevokeAllStep, BlacklistExpires, ForgotPassword, ResetTokenExpires, ChangePassword, ApproveUser

---------------------------------------------------------------------------
(* Tokens of deleted users. *)

\* A step of any handler keeps TokenInv.
LEMMA NextToken == TypeOK /\ TypeOK' /\ TokenInv /\ [Next]_vars => TokenInv'
<1> SUFFICES ASSUME TypeOK, TypeOK', TokenInv, [Next]_vars PROVE TokenInv'
  OBVIOUS
<1> USE ConstantsAssumption DEF TypeOK, TokenInv, Recorded, NoDeletedJwt, DeletedUserHasNoToken,
        LoginPc, Early, Underway, userVars, opVars, sessVars
<1>1. ASSUME UNCHANGED <<pc, jwt, status>> PROVE TokenInv'
  BY <1>1
<1>2. ASSUME NEW s \in Sids, LoginRead(s) PROVE TokenInv'
  BY <1>2 DEF LoginRead
<1>3. ASSUME NEW s \in Sids, LoginTouch(s) PROVE TokenInv'
  BY <1>3 DEF LoginTouch
<1>4. ASSUME NEW s \in Sids, FindUser(s) PROVE TokenInv'
  BY <1>4 DEF FindUser
<1>5. ASSUME NEW s \in Sids, CreateRow(s) PROVE TokenInv'
  BY <1>5 DEF CreateRow
<1>6. ASSUME NEW s \in Sids, CreateKey(s) PROVE TokenInv'
  BY <1>6 DEF CreateKey
<1>7. ASSUME NEW s \in Sids, IssueUserTokens(s) PROVE TokenInv'
  BY <1>7 DEF IssueUserTokens
<1>8. ASSUME NEW s \in Sids, SetTokenIDRow(s) PROVE TokenInv'
  BY <1>8 DEF SetTokenIDRow
<1>9. ASSUME NEW s \in Sids, SetTokenIDGet(s) PROVE TokenInv'
  BY <1>9 DEF SetTokenIDGet
<1>10. ASSUME NEW s \in Sids, SetTokenIDSet(s) PROVE TokenInv'
  BY <1>10 DEF SetTokenIDSet
<1>11. ASSUME NEW s \in Sids, LoginCommit(s) PROVE TokenInv'
  BY <1>11 DEF LoginCommit
<1>12. ASSUME NEW s \in Sids, LoginAbort(s) PROVE TokenInv'
  BY <1>12 DEF LoginAbort
<1>13. ASSUME NEW o \in Ops, NEW u \in Users, IsolateUser(o, u) PROVE TokenInv'
  BY <1>13 DEF IsolateUser
<1>14. ASSUME NEW o \in Ops, NEW u \in Users, DeleteUser(o, u) PROVE TokenInv'
  BY <1>14 DEF DeleteUser, Of
<1>15. ASSUME NEW u \in Users, NEW st \in {"active", "isolated"}, ApproveUser(u, st) PROVE TokenInv'
  BY <1>15 DEF ApproveUser
<1>16. ASSUME NEW s \in Sids,
             LogoutStep(s) \/ EvictKey(s) \/ \E k \in TokenKinds : BlacklistExpires(s, k)
      PROVE  TokenInv'
  BY <1>1, <1>16 DEF LogoutStep, LogoutBlacklist, RevokeRow, RevokeFails, RevokeKey, EvictKey,
     BlacklistExpires
<1>17. ASSUME NEW o \in Ops,
             ResetUpdate(o) \/ ResetFails(o) \/ RevokeAllStep(o) \/ \E u \in Users : ResetGet(o, u)
      PROVE  TokenInv'
  BY <1>1, <1>17 DEF ResetUpdate, ResetFails, RevokeAllFails, RevokeAllStep, ResetGet, RevokeAllSelect,
     RevokeAllUpdate, OpFinish, RevokeAllDel, RevokeAllBlacklist
<1>18. ASSUME NEW u \in Users,
             ForgotPassword(u) \/ ResetTokenExpires(u) \/ ChangePassword(u)
      PROVE  TokenInv'
  BY <1>1, <1>18 DEF ForgotPassword, ResetTokenExpires, ChangePassword
<1>19. ASSUME NEW r \in Others, NEW u \in Users, WaitForRow(r, u) \/ WaitOver(r, u)
      PROVE  TokenInv'
  BY <1>1, <1>19, WaitsChangeNothing
<1> QED
  BY <1>1, <1>2, <1>3, <1>4, <1>5, <1>6, <1>7, <1>8, <1>9, <1>10, <1>11, <1>12, <1>13, <1>14, <1>15, <1>16, <1>17, <1>18, <1>19
     DEF vars, Next, LoginStep

---------------------------------------------------------------------------
(* Revocation takes effect and is final. *)

\* No handler reopens a session whose login is over: only a login in flight
\* writes a live row or a key.
LEMMA NextDone == TypeOK /\ [Next]_vars => DoneStable
<1> SUFFICES ASSUME TypeOK, [Next]_vars, NEW t \in Sids, pc[t] = "done"
             PROVE  /\ pc'[t] = "done"
                    /\ row'[t] = "live" => row[t] = "live"
                    /\ key'[t] => key[t]
  BY DEF DoneStable
<1> DEFINE Stable == /\ pc'[t] = "done"
                     /\ row'[t] = "live" => row[t] = "live"
                     /\ key'[t] => key[t]
<1> USE DEF TypeOK, Early, Underway
<1>1. ASSUME NEW s \in Sids, LoginStep(s) \/ LoginAbort(s) PROVE Stable
  <2>1. pc[s] # "done"
    BY <1>1 DEF LoginStep, LoginRead, LoginTouch, FindUser, CreateRow, CreateKey,
       IssueUserTokens, SetTokenIDRow, SetTokenIDGet, SetTokenIDSet, LoginCommit,
       LoginAbort
  <2>2. /\ pc'[t] = pc[t]
        /\ row'[t] = row[t]
        /\ key'[t] = key[t]
    BY <1>1, <2>1 DEF LoginStep, LoginRead, LoginTouch, FindUser, CreateRow,
       CreateKey, IssueUserTokens, SetTokenIDRow, SetTokenIDGet, SetTokenIDSet,
       LoginCommit, LoginAbort
  <2> QED
    BY <2>2
<1>2. ASSUME NEW s \in Sids,
             LogoutStep(s) \/ EvictKey(s) \/ \E k \in TokenKinds : BlacklistExpires(s, k)
      PROVE  Stable
  <2>1. pc' = pc
    BY <1>2 DEF LogoutStep, LogoutBlacklist, RevokeRow, RevokeFails, RevokeKey, EvictKey,
       BlacklistExpires
  <2>2. row'[t] = "live" => row[t] = "live"
    BY <1>2 DEF LogoutStep, LogoutBlacklist, RevokeRow, RevokeFails, RevokeKey, EvictKey,
       BlacklistExpires
  <2>3. key'[t] => key[t]
    <3>1. CASE RevokeKey(s)
      BY <3>1 DEF RevokeKey
    <3>2. CASE EvictKey(s)
      BY <3>2 DEF EvictKey
    <3>3. CASE key' = key
      BY <3>3
    <3> QED
      BY <1>2, <3>1, <3>2, <3>3 DEF LogoutStep, LogoutBlacklist, RevokeRow,
         RevokeFails, BlacklistExpires
  <2> QED
    BY <2>1, <2>2, <2>3
<1>3. ASSUME NEW o \in Ops, ResetUpdate(o) \/ ResetFails(o) \/ RevokeAllStep(o) PROVE Stable
  <2>1. pc' = pc
    BY <1>3 DEF ResetUpdate, ResetFails, RevokeAllFails, RevokeAllStep, RevokeAllSelect, RevokeAllUpdate,
       OpFinish, RevokeAllDel, RevokeAllBlacklist, sessVars
  <2>2. row'[t] = "live" => row[t] = "live"
    BY <1>3 DEF ResetUpdate, ResetFails, RevokeAllFails, RevokeAllStep, RevokeAllSelect, RevokeAllUpdate,
       OpFinish, RevokeAllDel, RevokeAllBlacklist
  <2>3. key'[t] => key[t]
    <3>1. ASSUME NEW s \in Sids, RevokeAllDel(o, s) PROVE key'[t] => key[t]
      BY <3>1 DEF RevokeAllDel
    <3>2. CASE key' = key
      BY <3>2
    <3> QED
      BY <1>3, <3>1, <3>2 DEF ResetUpdate, ResetFails, RevokeAllFails, RevokeAllStep, RevokeAllSelect,
         RevokeAllUpdate, OpFinish, RevokeAllBlacklist, sessVars
  <2> QED
    BY <2>1, <2>2, <2>3
<1>4. ASSUME NEW o \in Ops, NEW u \in Users,
             IsolateUser(o, u) \/ DeleteUser(o, u) \/ ResetGet(o, u)
      PROVE  Stable
  BY <1>4 DEF IsolateUser, DeleteUser, ResetGet, sessVars
<1>5. ASSUME NEW u \in Users,
             \/ ForgotPassword(u) \/ ResetTokenExpires(u) \/ ChangePassword(u)
             \/ \E st \in {"active", "isolated"} : ApproveUser(u, st)
      PROVE  Stable
  BY <1>5 DEF ForgotPassword, ResetTokenExpires, ChangePassword, ApproveUser, sessVars
<1>6. CASE UNCHANGED vars
  BY <1>6 DEF vars
<1>7. ASSUME NEW r \in Others, NEW u \in Users, WaitForRow(r, u) \/ WaitOver(r, u)
      PROVE  Stable
  BY <1>7, WaitsChangeNothing
<1> QED
  BY <1>1, <1>2, <1>3, <1>4, <1>5, <1>6, <1>7 DEF Next

\* The sessions a request has settled stay settled while the request rests,
\* whatever the other handlers do.
LEMMA SettledRests ==
  ASSUME TypeOK, DoneStable, NEW o \in Ops, Settled(o), op'[o] = op[o]
  PROVE  Settled(o)'
<1> SUFFICES ASSUME op[o].pc \in {"select", "del"}, NEW s \in op[o].settled
             PROVE  /\ pc'[s] = "done"
                    /\ Owner[s] = op[o].user
                    /\ op[o].pc = "select" => s \in op[o].keys
                    /\ op[o].pc = "del" => row'[s] # "live" /\ (s \in op[o].keys \/ ~key'[s])
  BY DEF Settled
<1>1. s \in Sids
  BY SettledTyped
<1>2. /\ pc[s] = "done"
      /\ Owner[s] = op[o].user
      /\ op[o].pc = "select" => s \in op[o].keys
      /\ op[o].pc = "del" => row[s] # "live" /\ (s \in op[o].keys \/ ~key[s])
  BY Zenon DEF Settled
<1>3. pc'[s] = "done" /\ (row'[s] = "live" => row[s] = "live") /\ (key'[s] => key[s])
  BY <1>1, <1>2 DEF DoneStable
<1> QED
  BY <1>2, <1>3

\* A dead session stays dead.
LEMMA DeadStays ==
  ASSUME DoneStable, NEW s \in Sids, pc[s] = "done" /\ ~ValidSession(s)
  PROVE  pc'[s] = "done" /\ ~ValidSession(s)'
  BY DEF DoneStable, ValidSession

\* With Redis answering, a step of any handler keeps RevokeInv.
LEMMA NextRevoke ==
  ASSUME ~RedisMayFail, TypeOK, LogoutAfterLogin, RevokeInv, DoneStable, [Next]_vars
  PROVE  RevokeInv'
<1>1. ASSUME NEW o \in Ops, \A p \in Ops : p # o => op'[p] = op[p], Settled(o)'
      PROVE  SettledInv'
  <2> SUFFICES ASSUME NEW p \in Ops, p # o PROVE Settled(p)'
    BY <1>1 DEF SettledInv
  <2>1. op'[p] = op[p] /\ Settled(p)
    BY <1>1 DEF RevokeInv, SettledInv
  <2> QED
    BY <2>1, SettledRests
<1>2. ASSUME doomed' = doomed PROVE DoomedDead'
  <2> SUFFICES ASSUME NEW s \in doomed PROVE (pc[s] = "done" /\ ~ValidSession(s))'
    BY <1>2 DEF DoomedDead
  <2>1. s \in Sids /\ pc[s] = "done" /\ ~ValidSession(s)
    BY DEF TypeOK, RevokeInv, DoomedDead
  <2> QED
    BY <2>1, DeadStays
<1>3. ASSUME op' = op PROVE SettledInv'
  <2> SUFFICES ASSUME NEW p \in Ops PROVE Settled(p)'
    BY DEF SettledInv
  <2>1. op'[p] = op[p] /\ Settled(p)
    BY <1>3 DEF RevokeInv, SettledInv
  <2> QED
    BY <2>1, SettledRests
<1> USE DEF RevokeInv
<1>4. ASSUME NEW o \in Ops, NEW u \in Users, IsolateUser(o, u) PROVE RevokeInv'
  <2>1. op'[o].pc \notin {"select", "del"}
    BY <1>4 DEF IsolateUser, Begin, TypeOK, OpRec
  <2>2. \A p \in Ops : p # o => op'[p] = op[p]
    BY <1>4 DEF IsolateUser, Begin, TypeOK
  <2>3. Settled(o)'
    BY <2>1 DEF Settled
  <2>4. doomed' = doomed
    BY <1>4 DEF IsolateUser
  <2> QED
    BY <1>1, <1>2, <2>2, <2>3, <2>4
<1>5. ASSUME NEW o \in Ops, NEW u \in Users, DeleteUser(o, u) PROVE RevokeInv'
  <2>1. op'[o].pc \notin {"select", "del"}
    BY <1>5 DEF DeleteUser, Begin, TypeOK, OpRec
  <2>2. \A p \in Ops : p # o => op'[p] = op[p]
    BY <1>5 DEF DeleteUser, Begin, TypeOK
  <2>3. Settled(o)'
    BY <2>1 DEF Settled
  <2>4. doomed' = doomed
    BY <1>5 DEF DeleteUser
  <2> QED
    BY <1>1, <1>2, <2>2, <2>3, <2>4
<1>6. ASSUME NEW o \in Ops, NEW u \in Users, ResetGet(o, u) PROVE RevokeInv'
  <2>1. op'[o].pc \notin {"select", "del"}
    BY <1>6 DEF ResetGet, Begin, TypeOK, OpRec
  <2>2. \A p \in Ops : p # o => op'[p] = op[p]
    BY <1>6 DEF ResetGet, Begin, TypeOK
  <2>3. Settled(o)'
    BY <2>1 DEF Settled
  <2>4. doomed' = doomed
    BY <1>6 DEF ResetGet
  <2> QED
    BY <1>1, <1>2, <2>2, <2>3, <2>4
<1>7. ASSUME NEW o \in Ops, ResetUpdate(o) PROVE RevokeInv'
  <2>1. op'[o].pc \notin {"select", "del"}
    BY <1>7 DEF ResetUpdate, TypeOK, OpRec
  <2>2. \A p \in Ops : p # o => op'[p] = op[p]
    BY <1>7 DEF ResetUpdate, TypeOK
  <2>3. Settled(o)'
    BY <2>1 DEF Settled
  <2>4. doomed' = doomed
    BY <1>7 DEF ResetUpdate
  <2> QED
    BY <1>1, <1>2, <2>2, <2>3, <2>4
<1>8. ASSUME NEW o \in Ops, ResetFails(o) PROVE RevokeInv'
  <2>1. op'[o].pc \notin {"select", "del"}
    BY <1>8 DEF ResetFails, TypeOK, OpRec
  <2>2. \A p \in Ops : p # o => op'[p] = op[p]
    BY <1>8 DEF ResetFails, TypeOK
  <2>3. Settled(o)'
    BY <2>1 DEF Settled
  <2>4. doomed' = doomed
    BY <1>8 DEF ResetFails
  <2> QED
    BY <1>1, <1>2, <2>2, <2>3, <2>4
<1>9. ASSUME NEW o \in Ops, RevokeAllSelect(o) PROVE RevokeInv'
  <2> DEFINE S == {s \in Of(op[o].user) : row[s] # "none"}
  <2>1. /\ op'[o].pc = "select" /\ op'[o].user = op[o].user
        /\ op'[o].keys = S
        /\ op'[o].settled = {s \in S : pc[s] = "done"}
    BY <1>9, SelectFields
  <2>2. \A p \in Ops : p # o => op'[p] = op[p]
    BY <1>9 DEF RevokeAllSelect, TypeOK
  <2>3. pc' = pc /\ doomed' = doomed
    BY <1>9 DEF RevokeAllSelect, sessVars
  <2>4. \A t \in op'[o].settled : t \in S /\ pc[t] = "done" /\ Owner[t] = op[o].user
    BY <2>1 DEF Of
  <2>5. Settled(o)'
    <3> HIDE DEF S
    <3> QED
      BY <2>1, <2>3, <2>4 DEF Settled
  <2> QED
    BY <1>1, <1>2, <2>2, <2>3, <2>5
<1>10. ASSUME NEW o \in Ops, RevokeAllUpdate(o) PROVE RevokeInv'
  <2>1. /\ op[o].pc = "select"
        /\ op' = [op EXCEPT ![o].pc = "del"]
        /\ doomed' = doomed
    BY <1>10 DEF RevokeAllUpdate
  <2>2. op \in [Ops -> OpRec] /\ op[o] \in OpRec /\ op[o].settled \subseteq Sids
    BY SettledTyped DEF TypeOK
  <2>3. \A p \in Ops : p # o => op'[p] = op[p]
    BY <2>1, <2>2
  <2>4. /\ op'[o].pc = "del" /\ op'[o].settled = op[o].settled
        /\ op'[o].user = op[o].user /\ op'[o].keys = op[o].keys
    BY <2>1, <2>2 DEF OpRec
  <2>5. ASSUME NEW t \in op[o].settled
        PROVE  pc'[t] = "done" /\ Owner[t] = op[o].user /\ t \in op[o].keys /\ row'[t] # "live"
    <3>1. t \in Sids /\ pc[t] = "done" /\ Owner[t] = op[o].user /\ t \in op[o].keys
      BY <2>1, <2>2 DEF SettledInv, Settled
    <3>2. row'[t] # "live"
      BY <1>10, <3>1 DEF RevokeAllUpdate, Of, TypeOK
    <3>3. pc'[t] = "done"
      BY <3>1 DEF DoneStable
    <3> QED
      BY <3>1, <3>2, <3>3
  <2>6. Settled(o)'
    BY <2>4, <2>5 DEF Settled
  <2> QED
    BY <1>1, <1>2, <2>1, <2>3, <2>6
<1>11. ASSUME NEW o \in Ops, RevokeAllFails(o) PROVE RevokeInv'
  <2>1. op'[o].settled = {}
    BY <1>11 DEF RevokeAllFails, TypeOK, OpRec
  <2>2. \A p \in Ops : p # o => op'[p] = op[p]
    BY <1>11 DEF RevokeAllFails, TypeOK
  <2>3. Settled(o)'
    BY <2>1 DEF Settled
  <2>4. doomed' = doomed
    BY <1>11 DEF RevokeAllFails
  <2> QED
    BY <1>1, <1>2, <2>2, <2>3, <2>4
<1>12. ASSUME NEW o \in Ops, NEW s \in Sids, RevokeAllDel(o, s) PROVE RevokeInv'
  <2>1. /\ \A p \in Ops : p # o => op'[p] = op[p]
        /\ op[o].pc = "del" /\ op'[o].pc = "del"
        /\ op'[o].settled = op[o].settled /\ op'[o].user = op[o].user
        /\ op'[o].keys = op[o].keys \ {s}
    BY <1>12, DelFields
  <2>2. doomed' = doomed /\ ~key'[s]
    BY <1>12 DEF RevokeAllDel, RedisOutcome, TypeOK
  <2>3. ASSUME NEW t \in op[o].settled
        PROVE  /\ pc'[t] = "done" /\ Owner[t] = op[o].user /\ row'[t] # "live"
               /\ t \in op[o].keys \ {s} \/ ~key'[t]
    <3>1. t \in Sids
      BY SettledTyped
    <3>2. /\ pc[t] = "done" /\ Owner[t] = op[o].user /\ row[t] # "live"
          /\ t \in op[o].keys \/ ~key[t]
      BY <2>1 DEF SettledInv, Settled
    <3>3. pc'[t] = "done" /\ (row'[t] = "live" => row[t] = "live") /\ (key'[t] => key[t])
      BY <3>1, <3>2 DEF DoneStable
    <3> QED
      BY <2>2, <3>2, <3>3
  <2>4. Settled(o)'
    BY <2>1, <2>3, Zenon DEF Settled
  <2> QED
    BY <1>1, <1>2, <2>1, <2>2, <2>4
<1>13. ASSUME NEW o \in Ops, NEW s \in Sids, RevokeAllBlacklist(o, s) PROVE RevokeInv'
  <2>1. /\ \A p \in Ops : p # o => op'[p] = op[p]
        /\ op'[o].pc = op[o].pc /\ op'[o].settled = op[o].settled
        /\ op'[o].user = op[o].user /\ op'[o].keys = op[o].keys
    BY <1>13, BlacklistFields
  <2>2. pc' = pc /\ row' = row /\ key' = key /\ doomed' = doomed
    BY <1>13 DEF RevokeAllBlacklist
  <2>3. Settled(o)
    BY DEF SettledInv
  <2>4. Settled(o)'
    BY <2>1, <2>2, <2>3, Zenon DEF Settled
  <2> QED
    BY <1>1, <1>2, <2>1, <2>2, <2>4
<1>14. ASSUME NEW o \in Ops, OpFinish(o) PROVE RevokeInv'
  <2>1. op[o].pc = "del" /\ op[o].keys = {} /\ doomed' = doomed \cup op[o].settled
    BY <1>14 DEF OpFinish
  <2>2. op'[o].pc = "done" /\ \A p \in Ops : p # o => op'[p] = op[p]
    BY <1>14 DEF OpFinish, TypeOK, OpRec
  <2>3. Settled(o)'
    BY <2>2 DEF Settled
  <2>4. ASSUME NEW s \in doomed' PROVE pc'[s] = "done" /\ ~ValidSession(s)'
    <3>1. CASE s \in doomed
      <4>1. s \in Sids /\ pc[s] = "done" /\ ~ValidSession(s)
        BY <3>1 DEF TypeOK, DoomedDead
      <4> QED
        BY <4>1, DeadStays
    <3>2. CASE s \in op[o].settled
      <4>1. s \in Sids
        BY <3>2, SettledTyped
      <4>2. pc[s] = "done" /\ row[s] # "live" /\ ~key[s]
        BY <2>1, <3>2 DEF SettledInv, Settled
      <4>3. ~ValidSession(s)
        BY <4>2 DEF ValidSession
      <4> QED
        BY <4>1, <4>2, <4>3, DeadStays
    <3> QED
      BY <2>1, <2>4, <3>1, <3>2
  <2>5. DoomedDead'
    BY <2>4 DEF DoomedDead
  <2> QED
    BY <1>1, <2>2, <2>3, <2>5
<1>15. ASSUME NEW s \in Sids, RevokeKey(s) PROVE RevokeInv'
  <2>1. op' = op /\ doomed' = doomed \cup {s}
    BY <1>15 DEF RevokeKey
  <2>2. pc[s] = "done" /\ row[s] # "live"
    BY <1>15 DEF RevokeKey, LogoutAfterLogin
  <2>3. ~key'[s]
    BY <1>15 DEF RevokeKey, RedisOutcome, TypeOK
  <2>4. pc'[s] = "done" /\ ~ValidSession(s)'
    BY <2>2, <2>3 DEF DoneStable, ValidSession
  <2>5. ASSUME NEW t \in doomed PROVE pc'[t] = "done" /\ ~ValidSession(t)'
    <3>1. t \in Sids /\ pc[t] = "done" /\ ~ValidSession(t)
      BY DEF TypeOK, DoomedDead
    <3> QED
      BY <3>1, DeadStays
  <2>6. DoomedDead'
    BY <2>1, <2>4, <2>5 DEF DoomedDead
  <2> QED
    BY <1>3, <2>1, <2>6
<1>16. ASSUME NEW s \in Sids,
             \/ LoginStep(s) \/ LoginAbort(s) \/ LogoutBlacklist(s) \/ RevokeRow(s)
             \/ RevokeFails(s) \/ EvictKey(s) \/ \E k \in TokenKinds : BlacklistExpires(s, k)
      PROVE  RevokeInv'
  <2>1. UNCHANGED <<op, doomed>>
    BY <1>16 DEF LoginStep, LoginRead, LoginTouch, FindUser, CreateRow, CreateKey,
       IssueUserTokens, SetTokenIDRow, SetTokenIDGet, SetTokenIDSet, LoginCommit,
       LoginAbort, LogoutBlacklist, RevokeRow, RevokeFails, EvictKey, BlacklistExpires, opVars
  <2> QED
    BY <1>2, <1>3, <2>1
<1>17. ASSUME NEW u \in Users,
             \/ ForgotPassword(u) \/ ResetTokenExpires(u) \/ ChangePassword(u)
             \/ \E st \in {"active", "isolated"} : ApproveUser(u, st)
      PROVE  RevokeInv'
  <2>1. UNCHANGED <<op, doomed>>
    BY <1>17 DEF ForgotPassword, ResetTokenExpires, ChangePassword, ApproveUser, opVars
  <2> QED
    BY <1>2, <1>3, <2>1
<1>18. CASE UNCHANGED vars
  BY <1>2, <1>3, <1>18 DEF vars
<1>19. ASSUME NEW r \in Others, NEW u \in Users, WaitForRow(r, u) \/ WaitOver(r, u)
      PROVE  RevokeInv'
  BY <1>2, <1>3, <1>19, WaitsChangeNothing
<1> QED
  BY <1>4, <1>5, <1>6, <1>7, <1>8, <1>9, <1>10, <1>11, <1>12, <1>13, <1>14, <1>15, <1>16,
     <1>17, <1>18, <1>19 DEF Next, LogoutStep, RevokeAllStep

---------------------------------------------------------------------------
(* The theorems. *)

\* The initial state satisfies every strengthening.
LEMMA InitInv == Init => StaleInv /\ TokenInv /\ RevokeInv
  BY DEF Init, StaleInv, TokenInv, RevokeInv, LogoutAfterLogin, EarlyClean,
     RacedMarked, StaleKeyExplained, Recorded, NoDeletedJwt, DeletedUserHasNoToken,
     SettledInv, Settled, DoomedDead, Early, Underway

\* Whatever Redis loses, a session key outlives its row only while its DEL is
\* still to come or through one of the four windows StaleKeyExplained names.
THEOREM StaleKeysExplained == Spec => []StaleKeyExplained
<1>1. Init => StaleInv
  BY InitInv
<1>2. TypeOK /\ TypeOK' /\ StaleInv /\ [Next]_vars => StaleInv'
  BY NextStale
<1>3. StaleInv => StaleKeyExplained
  BY DEF StaleInv
<1> QED
  BY <1>1, <1>2, <1>3, TypeCorrect, PTL DEF Spec

\* No client ever holds tokens of a deleted user.
THEOREM DeletedUsersHoldNoToken == Spec => []DeletedUserHasNoToken
<1>1. Init => TokenInv
  BY InitInv
<1>2. TypeOK /\ TypeOK' /\ TokenInv /\ [Next]_vars => TokenInv'
  BY NextToken
<1>3. TokenInv => DeletedUserHasNoToken
  BY DEF TokenInv
<1> QED
  BY <1>1, <1>2, <1>3, TypeCorrect, PTL DEF Spec

\* Without Redis errors, a session that was complete when Logout or
\* RevokeAllUserSessions looked at it is rejected once that request is over.
THEOREM RevocationEffective == Spec => []RevocationTakesEffect
<1>1. CASE RedisMayFail
  <2>1. RevocationTakesEffect
    BY <1>1 DEF RevocationTakesEffect
  <2> QED
    BY <2>1, PTL
<1>2. CASE ~RedisMayFail
  <2>1. Init => StaleInv /\ RevokeInv
    BY InitInv
  <2>2. TypeOK /\ TypeOK' /\ StaleInv /\ [Next]_vars => StaleInv'
    BY NextStale
  <2>3. TypeOK /\ StaleInv /\ RevokeInv /\ [Next]_vars => RevokeInv'
    BY <1>2, NextRevoke, NextDone DEF StaleInv
  <2>4. RevokeInv => RevocationTakesEffect
    BY DEF RevokeInv, DoomedDead, RevocationTakesEffect
  <2> QED
    BY <2>1, <2>2, <2>3, <2>4, TypeCorrect, PTL DEF Spec
<1> QED
  BY <1>1, <1>2

\* A finished session that stops validating never validates again.
THEOREM RevocationIsFinal == Spec => RevocationFinal
<1>1. TypeOK /\ [Next]_vars
        => [\A s \in Sids : pc[s] = "done" /\ ~ValidSession(s) => ~ValidSession(s)']_vars
  BY NextDone, Zenon DEF DoneStable, ValidSession
<1> QED
  BY <1>1, TypeCorrect, PTL DEF Spec, RevocationFinal
=============================================================================
