-------------------------- MODULE TestChamberProofs --------------------------
(***************************************************************************)
(* Proofs about the student's test environment, for any number of tabs,    *)
(* tests and attempts.  Everything follows from one inductive invariant:   *)
(* what the page of a tab may hold (PageInv), and what is true of the      *)
(* submissions in the browser's storage (Ledger).                          *)
(***************************************************************************)
EXTENDS TestChamber, SequenceTheorems, TLAPS

Fields == {"year", "roster", "mine", "view", "active", "qIndex", "answers",
           "left", "seen", "elapsed", "gap", "dialog", "latest", "kind",
           "fresh", "paused", "missed"}

IsList(q) == q \in Seq({q[i] : i \in DOMAIN q})

\* Storage holds a list, the deadlines are numbers, and every page has the
\* state variables of the component.
Shape ==
  /\ tests \subseteq AllTests
  /\ IsList(subs)
  /\ DOMAIN toDue = AllTests /\ \A k \in AllTests : toDue[k] \in Int
  /\ DOMAIN tab = Tabs
  /\ \A t \in Tabs : /\ DOMAIN tab[t] = Fields
                     /\ tab[t].paused \in BOOLEAN /\ tab[t].missed \in BOOLEAN
                     /\ tab[t].gap \in {0, 1, 2}

\* A page knows stored tests only, and copies of stored submissions.
Copied(t) ==
  /\ tab[t].roster \subseteq tests
  /\ tab[t].view # "roster" => tab[t].active \in tests
  /\ \A i \in DOMAIN tab[t].mine : \E j \in DOMAIN subs : tab[t].mine[i] = subs[j]

\* A submission carries the percentage of the answers it carries, unless it is
\* a seed.
GradedRight(s) ==
  s.cause = "seed" \/ s.percentage = Percentage[s.test][Correct(s.test, s.answers)]

Stored(s) == \E i \in DOMAIN subs : subs[i] = s

\* The results view shows a submission of the test on the screen, a stored one
\* unless the browser refused to store it.
ShownFor(s, k) == s.test = k /\ GradedRight(s) /\ (~s.kept \/ Stored(s))

Shown(t) ==
  tab[t].view = "results" =>
     \E s : tab[t].latest = <<s>> /\ ShownFor(s, tab[t].active)

\* A box is open only during a test, whose clock it has stopped.
Boxed(t) == tab[t].dialog # None => tab[t].view = "testing" /\ tab[t].paused

\* A test entered from the roster had no submission, and since then only
\* other tabs have submitted it.
Entered(t) ==
  tab[t].view = "testing" =>
     /\ tab[t].kind \in {"entered", "retake"}
     /\ tab[t].kind = "entered" =>
          /\ tab[t].fresh
          /\ \A i \in DOMAIN subs : subs[i].test = tab[t].active => subs[i].tab # t

\* The countdown is never ahead of the clock, and agrees with it, but for the
\* tick that is due, where none was missed; and the deadline was open when the
\* last tick ran.
OnTime(t) ==
  tab[t].view = "testing" =>
     LET due == IF tab[t].gap > 0 THEN 1 ELSE 0
         limit == Info[tab[t].active].limit
     IN  /\ tab[t].left \in Nat \ {0} /\ tab[t].elapsed \in Nat
         /\ tab[t].left + tab[t].elapsed >= limit + due
         /\ \/ tab[t].paused \/ tab[t].missed
            \/ tab[t].left + tab[t].elapsed = limit + due
         /\ tab[t].paused \/ tab[t].gap = 2 \/ toDue[tab[t].active] >= -tab[t].gap

PageInv(t) == Copied(t) /\ Shown(t) /\ Boxed(t) /\ Entered(t) /\ OnTime(t)

Graded == \A i \in DOMAIN subs : GradedRight(subs[i])

Ledger == Graded /\ AnswersArrive /\ RepeatExplained

ChamberInv == Shape /\ (\A t \in Tabs : PageInv(t)) /\ Ledger

-----------------------------------------------------------------------------
\* r is the list q with x before it.
Prepended(r, x, q) ==
  /\ IsList(r)
  /\ 1 \in DOMAIN r /\ r[1] = x
  /\ \A i \in DOMAIN q : i + 1 \in DOMAIN r /\ r[i + 1] = q[i]
  /\ \A i \in DOMAIN r : i = 1 \/ (i - 1 \in DOMAIN q /\ r[i] = q[i - 1])
  /\ \A i \in DOMAIN r : i \in Int

\* Where the elements of a list with a new head are.
LEMMA NewHead ==
  ASSUME NEW q, IsList(q), NEW x
  PROVE  Prepended(<<x>> \o q, x, q)
<1> DEFINE r == <<x>> \o q
<1> DEFINE S == {q[i] : i \in DOMAIN q}
<1>1. q \in Seq(S) BY DEF IsList
<1>2. /\ Len(q) \in Nat /\ DOMAIN q = 1 .. Len(q)
  BY <1>1
<1>3. /\ Len(r) = Len(q) + 1 /\ DOMAIN r = 1 .. Len(q) + 1
      /\ \A i \in 1 .. Len(q) + 1 : r[i] = IF i = 1 THEN x ELSE q[i - 1]
      /\ r \in Seq(S \cup {x})
  <2>1. <<x>> \in Seq(S \cup {x}) /\ q \in Seq(S \cup {x}) /\ Len(<<x>>) = 1 /\ <<x>>[1] = x
    BY <1>1
  <2> HIDE DEF S
  <2> QED BY <2>1, <1>2
<1>4. IsList(r)
  <2> DEFINE R == {r[i] : i \in DOMAIN r}
  <2>1. /\ r \in [1 .. Len(q) + 1 -> S \cup {x}] /\ Len(q) + 1 \in Nat
    <3>1. r \in Seq(S \cup {x}) BY <1>3
    <3> HIDE DEF S
    <3> QED BY <3>1, <1>2, <1>3, LenProperties
  <2>2. r \in [1 .. Len(q) + 1 -> R]
    <3>1. \A i \in 1 .. Len(q) + 1 : r[i] \in R
      BY <1>3
    <3> HIDE DEF R, S
    <3> QED BY <2>1, <3>1
  <2> HIDE DEF R
  <2>3. r \in UNION {[1 .. n -> R] : n \in Nat}
    BY <2>1, <2>2
  <2>4. r \in Seq(R)
    BY <2>3, SeqDef, Zenon
  <2> QED BY <2>4 DEF R, IsList
<1> HIDE DEF S
<1>5. 1 \in DOMAIN r /\ r[1] = x
  BY <1>2, <1>3
<1>6. \A i \in DOMAIN q : i + 1 \in DOMAIN r /\ r[i + 1] = q[i]
  BY <1>2, <1>3
<1>7. \A i \in DOMAIN r : i = 1 \/ (i - 1 \in DOMAIN q /\ r[i] = q[i - 1])
  BY <1>2, <1>3
<1>8. \A i \in DOMAIN r : i \in Int
  BY <1>2, <1>3
<1> QED BY <1>4, <1>5, <1>6, <1>7, <1>8 DEF Prepended

\* The ledger depends on storage only.
LEMMA LedgerKept ==
  ASSUME Ledger, subs' = subs
  PROVE  Ledger'
<1>1. Graded'
  BY DEF Ledger, Graded, GradedRight
<1>2. AnswersArrive' /\ RepeatExplained'
  BY DEF Ledger, AnswersArrive, RepeatExplained
<1> QED BY <1>1, <1>2 DEF Ledger

\* The page goes back to the roster, or keeps its view with its clock
\* untouched, and perhaps opens a box.
Calm(u) ==
  /\ DOMAIN tab'[u] = Fields
  /\ tab'[u].paused \in BOOLEAN /\ tab'[u].missed \in BOOLEAN /\ tab'[u].gap \in {0, 1, 2}
  /\ tab'[u].roster \in {tab[u].roster, tests}
  /\ tab'[u].mine \in {tab[u].mine, subs}
  /\ \/ tab'[u].view = "roster" /\ tab'[u].dialog = None
     \/ /\ tab'[u].view = tab[u].view /\ tab'[u].active = tab[u].active
        /\ tab'[u].kind = tab[u].kind /\ tab'[u].fresh = tab[u].fresh
        /\ tab'[u].latest = tab[u].latest
        /\ tab'[u].gap = tab[u].gap /\ tab'[u].missed = tab[u].missed
        /\ tab'[u].left = tab[u].left /\ tab'[u].elapsed = tab[u].elapsed
        /\ \/ tab'[u].paused /\ (tab'[u].dialog # None => tab[u].view = "testing")
           \/ tab'[u].paused = tab[u].paused /\ tab'[u].dialog = tab[u].dialog

\* A step that stores nothing and leaves every page calm.
LEMMA CalmStep ==
  ASSUME ChamberInv, UNCHANGED <<tests, subs, toDue>>,
         DOMAIN tab' = Tabs, \A u \in Tabs : Calm(u)
  PROVE  ChamberInv'
<1>1. Shape'
  BY DEF ChamberInv, Shape, Calm
<1>2. ASSUME NEW u \in Tabs PROVE PageInv(u)'
  <2>0. PageInv(u) BY DEF ChamberInv
  <2>1. Copied(u)'
    BY <2>0 DEF PageInv, Calm, Copied
  <2>2. Shown(u)'
    BY <2>0 DEF PageInv, Calm, Shown, ShownFor, Stored, GradedRight
  <2>3. Boxed(u)'
    BY <2>0 DEF PageInv, Calm, Boxed
  <2>4. Entered(u)'
    BY <2>0 DEF PageInv, Calm, Entered
  <2>5. OnTime(u)'
    BY <2>0 DEF PageInv, Calm, OnTime
  <2> QED BY <2>1, <2>2, <2>3, <2>4, <2>5 DEF PageInv
<1>3. Ledger'
  BY LedgerKept DEF ChamberInv
<1> QED BY <1>1, <1>2, <1>3 DEF ChamberInv

\* A test is begun whose deadline has not passed; one entered from the
\* roster has no submission.
LEMMA BeginStep ==
  ASSUME ChamberInv, NEW t \in Tabs, NEW k \in tests, NEW kind,
         Begin(t, k, kind), tab[t].dialog = None, ~IsDeadlineExpired(k),
         kind \in {"entered", "retake"},
         kind = "entered" => SubmissionsStored(k) = {}
  PROVE  ChamberInv'
<1> DEFINE f == SubmissionsStored(k) = {}
<1>0. Shape /\ k \in AllTests /\ toDue[k] \in Int /\ toDue[k] >= 0
  BY DEF ChamberInv, Shape, IsDeadlineExpired
<1>1. /\ tests' = tests /\ subs' = subs /\ toDue' = toDue
      /\ DOMAIN tab' = Tabs
      /\ \A u \in Tabs : u # t => tab'[u] = tab[u]
  BY <1>0 DEF Begin, Shape
<1>2. /\ DOMAIN tab'[t] = Fields
      /\ tab'[t].view = "testing" /\ tab'[t].active = k /\ tab'[t].kind = kind
      /\ tab'[t].left = Info[k].limit /\ tab'[t].elapsed = 0
      /\ tab'[t].paused = FALSE /\ tab'[t].missed = FALSE /\ tab'[t].gap = 0
      /\ tab'[t].fresh = f
      /\ tab'[t].roster = tab[t].roster /\ tab'[t].mine = tab[t].mine
      /\ tab'[t].dialog = tab[t].dialog
  <2>1. tab' = [tab EXCEPT ![t].view = "testing", ![t].active = k, ![t].qIndex = 0,
          ![t].answers = Unanswered(k), ![t].seen = Unanswered(k),
          ![t].left = Info[k].limit, ![t].elapsed = 0, ![t].gap = 0, ![t].kind = kind,
          ![t].fresh = f, ![t].paused = FALSE, ![t].missed = FALSE]
    BY DEF Begin
  <2> HIDE DEF f
  <2>2. tab'[t] = [tab[t] EXCEPT !.view = "testing", !.active = k, !.qIndex = 0,
          !.answers = Unanswered(k), !.seen = Unanswered(k),
          !.left = Info[k].limit, !.elapsed = 0, !.gap = 0, !.kind = kind,
          !.fresh = f, !.paused = FALSE, !.missed = FALSE]
    BY <2>1, <1>0 DEF Shape
  <2> QED BY <2>2, <1>0 DEF Shape, Fields
<1>3. Shape'
  <2>1. ASSUME NEW u \in Tabs
        PROVE  /\ DOMAIN tab'[u] = Fields
               /\ tab'[u].paused \in BOOLEAN /\ tab'[u].missed \in BOOLEAN
               /\ tab'[u].gap \in {0, 1, 2}
    BY <1>0, <1>1, <1>2 DEF Shape
  <2> QED BY <2>1, <1>0, <1>1 DEF Shape
<1>4. ASSUME NEW u \in Tabs PROVE PageInv(u)'
  <2>0. PageInv(u) BY DEF ChamberInv
  <2>1. CASE u # t
    BY <2>0, <2>1, <1>1 DEF PageInv, Copied, Shown, ShownFor, Stored, GradedRight,
      Boxed, Entered, OnTime
  <2>2. CASE u = t
    <3>1. Copied(t)' /\ Shown(t)' /\ Boxed(t)'
      BY <2>0, <2>2, <1>1, <1>2 DEF PageInv, Copied, Shown, Boxed
    <3>2. Entered(t)'
      BY <1>1, <1>2 DEF Entered, SubmissionsStored, Positions
    <3>3. OnTime(t)'
      <4>1. Info[k].limit \in Nat \ {0}
        BY <1>0, TestAssumption DEF AllTests
      <4>2. Info[k].limit + 0 >= Info[k].limit + 0 /\ Info[k].limit + 0 = Info[k].limit + 0
        BY <4>1
      <4> QED BY <4>1, <4>2, <1>0, <1>1, <1>2 DEF OnTime
    <3> QED BY <2>2, <3>1, <3>2, <3>3 DEF PageInv
  <2> QED BY <2>1, <2>2
<1>5. Ledger'
  BY <1>1, LedgerKept DEF ChamberInv
<1> QED BY <1>3, <1>4, <1>5 DEF ChamberInv

\* A test is submitted, with the answers on the screen unless the countdown
\* submits it.
LEMMA SubmitStep ==
  ASSUME ChamberInv, NEW t \in Tabs, NEW given, NEW cause,
         tab[t].view = "testing", given = tab[t].answers \/ cause = "timer",
         HandleFinishAndSubmit(t, given, cause)
  PROVE  ChamberInv'
<1>a. PICK kept \in BOOLEAN :
        LET s == Result(t, given, cause, kept) IN
        /\ SubmitTest(s)
        /\ tab' = [tab EXCEPT ![t] =
             [Ended(tab[t]) EXCEPT !.view = "results", !.active = tab[t].active,
                !.latest = <<s>>, !.roster = GetAssignedAssessments, !.mine = subs']]
        /\ UNCHANGED <<tests, storedYear, toDue, started>>
  BY DEF HandleFinishAndSubmit
<1> DEFINE p == tab[t]
           pct == Percentage[p.active][Correct(p.active, given)]
<1>c. PICK s : s = Result(t, given, cause, kept) OBVIOUS
<1>0. Shape BY DEF ChamberInv
<1>1. /\ subs' = IF s.kept THEN <<s>> \o subs ELSE subs
      /\ tests' = tests /\ toDue' = toDue
      /\ tab' = [tab EXCEPT ![t] =
           [Ended(p) EXCEPT !.view = "results", !.active = p.active,
              !.latest = <<s>>, !.roster = tests, !.mine = subs']]
  BY <1>a, <1>c DEF SubmitTest, GetAssignedAssessments
<1>2. /\ s.test = p.active /\ s.answers = given /\ s.percentage = pct
      /\ s.cause = cause /\ s.tab = t /\ s.kind = p.kind /\ s.fresh = p.fresh
      /\ s.lost = (given # p.answers) /\ s.kept = kept
  BY <1>c DEF Result
<1> HIDE DEF pct
<1>3. /\ DOMAIN tab' = Tabs
      /\ \A u \in Tabs : u # t => tab'[u] = tab[u]
      /\ tab'[t] = [Ended(p) EXCEPT !.view = "results", !.active = p.active,
              !.latest = <<s>>, !.roster = tests, !.mine = subs']
  BY <1>0, <1>1 DEF Shape
<1>4. /\ DOMAIN tab'[t] = Fields
      /\ tab'[t].view = "results" /\ tab'[t].active = p.active
      /\ tab'[t].latest = <<s>> /\ tab'[t].roster = tests
      /\ tab'[t].mine = subs' /\ tab'[t].dialog = None
      /\ tab'[t].paused = FALSE /\ tab'[t].missed = FALSE /\ tab'[t].gap = 0
  BY <1>0, <1>3 DEF Shape, Ended, Fields
<1>b. \/ kept /\ Prepended(subs', s, subs)
      \/ ~kept /\ subs' = subs
  <2>1. IsList(subs)
    BY <1>0 DEF Shape
  <2>2. CASE kept
    <3>1. subs' = <<s>> \o subs BY <1>1, <1>2, <2>2
    <3> QED BY <2>1, <2>2, <3>1, NewHead
  <2>3. CASE ~kept
    BY <1>1, <1>2, <2>3
  <2> QED BY <2>2, <2>3
<1>5. /\ IsList(subs')
      /\ kept => \E j \in DOMAIN subs' : subs'[j] = s
      /\ \A i \in DOMAIN subs : \E j \in DOMAIN subs' : subs'[j] = subs[i]
      /\ \A i \in DOMAIN subs' : subs'[i] = s \/ \E j \in DOMAIN subs : subs'[i] = subs[j]
  <2>1. CASE kept /\ Prepended(subs', s, subs)
    BY <2>1 DEF Prepended
  <2>2. CASE ~kept /\ subs' = subs
    BY <2>2, <1>0 DEF Shape
  <2> QED BY <1>b, <2>1, <2>2
<1>6. Shape'
  BY <1>0, <1>1, <1>3, <1>4, <1>5 DEF Shape
<1>7. ASSUME NEW u \in Tabs PROVE PageInv(u)'
  <2>0. PageInv(u) BY DEF ChamberInv
  <2>1. CASE u # t
    <3>0. tab'[u] = tab[u] BY <2>1, <1>3
    <3>1. Copied(u)'
      <4>1. tab[u].roster \subseteq tests' /\ (tab[u].view # "roster" => tab[u].active \in tests')
        BY <2>0, <1>1 DEF PageInv, Copied
      <4>2. ASSUME NEW i \in DOMAIN tab[u].mine
            PROVE  \E j \in DOMAIN subs' : tab[u].mine[i] = subs'[j]
        <5>1. PICK j \in DOMAIN subs : tab[u].mine[i] = subs[j]
          BY <2>0 DEF PageInv, Copied
        <5>2. PICK l \in DOMAIN subs' : subs'[l] = subs[j]
          BY <1>5
        <5> QED BY <5>1, <5>2
      <4> QED BY <3>0, <4>1, <4>2 DEF Copied
    <3>2. Shown(u)' /\ Boxed(u)'
      <4>1. Boxed(u)' BY <2>0, <3>0 DEF PageInv, Boxed
      <4>2. ASSUME NEW x, Stored(x) PROVE Stored(x)'
        BY <4>2, <1>5 DEF Stored
      <4>3. ASSUME NEW x, ShownFor(x, tab[u].active) PROVE ShownFor(x, tab[u].active)'
        BY <3>0, <4>2, <4>3 DEF ShownFor, GradedRight
      <4>4. Shown(u)'
        BY <2>0, <3>0, <4>3 DEF PageInv, Shown
      <4> QED BY <4>1, <4>4
    <3>3. Entered(u)'
      BY <2>0, <2>1, <3>0, <1>2, <1>5 DEF PageInv, Entered
    <3>4. OnTime(u)'
      BY <2>0, <3>0, <1>1 DEF PageInv, OnTime
    <3> QED BY <3>1, <3>2, <3>3, <3>4 DEF PageInv
  <2>2. CASE u = t
    <3>1. Copied(t)'
      BY <2>0, <2>2, <1>1, <1>4 DEF PageInv, Copied
    <3>2. Shown(t)'
      <4>1. s.kept => Stored(s)'
        BY <1>2, <1>5 DEF Stored
      <4>2. s.test = p.active /\ GradedRight(s)
        BY <1>2 DEF GradedRight, pct
      <4>3. tab'[t].active = p.active /\ tab'[t].latest = <<s>>
        BY <1>4
      <4>4. ShownFor(s, tab[t].active)'
        BY <4>1, <4>2, <4>3 DEF ShownFor, GradedRight
      <4> QED BY <4>3, <4>4 DEF Shown
    <3>3. Boxed(t)' /\ Entered(t)' /\ OnTime(t)'
      BY <1>4 DEF Boxed, Entered, OnTime
    <3> QED BY <2>2, <3>1, <3>2, <3>3 DEF PageInv
  <2> QED BY <2>1, <2>2
<1>8. Ledger'
  <2>0. Ledger /\ PageInv(t) BY DEF ChamberInv
  <2>1. Graded'
    <3>1. GradedRight(s)
      BY <1>2 DEF pct, GradedRight
    <3> QED BY <2>0, <3>1, <1>5 DEF Ledger, Graded, GradedRight
  <2>2. AnswersArrive'
    <3>1. s.lost => s.cause = "timer"
      BY <1>2
    <3> QED BY <2>0, <3>1, <1>5 DEF Ledger, AnswersArrive
  <2>3. RepeatExplained'
    <3>1. CASE ~kept /\ subs' = subs
      BY <2>0, <3>1 DEF Ledger, RepeatExplained
    <3>2. CASE kept /\ Prepended(subs', s, subs)
      <4> SUFFICES ASSUME NEW i \in DOMAIN subs', NEW j \in DOMAIN subs',
                          i < j, subs'[i].test = subs'[j].test
                   PROVE  \/ subs'[i].kind = "retake"
                          \/ subs'[i].tab # subs'[j].tab /\ subs'[i].fresh
        BY DEF RepeatExplained
      <4>0. /\ i \in Int /\ j \in Int /\ subs'[1] = s
            /\ i = 1 \/ (i - 1 \in DOMAIN subs /\ subs'[i] = subs[i - 1])
            /\ j = 1 \/ (j - 1 \in DOMAIN subs /\ subs'[j] = subs[j - 1])
        BY <3>2 DEF Prepended
      <4>1. CASE i = 1
        <5>1. j # 1 BY <4>0, <4>1
        <5>2. j - 1 \in DOMAIN subs /\ subs'[j] = subs[j - 1] /\ subs'[i] = s
          BY <4>0, <4>1, <5>1
        <5>3. p.view = "testing" /\ Entered(t) BY <2>0 DEF PageInv
        <5>4. p.kind = "retake" \/ (p.fresh /\ subs[j - 1].tab # t)
          BY <5>2, <5>3, <1>2 DEF Entered
        <5> QED BY <5>2, <5>4, <1>2
      <4>2. CASE i # 1
        <5>1. i - 1 >= 1
          <6>1. i - 1 \in DOMAIN subs BY <4>0, <4>2
          <6> QED BY <6>1, <4>0, <1>0 DEF Shape, IsList
        <5>2. j # 1 BY <4>0, <5>1
        <5>3. /\ i - 1 \in DOMAIN subs /\ j - 1 \in DOMAIN subs /\ i - 1 < j - 1
              /\ subs'[i] = subs[i - 1] /\ subs'[j] = subs[j - 1]
          BY <4>0, <4>2, <5>2
        <5> QED BY <5>3, <2>0 DEF Ledger, RepeatExplained
      <4> QED BY <4>1, <4>2
    <3> QED BY <1>b, <3>1, <3>2
  <2> QED BY <2>1, <2>2, <2>3 DEF Ledger
<1> QED BY <1>6, <1>7, <1>8 DEF ChamberInv

\* A tick of the countdown submits, or takes a second off the clock and looks
\* at the deadline.
LEMMA TickStep ==
  ASSUME ChamberInv, NEW t \in Tabs, Tick(t)
  PROVE  ChamberInv'
<1>1. CASE tab[t].left <= 1
  BY <1>1, SubmitStep DEF Tick
<1>2. CASE ~(tab[t].left <= 1)
  <2> DEFINE late == IsDeadlineExpired(tab[t].active)
             box == IF late THEN "deadline" ELSE None
             stop == tab[t].paused \/ late
  <2>0. Shape /\ PageInv(t) BY DEF ChamberInv
  <2>1. /\ tab[t].gap > 0 /\ tab[t].view = "testing" /\ tab[t].dialog = None
        /\ tests' = tests /\ subs' = subs /\ toDue' = toDue
        /\ tab' = [tab EXCEPT ![t] =
             [tab[t] EXCEPT !.gap = 0, !.left = tab[t].left - 1,
                !.seen = tab[t].answers, !.dialog = box, !.paused = stop]]
    <3>1. /\ tab[t].gap > 0 /\ tab[t].view = "testing" /\ tab[t].dialog = None
          /\ tests' = tests /\ subs' = subs /\ toDue' = toDue
      BY <1>2 DEF Tick, Responsive
    <3>2. tab' = [tab EXCEPT ![t] =
             [tab[t] EXCEPT !.gap = 0, !.left = tab[t].left - 1,
                !.seen = tab[t].answers, !.dialog = box, !.paused = stop]]
      BY <1>2 DEF Tick
    <3> QED BY <3>1, <3>2
  <2>2. late \in BOOLEAN /\ stop \in BOOLEAN
    BY DEF IsDeadlineExpired
  <2> HIDE DEF late, box, stop
  <2>4. /\ DOMAIN tab' = Tabs
        /\ \A u \in Tabs : u # t => tab'[u] = tab[u]
        /\ tab'[t] = [tab[t] EXCEPT !.gap = 0, !.left = tab[t].left - 1,
                        !.seen = tab[t].answers, !.dialog = box, !.paused = stop]
    BY <2>0, <2>1 DEF Shape
  <2>5. /\ DOMAIN tab'[t] = Fields
        /\ tab'[t].view = tab[t].view /\ tab'[t].active = tab[t].active
        /\ tab'[t].kind = tab[t].kind /\ tab'[t].fresh = tab[t].fresh
        /\ tab'[t].roster = tab[t].roster /\ tab'[t].mine = tab[t].mine
        /\ tab'[t].gap = 0 /\ tab'[t].left = tab[t].left - 1
        /\ tab'[t].elapsed = tab[t].elapsed /\ tab'[t].missed = tab[t].missed
        /\ tab'[t].dialog = box /\ tab'[t].paused = stop
    BY <2>0, <2>4 DEF Shape, Fields
  <2>6. Shape'
    <3>1. ASSUME NEW u \in Tabs
          PROVE  /\ DOMAIN tab'[u] = Fields
                 /\ tab'[u].paused \in BOOLEAN /\ tab'[u].missed \in BOOLEAN
                 /\ tab'[u].gap \in {0, 1, 2}
      BY <2>0, <2>2, <2>4, <2>5 DEF Shape
    <3> QED BY <3>1, <2>0, <2>1, <2>4 DEF Shape
  <2>7. ASSUME NEW u \in Tabs PROVE PageInv(u)'
    <3>0. PageInv(u) BY DEF ChamberInv
    <3>1. CASE u # t
      BY <3>0, <3>1, <2>1, <2>4 DEF PageInv, Copied, Shown, ShownFor, Stored, GradedRight,
          Boxed, Entered, OnTime
    <3>2. CASE u = t
      <4>1. Copied(t)' /\ Entered(t)'
        BY <2>0, <2>1, <2>5 DEF PageInv, Copied, Entered
      <4>2. Shown(t)' /\ Boxed(t)'
        BY <2>1, <2>5 DEF Shown, Boxed, box, stop
      <4>3. OnTime(t)'
        <5> DEFINE k == tab[t].active
        <5>2. k \in AllTests
          BY <2>0, <2>1 DEF PageInv, Copied, Shape
        <5>3. toDue[k] \in Int /\ Info[k].limit \in Nat
          BY <5>2, <2>0, TestAssumption DEF Shape, AllTests
        <5>4. /\ tab[t].left \in Nat \ {0} /\ tab[t].elapsed \in Nat
              /\ tab[t].left + tab[t].elapsed >= Info[k].limit + 1
              /\ \/ tab[t].paused \/ tab[t].missed
                 \/ tab[t].left + tab[t].elapsed = Info[k].limit + 1
          BY <2>0, <2>1 DEF PageInv, OnTime
        <5>5. stop \/ toDue[k] >= 0
          BY <5>3 DEF stop, late, IsDeadlineExpired
        <5>6. tab[t].paused => stop
          BY DEF stop
        <5>7. /\ tab[t].left - 1 \in Nat \ {0}
              /\ tab[t].left - 1 + tab[t].elapsed >= Info[k].limit + 0
              /\ \/ stop \/ tab[t].missed
                 \/ tab[t].left - 1 + tab[t].elapsed = Info[k].limit + 0
          BY <5>3, <5>4, <5>6, <1>2
        <5>8. stop \/ toDue[k] >= -0
          BY <5>3, <5>5
        <5> QED BY <5>4, <5>7, <5>8, <2>1, <2>5 DEF OnTime
      <4> QED BY <3>2, <4>1, <4>2, <4>3 DEF PageInv
    <3> QED BY <3>1, <3>2
  <2> QED BY <2>1, <2>6, <2>7, LedgerKept DEF ChamberInv
<1> QED BY <1>1, <1>2

\* A second passes: a tick is due, or one that was due is missed.
LEMMA SecondStep ==
  ASSUME ChamberInv, Second
  PROVE  ChamberInv'
<1>0. Shape BY DEF ChamberInv
<1>1. /\ tests' = tests /\ subs' = subs /\ DOMAIN toDue' = AllTests
      /\ \A k \in AllTests : toDue'[k] \in Int /\ toDue'[k] >= toDue[k] - 1
  <2>1. tests' = tests /\ subs' = subs /\ DOMAIN toDue' = AllTests
    BY DEF Second
  <2>2. ASSUME NEW k \in AllTests PROVE toDue'[k] \in Int /\ toDue'[k] >= toDue[k] - 1
    <3>1. toDue[k] \in Int /\ toDue'[k] \in {toDue[k] - 1, toDue[k]}
      BY <1>0 DEF Second, Shape
    <3> QED BY <3>1
  <2> QED BY <2>1, <2>2
<1>2. /\ DOMAIN tab' = Tabs
      /\ \A u \in Tabs : tab[u].view # "testing" => tab'[u] = tab[u]
  BY DEF Second
<1>3. ASSUME NEW u \in Tabs, tab[u].view = "testing"
      PROVE  /\ DOMAIN tab'[u] = Fields
             /\ tab'[u].view = "testing" /\ tab'[u].active = tab[u].active
             /\ tab'[u].kind = tab[u].kind /\ tab'[u].fresh = tab[u].fresh
             /\ tab'[u].roster = tab[u].roster /\ tab'[u].mine = tab[u].mine
             /\ tab'[u].left = tab[u].left
             /\ tab'[u].gap = (IF tab[u].gap > 1 THEN tab[u].gap ELSE tab[u].gap + 1)
             /\ tab'[u].missed = (tab[u].missed \/ tab[u].gap > 0)
             /\ tab'[u].dialog = tab[u].dialog /\ tab'[u].paused = tab[u].paused
             /\ tab'[u].elapsed = IF tab[u].elapsed > Info[tab[u].active].limit
                                  THEN tab[u].elapsed ELSE tab[u].elapsed + 1
  <2> DEFINE more == IF tab[u].elapsed > Info[tab[u].active].limit
                     THEN tab[u].elapsed ELSE tab[u].elapsed + 1
                wait == IF tab[u].gap > 1 THEN tab[u].gap ELSE tab[u].gap + 1
                miss == tab[u].missed \/ tab[u].gap > 0
  <2>1. tab'[u] = [tab[u] EXCEPT !.gap = wait, !.missed = miss, !.elapsed = more]
    BY <1>3 DEF Second
  <2> HIDE DEF more, wait, miss
  <2>2. /\ DOMAIN tab'[u] = Fields
        /\ tab'[u].view = tab[u].view /\ tab'[u].active = tab[u].active
        /\ tab'[u].kind = tab[u].kind /\ tab'[u].fresh = tab[u].fresh
        /\ tab'[u].roster = tab[u].roster /\ tab'[u].mine = tab[u].mine
        /\ tab'[u].left = tab[u].left /\ tab'[u].gap = wait /\ tab'[u].missed = miss
        /\ tab'[u].dialog = tab[u].dialog /\ tab'[u].paused = tab[u].paused
        /\ tab'[u].elapsed = more
    BY <2>1, <1>0 DEF Shape, Fields
  <2> QED BY <2>2, <1>3 DEF more, wait, miss
<1>4. Shape'
  <2>1. ASSUME NEW u \in Tabs
        PROVE  /\ DOMAIN tab'[u] = Fields
               /\ tab'[u].paused \in BOOLEAN /\ tab'[u].missed \in BOOLEAN
               /\ tab'[u].gap \in {0, 1, 2}
    <3>1. CASE tab[u].view # "testing" BY <3>1, <1>0, <1>2 DEF Shape
    <3>2. CASE tab[u].view = "testing"
      <4>1. tab'[u].gap \in {0, 1, 2}
        <5>1. tab[u].gap \in {0, 1, 2} BY <1>0 DEF Shape
        <5>2. tab'[u].gap = IF tab[u].gap > 1 THEN tab[u].gap ELSE tab[u].gap + 1
          BY <3>2, <1>3
        <5> QED BY <5>1, <5>2
      <4>2. tab'[u].missed \in BOOLEAN BY <3>2, <1>3
      <4>3. DOMAIN tab'[u] = Fields /\ tab'[u].paused \in BOOLEAN
        BY <3>2, <1>0, <1>3 DEF Shape
      <4> QED BY <4>1, <4>2, <4>3
    <3> QED BY <3>1, <3>2
  <2> QED BY <2>1, <1>0, <1>1, <1>2 DEF Shape
<1>5. ASSUME NEW u \in Tabs PROVE PageInv(u)'
  <2>0. PageInv(u) BY DEF ChamberInv
  <2>1. CASE tab[u].view # "testing"
    BY <2>0, <2>1, <1>1, <1>2 DEF PageInv, Copied, Shown, ShownFor, Stored, GradedRight,
        Boxed, Entered, OnTime
  <2>2. CASE tab[u].view = "testing"
    <3>1. Copied(u)' /\ Shown(u)' /\ Boxed(u)' /\ Entered(u)'
      <4>1. Copied(u)'
        BY <2>0, <2>2, <1>1, <1>3 DEF PageInv, Copied
      <4>2. Shown(u)' /\ Boxed(u)'
        BY <2>0, <2>2, <1>3 DEF PageInv, Shown, Boxed
      <4>3. Entered(u)'
        BY <2>0, <2>2, <1>1, <1>3 DEF PageInv, Entered
      <4> QED BY <4>1, <4>2, <4>3
    <3>2. OnTime(u)'
      <4> DEFINE k == tab[u].active
      <4>1. k \in AllTests
        BY <2>0, <2>2, <1>0 DEF PageInv, Copied, Shape
      <4>2. toDue[k] \in Int /\ Info[k].limit \in Nat /\ toDue'[k] \in Int
            /\ toDue'[k] >= toDue[k] - 1
        BY <4>1, <1>0, <1>1, TestAssumption DEF Shape, AllTests
      <4>3. tab[u].gap \in {0, 1, 2} BY <1>0 DEF Shape
      <4>4. /\ tab[u].left \in Nat \ {0} /\ tab[u].elapsed \in Nat
            /\ tab[u].left + tab[u].elapsed
                 >= Info[k].limit + (IF tab[u].gap > 0 THEN 1 ELSE 0)
            /\ \/ tab[u].paused \/ tab[u].missed
               \/ tab[u].left + tab[u].elapsed
                    = Info[k].limit + (IF tab[u].gap > 0 THEN 1 ELSE 0)
            /\ tab[u].paused \/ tab[u].gap = 2 \/ toDue[k] >= -tab[u].gap
        BY <2>0, <2>2 DEF PageInv, OnTime
      <4>5. /\ tab'[u].view = "testing" /\ tab'[u].active = k
            /\ tab'[u].left = tab[u].left /\ tab'[u].paused = tab[u].paused
            /\ tab'[u].gap = (IF tab[u].gap > 1 THEN tab[u].gap ELSE tab[u].gap + 1)
            /\ tab'[u].missed = (tab[u].missed \/ tab[u].gap > 0)
            /\ tab'[u].elapsed = (IF tab[u].elapsed > Info[k].limit
                                  THEN tab[u].elapsed ELSE tab[u].elapsed + 1)
        BY <2>2, <1>3
      <4> HIDE DEF k
      <4>6. tab'[u].elapsed \in Nat /\ tab[u].left + tab'[u].elapsed >= Info[k].limit + 1
        BY <4>2, <4>4, <4>5
      <4>7. \/ tab[u].paused \/ tab'[u].missed
            \/ tab[u].left + tab'[u].elapsed = Info[k].limit + 1
        <5>1. CASE tab[u].gap = 0
          <6>1. CASE tab[u].left + tab[u].elapsed = Info[k].limit
            <7>1. ~(tab[u].elapsed > Info[k].limit) BY <4>2, <4>4, <6>1
            <7> QED BY <4>2, <4>4, <4>5, <6>1, <7>1
          <6>2. CASE ~(tab[u].left + tab[u].elapsed = Info[k].limit)
            <7>1. tab[u].paused \/ tab[u].missed BY <4>2, <4>4, <5>1, <6>2
            <7> QED BY <4>5, <7>1
          <6> QED BY <6>1, <6>2
        <5>2. CASE tab[u].gap # 0
          <6>1. tab[u].gap > 0 BY <4>3, <5>2
          <6> QED BY <4>5, <6>1
        <5> QED BY <5>1, <5>2
      <4>8. tab[u].paused \/ tab'[u].gap = 2 \/ toDue'[k] >= -tab'[u].gap
        <5>1. CASE tab[u].gap = 0 BY <4>2, <4>4, <4>5, <5>1
        <5>2. CASE tab[u].gap # 0
          <6>1. tab'[u].gap = 2 BY <4>3, <4>5, <5>2
          <6> QED BY <6>1
        <5> QED BY <5>1, <5>2
      <4>9. tab'[u].gap > 0 BY <4>3, <4>5
      <4> QED BY <4>4, <4>5, <4>6, <4>7, <4>8, <4>9 DEF OnTime
    <3> QED BY <3>1, <3>2 DEF PageInv
  <2> QED BY <2>1, <2>2
<1> QED BY <1>0, <1>1, <1>4, <1>5, LedgerKept DEF ChamberInv

\* A new test is published: no page knows it yet.
LEMMA PublishStep ==
  ASSUME ChamberInv, NEW k \in PublishedTests, PublishAssessment(k)
  PROVE  ChamberInv'
<1>0. Shape BY DEF ChamberInv
<1>1. /\ k \notin tests /\ k \in AllTests /\ tests' = tests \cup {k}
      /\ subs' = subs /\ tab' = tab
      /\ toDue' = [toDue EXCEPT ![k] = Info[k].deadline]
  BY DEF PublishAssessment, AllTests
<1>2. Info[k].deadline \in Int
  BY <1>1, TestAssumption DEF AllTests
<1>3. Shape'
  BY <1>0, <1>1, <1>2 DEF Shape
<1>4. ASSUME NEW u \in Tabs PROVE PageInv(u)'
  <2>0. PageInv(u) BY DEF ChamberInv
  <2>1. Copied(u)' /\ Shown(u)' /\ Boxed(u)' /\ Entered(u)'
    BY <2>0, <1>1 DEF PageInv, Copied, Shown, ShownFor, Stored, GradedRight, Boxed, Entered
  <2>2. tab[u].view = "testing" => tab[u].active # k /\ tab[u].active \in AllTests
    BY <2>0, <1>0, <1>1 DEF PageInv, Copied, Shape
  <2>3. tab[u].view = "testing" => toDue'[tab[u].active] = toDue[tab[u].active]
    BY <2>2, <1>0, <1>1 DEF Shape
  <2>4. OnTime(u)'
    BY <2>0, <2>3, <1>1 DEF PageInv, OnTime
  <2> QED BY <2>1, <2>4 DEF PageInv
<1> QED BY <1>1, <1>3, <1>4, LedgerKept DEF ChamberInv

\* An earlier submission is shown again, out of the copy of the page.
LEMMA ReviewStep ==
  ASSUME ChamberInv, NEW t \in Tabs, NEW k \in AllTests, HandleReviewSubmission(t, k)
  PROVE  ChamberInv'
<1>0. Shape /\ PageInv(t) BY DEF ChamberInv
<1>1. k \in tests /\ tab[t].dialog = None
  BY <1>0 DEF HandleReviewSubmission, DisplayedTests, Responsive, PageInv, Copied
<1>2. PICK i \in PastSubmission(t, k) :
        tab' = [tab EXCEPT ![t].view = "results", ![t].active = k,
                  ![t].latest = <<tab[t].mine[i]>>]
  BY DEF HandleReviewSubmission
<1>3. tests' = tests /\ subs' = subs /\ toDue' = toDue
  BY DEF HandleReviewSubmission
<1>4. PICK j \in DOMAIN subs : subs[j] = tab[t].mine[i] /\ subs[j].test = k
  BY <1>0 DEF PastSubmission, Positions, PageInv, Copied
<1>5. /\ DOMAIN tab' = Tabs
      /\ \A u \in Tabs : u # t => tab'[u] = tab[u]
      /\ tab'[t] = [tab[t] EXCEPT !.view = "results", !.active = k,
                      !.latest = <<tab[t].mine[i]>>]
  BY <1>0, <1>2 DEF Shape
<1>6. /\ DOMAIN tab'[t] = Fields
      /\ tab'[t].view = "results" /\ tab'[t].active = k
      /\ tab'[t].latest = <<tab[t].mine[i]>>
      /\ tab'[t].roster = tab[t].roster /\ tab'[t].mine = tab[t].mine
      /\ tab'[t].dialog = tab[t].dialog
      /\ tab'[t].paused = tab[t].paused /\ tab'[t].missed = tab[t].missed
      /\ tab'[t].gap = tab[t].gap
  BY <1>0, <1>5 DEF Shape, Fields
<1>7. Shape'
  <2>1. ASSUME NEW u \in Tabs
        PROVE  /\ DOMAIN tab'[u] = Fields
               /\ tab'[u].paused \in BOOLEAN /\ tab'[u].missed \in BOOLEAN
               /\ tab'[u].gap \in {0, 1, 2}
    BY <1>0, <1>5, <1>6 DEF Shape
  <2> QED BY <2>1, <1>0, <1>3, <1>5 DEF Shape
<1>8. ASSUME NEW u \in Tabs PROVE PageInv(u)'
  <2>0. PageInv(u) BY DEF ChamberInv
  <2>1. CASE u # t
    BY <2>0, <2>1, <1>3, <1>5 DEF PageInv, Copied, Shown, ShownFor, Stored, GradedRight,
        Boxed, Entered, OnTime
  <2>2. CASE u = t
    <3>1. Copied(t)'
      BY <1>0, <1>1, <1>3, <1>6 DEF PageInv, Copied
    <3>a. Shown(t)'
      <4>0. PICK s : s = subs[j] OBVIOUS
      <4>1. Stored(s) /\ GradedRight(s) /\ s.test = k
        BY <4>0, <1>4 DEF Stored, ChamberInv, Ledger, Graded
      <4>2. Stored(s)' BY <4>1, <1>3 DEF Stored
      <4>3. tab'[t].latest = <<s>> /\ tab'[t].active = k
        BY <4>0, <1>4, <1>6
      <4>4. ShownFor(s, tab[t].active)'
        BY <4>1, <4>2, <4>3 DEF ShownFor, GradedRight
      <4> QED BY <4>3, <4>4 DEF Shown
    <3>2. Boxed(t)' /\ Entered(t)' /\ OnTime(t)'
      BY <1>1, <1>6 DEF Boxed, Entered, OnTime
    <3> QED BY <2>2, <3>1, <3>a, <3>2 DEF PageInv
  <2> QED BY <2>1, <2>2
<1> QED BY <1>3, <1>7, <1>8, LedgerKept DEF ChamberInv

\* The tests already stored, no submission, and every page at its roster.
LEMMA ChamberInit ==
  ASSUME Init
  PROVE  ChamberInv
<1>0. PICK n \in Students :
        subs = IF n \in DOMAIN SeedSubmissions THEN <<SeedSubmissions[n]>> ELSE <<>>
  BY DEF Init
<1>1. IsList(subs) /\ \A i \in DOMAIN subs : /\ i = 1 /\ n \in DOMAIN SeedSubmissions
                                              /\ subs[i] = SeedSubmissions[n]
  <2>1. CASE n \in DOMAIN SeedSubmissions
    <3> DEFINE x == SeedSubmissions[n]
               S == {subs[i] : i \in DOMAIN subs}
    <3>1. subs = <<x>> BY <1>0, <2>1
    <3> HIDE DEF x
    <3>2. subs[1] = x /\ DOMAIN subs = {1} BY <3>1
    <3>3. x \in S BY <3>2
    <3> HIDE DEF S
    <3>4. subs \in Seq(S) BY <3>1, <3>3
    <3> QED BY <3>2, <3>4, <2>1 DEF x, S, IsList
  <2>2. CASE n \notin DOMAIN SeedSubmissions
    <3> DEFINE S == {subs[i] : i \in DOMAIN subs}
    <3>1. subs = <<>> BY <1>0, <2>2
    <3> HIDE DEF S
    <3>2. subs \in Seq(S) /\ Len(subs) = 0 /\ DOMAIN subs = 1 .. Len(subs) BY <3>1
    <3>3. DOMAIN subs = {} BY <3>2
    <3> QED BY <3>2, <3>3 DEF S, IsList
  <2> QED BY <2>1, <2>2
<1>2. Shape
  <2>1. \A k \in AllTests : Info[k].deadline \in Int
    BY TestAssumption DEF AllTests
  <2> QED BY <1>1, <2>1 DEF Init, Shape, Blank, Fields, AllTests
<1>3. ASSUME NEW t \in Tabs PROVE PageInv(t)
  BY DEF Init, Blank, GetAssignedAssessments, PageInv, Copied, Shown, Boxed, Entered, OnTime
<1>4. Ledger
  <2>1. \A m \in DOMAIN SeedSubmissions :
           SeedSubmissions[m].cause = "seed" /\ SeedSubmissions[m].lost = FALSE
    <3>1. \A m \in {"alex", "mia", "lucas", "chloe"} :
             SeedSubmissions[m].cause = "seed" /\ SeedSubmissions[m].lost = FALSE
      <4>1. SeedSubmissions["alex"].cause = "seed" /\ SeedSubmissions["alex"].lost = FALSE
        BY Zenon DEF SeedSubmissions
      <4>2. SeedSubmissions["mia"].cause = "seed" /\ SeedSubmissions["mia"].lost = FALSE
        BY Zenon DEF SeedSubmissions
      <4>3. SeedSubmissions["lucas"].cause = "seed" /\ SeedSubmissions["lucas"].lost = FALSE
        BY Zenon DEF SeedSubmissions
      <4>4. SeedSubmissions["chloe"].cause = "seed" /\ SeedSubmissions["chloe"].lost = FALSE
        BY Zenon DEF SeedSubmissions
      <4> QED BY <4>1, <4>2, <4>3, <4>4
    <3>2. DOMAIN SeedSubmissions = {"alex", "mia", "lucas", "chloe"}
      BY Zenon DEF SeedSubmissions
    <3> QED BY <3>1, <3>2
  <2>2. \A i \in DOMAIN subs : i = 1 /\ subs[i].cause = "seed" /\ subs[i].lost = FALSE
    BY <1>1, <2>1, Zenon
  <2> QED BY <2>2 DEF Ledger, Graded, GradedRight, AnswersArrive, RepeatExplained
<1> QED BY <1>2, <1>3, <1>4 DEF ChamberInv

\* The steps of a page that store nothing and begin nothing.
LEMMA PageStep ==
  ASSUME ChamberInv, NEW t \in Tabs,
         \/ Mount(t)
         \/ \E y \in YearChoices[t] : HandleYearLevelChange(t, y)
         \/ \E i \in 0 .. MaxQuestions - 1 : Navigate(t, i)
         \/ \E o \in Given[t] : HandleSelectOption(t, o)
         \/ AskExit(t)
         \/ \E yes \in BOOLEAN : AnswerExit(t, yes)
         \/ BackToRoster(t)
  PROVE  ChamberInv'
<1> DEFINE p == tab[t]
           Sets(x) == tab' = [tab EXCEPT ![t] = x]
<1>0. Shape /\ PageInv(t) BY DEF ChamberInv
<1>1. ASSUME NEW x, Sets(x), UNCHANGED <<tests, subs, toDue>>, tab'[t] = x => Calm(t)
      PROVE  ChamberInv'
  <2>1. DOMAIN tab' = Tabs /\ tab'[t] = x
    BY <1>0, <1>1 DEF Shape
  <2>2. ASSUME NEW u \in Tabs, u # t PROVE Calm(u)
    <3>1. tab'[u] = tab[u] BY <1>0, <1>1, <2>2 DEF Shape
    <3> QED BY <3>1, <1>0 DEF Calm, Shape
  <2> QED BY <1>1, <2>1, <2>2, CalmStep
<1>2. CASE Mount(t)
  <2>1. Sets(Blank) /\ UNCHANGED <<tests, subs, toDue>>
    BY <1>2 DEF Mount
  <2>2. tab'[t] = Blank => Calm(t)
    BY <1>2 DEF Calm, Blank, GetAssignedAssessments, Fields
  <2> QED BY <1>1, <2>1, <2>2
<1>3. CASE \E y \in YearChoices[t] : HandleYearLevelChange(t, y)
  <2> PICK y \in YearChoices[t] : HandleYearLevelChange(t, y) BY <1>3
  <2> DEFINE x == [p EXCEPT !.year = y, !.roster = tests, !.mine = subs]
             z == [p EXCEPT !.year = y]
  <2>1. (Sets(x) \/ Sets(z)) /\ UNCHANGED <<tests, subs, toDue>>
    BY <1>0 DEF HandleYearLevelChange, GetAssignedAssessments, Shape
  <2>2. tab'[t] = x => Calm(t)
    BY <1>0 DEF Calm, Shape, Fields
  <2>3. tab'[t] = z => Calm(t)
    BY <1>0 DEF Calm, Shape, Fields
  <2>4. CASE Sets(x) BY <1>1, <2>1, <2>2, <2>4
  <2>5. CASE Sets(z) BY <1>1, <2>1, <2>3, <2>5
  <2> QED BY <2>1, <2>4, <2>5
<1>4. CASE \E i \in 0 .. MaxQuestions - 1 : Navigate(t, i)
  <2> PICK i \in 0 .. MaxQuestions - 1 : Navigate(t, i) BY <1>4
  <2> DEFINE x == [p EXCEPT !.qIndex = i]
  <2>1. Sets(x) /\ UNCHANGED <<tests, subs, toDue>>
    BY <1>0 DEF Navigate, Shape
  <2>2. tab'[t] = x => Calm(t)
    BY <1>0 DEF Calm, Shape, Fields
  <2> QED BY <1>1, <2>1, <2>2
<1>5. CASE \E o \in Given[t] : HandleSelectOption(t, o)
  <2> PICK o \in Given[t] : HandleSelectOption(t, o) BY <1>5
  <2> DEFINE x == [p EXCEPT !.answers[p.qIndex + 1] = o]
  <2>1. Sets(x) /\ UNCHANGED <<tests, subs, toDue>>
    BY <1>0 DEF HandleSelectOption, Shape
  <2>2. tab'[t] = x => Calm(t)
    BY <1>0 DEF Calm, Shape, Fields
  <2> QED BY <1>1, <2>1, <2>2
<1>6. CASE AskExit(t)
  <2> DEFINE x == [p EXCEPT !.dialog = "exit", !.paused = TRUE]
  <2>1. Sets(x) /\ UNCHANGED <<tests, subs, toDue>> /\ p.view = "testing"
    BY <1>0, <1>6 DEF AskExit, Shape
  <2>2. tab'[t] = x => Calm(t)
    BY <1>0, <2>1 DEF Calm, Shape, Fields
  <2> QED BY <1>1, <2>1, <2>2
<1>7. tab'[t] = Ended(p) => Calm(t)
  BY <1>0 DEF Calm, Ended, Shape, Fields
<1>8. CASE \E yes \in BOOLEAN : AnswerExit(t, yes)
  <2> DEFINE x == [p EXCEPT !.dialog = None]
  <2>1. (Sets(Ended(p)) \/ Sets(x)) /\ UNCHANGED <<tests, subs, toDue>> /\ p.dialog = "exit"
    BY <1>0, <1>8 DEF AnswerExit, Shape
  <2>2. p.paused BY <1>0, <2>1 DEF PageInv, Boxed, None
  <2>3. tab'[t] = x => Calm(t)
    <3> SUFFICES ASSUME tab'[t] = x PROVE Calm(t) OBVIOUS
    <3>1. /\ DOMAIN tab'[t] = Fields /\ tab'[t].dialog = None
          /\ tab'[t].paused = p.paused /\ tab'[t].missed = p.missed
          /\ tab'[t].gap = p.gap /\ tab'[t].left = p.left /\ tab'[t].elapsed = p.elapsed
          /\ tab'[t].roster = p.roster /\ tab'[t].mine = p.mine
          /\ tab'[t].view = p.view /\ tab'[t].active = p.active
          /\ tab'[t].kind = p.kind /\ tab'[t].fresh = p.fresh
          /\ tab'[t].latest = p.latest
      BY <1>0 DEF Shape, Fields
    <3> QED BY <3>1, <2>2, <1>0 DEF Calm, Shape
  <2>4. CASE Sets(x) BY <1>1, <2>1, <2>3, <2>4
  <2>5. CASE Sets(Ended(p)) BY <1>1, <1>7, <2>1, <2>5
  <2> QED BY <2>1, <2>4, <2>5
<1>9. CASE BackToRoster(t)
  <2>1. Sets(Ended(p)) /\ UNCHANGED <<tests, subs, toDue>>
    BY <1>9 DEF BackToRoster
  <2> QED BY <1>1, <1>7, <2>1
<1> QED BY <1>2, <1>3, <1>4, <1>5, <1>6, <1>8, <1>9

\* Every step keeps the invariant.
LEMMA ChamberStep ==
  ASSUME ChamberInv, [Next]_vars
  PROVE  ChamberInv'
<1>1. CASE \E k \in PublishedTests : PublishAssessment(k)
  BY <1>1, PublishStep
<1>2. CASE Second
  BY <1>2, SecondStep
<1>3. ASSUME NEW t \in Tabs, NEW k \in AllTests, HandleEnterTest(t, k)
      PROVE  ChamberInv'
  <2>1. k \in tests
    BY <1>3 DEF HandleEnterTest, DisplayedTests, ChamberInv, PageInv, Copied
  <2>2. /\ Begin(t, k, "entered") /\ tab[t].dialog = None /\ ~IsDeadlineExpired(k)
        /\ SubmissionsStored(k) = {}
    BY <1>3 DEF HandleEnterTest, Responsive, SubmissionsFor
  <2> QED BY <2>1, <2>2, BeginStep
<1>4. ASSUME NEW t \in Tabs, Retake(t) PROVE ChamberInv'
  <2>1. tab[t].active \in tests
    BY <1>4 DEF Retake, ChamberInv, PageInv, Copied
  <2>2. PICK k \in tests : k = tab[t].active
    BY <2>1
  <2>3. Begin(t, k, "retake") /\ tab[t].dialog = None /\ ~IsDeadlineExpired(k)
    BY <1>4, <2>2 DEF Retake, Responsive
  <2> QED BY <2>3, BeginStep
<1>5. ASSUME NEW t \in Tabs, FinishButton(t) \/ DeadlineAlertDismissed(t)
      PROVE  ChamberInv'
  <2>1. tab[t].view = "testing"
    BY <1>5 DEF FinishButton, DeadlineAlertDismissed, ChamberInv, PageInv, Boxed, None
  <2>2. PICK given, cause : /\ given = tab[t].answers
                            /\ HandleFinishAndSubmit(t, given, cause)
    BY <1>5 DEF FinishButton, DeadlineAlertDismissed
  <2> QED BY <2>1, <2>2, SubmitStep
<1>6. ASSUME NEW t \in Tabs, NEW k \in AllTests, HandleReviewSubmission(t, k)
      PROVE  ChamberInv'
  BY <1>6, ReviewStep
<1>7. ASSUME NEW t \in Tabs, Tick(t) PROVE ChamberInv'
  BY <1>7, TickStep
<1>8. ASSUME NEW t \in Tabs,
             \/ Mount(t)
             \/ \E y \in YearChoices[t] : HandleYearLevelChange(t, y)
             \/ \E i \in 0 .. MaxQuestions - 1 : Navigate(t, i)
             \/ \E o \in Given[t] : HandleSelectOption(t, o)
             \/ AskExit(t)
             \/ \E yes \in BOOLEAN : AnswerExit(t, yes)
             \/ BackToRoster(t)
      PROVE  ChamberInv'
  BY <1>8, PageStep
<1>9. CASE UNCHANGED vars
  <2>1. \A u \in Tabs : Calm(u)
    BY <1>9 DEF vars, Calm, ChamberInv, Shape
  <2> QED BY <1>9, <2>1, CalmStep DEF vars, ChamberInv, Shape
<1> QED BY <1>1, <1>2, <1>3, <1>4, <1>5, <1>6, <1>7, <1>8, <1>9 DEF Next

\* The invariant holds in every behaviour.
LEMMA ChamberKept == Spec => []ChamberInv
<1>1. Init => ChamberInv
  BY ChamberInit
<1>2. ChamberInv /\ [Next]_vars => ChamberInv'
  BY ChamberStep
<1> QED BY <1>1, <1>2, PTL DEF Spec

\* In every behaviour the results view shows a submission that is stored, unless
\* submitTest's write failed, and the percentage on it, unless it is a seed's, is
\* the one the review of its answers computes: handleFinishAndSubmit and
\* handleReviewSubmission never show a test that another tab's save has removed.
THEOREM ResultsAreRecorded == Spec => []ResultsRecorded
<1>1. ChamberInv => ResultsRecorded
  <2> SUFFICES ASSUME ChamberInv, NEW t \in Tabs, tab[t].view = "results"
               PROVE  /\ \/ ~tab[t].latest[1].kept
                         \/ \E i \in DOMAIN subs : <<subs[i]>> = tab[t].latest
                      /\ \/ tab[t].latest[1].cause = "seed"
                         \/ tab[t].latest[1].percentage
                              = Percentage[tab[t].active][ReviewCorrect(t)]
    BY DEF ResultsRecorded
  <2>1. PICK s : tab[t].latest = <<s>> /\ ShownFor(s, tab[t].active)
    BY DEF ChamberInv, PageInv, Shown
  <2>2. tab[t].latest[1] = s
    BY <2>1
  <2>3. ~s.kept \/ \E i \in DOMAIN subs : <<subs[i]>> = tab[t].latest
    BY <2>1 DEF ShownFor, Stored
  <2>4. s.cause = "seed" \/ s.percentage = Percentage[tab[t].active][ReviewCorrect(t)]
    BY <2>1, <2>2 DEF ShownFor, GradedRight, ReviewCorrect
  <2> QED BY <2>2, <2>3, <2>4
<1> QED BY <1>1, ChamberKept, PTL

\* In every behaviour an answer on the screen is missing from a submission
\* only when the countdown's closure of the last tick submitted it.
THEOREM AnswersArriveUnlessTimedOut == Spec => []AnswersArrive
<1>1. ChamberInv => AnswersArrive
  BY DEF ChamberInv, Ledger
<1> QED BY <1>1, ChamberKept, PTL

\* In every behaviour the countdown's interval, however late its ticks, never
\* submits before the limit, a test is sat past the limit only if a box was open
\* or a tick was missed, and more than a second past the deadline only past a box
\* or while no tick has run for longer than that.
THEOREM TimeIsKept == Spec => []TimeKept
<1>1. ChamberInv => TimeKept
  <2> SUFFICES ASSUME ChamberInv, NEW t \in Tabs, tab[t].view = "testing"
               PROVE  LET limit == Info[tab[t].active].limit
                      IN  /\ tab[t].left = 1 /\ tab[t].gap > 0 => tab[t].elapsed >= limit
                          /\ tab[t].elapsed > limit => tab[t].paused \/ tab[t].missed
                          /\ toDue[tab[t].active] < -1 => tab[t].paused \/ tab[t].gap > 1
    BY DEF TimeKept
  <2>0. Shape /\ Copied(t) /\ OnTime(t) BY DEF ChamberInv, PageInv
  <2> DEFINE k == tab[t].active
  <2>1. k \in AllTests
    BY <2>0 DEF Copied, Shape
  <2>2. toDue[k] \in Int /\ Info[k].limit \in Nat /\ tab[t].gap \in {0, 1, 2}
    BY <2>0, <2>1, TestAssumption DEF Shape, AllTests
  <2>3. /\ tab[t].left \in Nat \ {0} /\ tab[t].elapsed \in Nat
        /\ tab[t].left + tab[t].elapsed >= Info[k].limit + (IF tab[t].gap > 0 THEN 1 ELSE 0)
        /\ \/ tab[t].paused \/ tab[t].missed
           \/ tab[t].left + tab[t].elapsed = Info[k].limit + (IF tab[t].gap > 0 THEN 1 ELSE 0)
        /\ tab[t].paused \/ tab[t].gap = 2 \/ toDue[k] >= -tab[t].gap
    BY <2>0 DEF OnTime
  <2> HIDE DEF k
  <2>4. tab[t].left = 1 /\ tab[t].gap > 0 => tab[t].elapsed >= Info[k].limit
    BY <2>2, <2>3
  <2>5. tab[t].elapsed > Info[k].limit => tab[t].paused \/ tab[t].missed
    <3>1. ~(tab[t].left + tab[t].elapsed = Info[k].limit + (IF tab[t].gap > 0 THEN 1 ELSE 0))
             \/ ~(tab[t].elapsed > Info[k].limit)
      BY <2>2, <2>3
    <3> QED BY <2>3, <3>1, Zenon
  <2>6. toDue[k] < -1 => tab[t].paused \/ tab[t].gap > 1
    <3>1. ~(toDue[k] < -1) \/ ~(toDue[k] >= -tab[t].gap) \/ tab[t].gap > 1
      BY <2>2
    <3>2. tab[t].gap = 2 => tab[t].gap > 1 BY <2>2
    <3> QED BY <2>3, <3>1, <3>2, Zenon
  <2> QED BY <2>4, <2>5, <2>6 DEF k
<1> QED BY <1>1, ChamberKept, PTL

\* In every behaviour a test is submitted twice only through the Retake button
\* or through a second tab that entered it before the first one submitted.
THEOREM RepeatsAreExplained == Spec => []RepeatExplained
<1>1. ChamberInv => RepeatExplained
  BY DEF ChamberInv, Ledger
<1> QED BY <1>1, ChamberKept, PTL
=============================================================================
