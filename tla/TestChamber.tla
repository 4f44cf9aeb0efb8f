----------------------------- MODULE TestChamber -----------------------------
(***************************************************************************)
(* The student's test environment (StudentTestEnvironmentPage.tsx) over    *)
(* the assignment service (assessmentAssignmentService.ts).  The service   *)
(* keeps the published tests, the submissions and the enrolled year in the *)
(* browser's local storage.  Its events reach only the window that saved,  *)
(* so every tab works on a copy it read earlier.                           *)
(*                                                                         *)
(* One unit of time is the second of the page's countdown.  Time is kept   *)
(* relative (seconds to a deadline, seconds of an attempt) and saturates   *)
(* where nothing tells later moments apart.  The countdown may be late by  *)
(* any time: its interval starts anew after each tick, so that delays add  *)
(* up, a hidden tab is throttled, and a sleeping device has no ticks.      *)
(***************************************************************************)
EXTENDS Integers, Sequences, Functions

CONSTANTS
  Tabs,          \* tabs in which the page is open, all of one student
  Students,      \* who may use the browser: a student of a seed, or another
  SeedTests,     \* the seeds an instance keeps
  PublishedTests,\* tests a teacher's tab may publish
  PublishedInfo, \* what those say: grade, deadline, limit, answer key, marks
  Horizon,       \* seconds to the deadlines of the seeds, unless they passed
  YearChoices,   \* per tab, the years chosen in the selector
  Options,       \* what a question can be answered with
  Given,         \* per tab, the options the student chooses there
  MaxAttempts    \* bound: attempts started in this browser

None == "none"
LongPast == -2      \* later moments are not told apart
MaxQuestions == 10  \* bound of the teacher's form
Years == {"Prep", "Year 1", "Year 2", "Year 3", "Year 4", "Year 5"}

\* The tests the service stores when it finds none: one per class shown, with
\* the marks of its questions, and one whose deadline passed yesterday.
SeedInfo ==
  LET Seed(grade, deadline, marks) ==
        [grade |-> grade, deadline |-> deadline, limit |-> 2, marks |-> marks,
         key |-> [q \in DOMAIN marks |-> "right"]]
  IN  [fractions |-> Seed("Year 3", Horizon, <<2, 2, 3, 3>>),
       science   |-> Seed("Year 4", Horizon, <<3, 3, 4>>),
       phonics   |-> Seed("Prep", Horizon, <<2, 2, 2>>),
       expired   |-> Seed("Year 3", LongPast, <<5>>)]

\* The submissions the service stores when it finds none, one per student, with
\* the recorded percentages: two of them are not what the answers score.
SeedSubmissions ==
  LET Seed(k, year, answers, pct, band) ==
        [test |-> k, answers |-> answers, year |-> year, percentage |-> pct, band |-> band,
         cause |-> "seed", tab |-> None, kind |-> "seed", fresh |-> FALSE,
         lost |-> FALSE, kept |-> TRUE]
  IN  [alex  |-> Seed("fractions", "Year 3", <<"right", "right", "right", "wrong">>, 80, "B"),
       mia   |-> Seed("science", "Year 4", <<"right", "right", "right">>, 100, "A"),
       lucas |-> Seed("fractions", "Year 3", <<"right", "wrong", "right", "wrong">>, 60, "C"),
       chloe |-> Seed("phonics", "Prep", <<"right", "right", "right">>, 100, "A")]

Info == [k \in SeedTests \cup PublishedTests |->
           IF k \in SeedTests THEN SeedInfo[k] ELSE PublishedInfo[k]]

ASSUME TestAssumption ==
  /\ \A n \in Students : n \in DOMAIN SeedSubmissions => SeedSubmissions[n].test \in SeedTests
  /\ SeedTests \subseteq DOMAIN SeedInfo
  /\ SeedTests \cap PublishedTests = {}
  /\ Horizon \in Int /\ {"right", "wrong"} \subseteq Options
  /\ YearChoices \in [Tabs -> SUBSET Years]
  /\ Given \in [Tabs -> SUBSET Options]
  /\ None \notin Options \cup SeedTests \cup PublishedTests
  /\ MaxAttempts \in Nat
  /\ \A k \in SeedTests \cup PublishedTests :
        /\ Info[k].deadline \in Int /\ Info[k].limit \in Nat \ {0}
        /\ Info[k].key \in Seq(Options)
        /\ DOMAIN Info[k].marks = DOMAIN Info[k].key

VARIABLES
  tests,     \* local storage: published tests
  subs,      \* local storage: the student's submissions, newest first
  storedYear,\* local storage: enrolled year
  toDue,     \* per test, seconds until its deadline
  started,   \* attempts started so far
  tab        \* state of the page in each tab

vars == <<tests, subs, storedYear, toDue, started, tab>>

AllTests == SeedTests \cup PublishedTests

(***************************************************************************)
(* The assignment service.                                                 *)
(***************************************************************************)
\* The labels of the teacher's form carry more than the year.
NormalizeYearLevel(raw) ==
  CASE raw = "Prep / Foundation" -> "Prep"
    [] raw = "Year 3 (NAPLAN Aligned)" -> "Year 3"
    [] raw = "Year 5 (NAPLAN Aligned)" -> "Year 5"
    [] raw \in Years -> raw
    [] OTHER -> "Year 3"

IsDeadlineExpired(k) == toDue[k] < 0

\* The badge already counts the exact moment of the deadline as expired.
FormatDeadlineRemaining(k) == [isExpired |-> toDue[k] <= 0]

GetAssignedAssessments == tests

\* Where the submissions of a test are in a list.
Positions(list, k) == {i \in DOMAIN list : list[i].test = k}

SubmissionsStored(k) == Positions(subs, k)

SubmissionsInCopy(t, k) == Positions(tab[t].mine, k)

SubmissionsFor(t, k) == SubmissionsStored(k)

SubmitTestFromCopy(s) == subs' = IF s.kept THEN <<s>> \o tab[s.tab].mine ELSE subs

\* A write that the browser refuses is logged and nothing else.
SubmitTest(s) == subs' = IF s.kept THEN <<s>> \o subs ELSE subs

GetEnrolledYearLevel == NormalizeYearLevel(storedYear)

\* A teacher publishes a test in a tab of the same browser.
PublishAssessment(k) ==
  /\ k \notin tests
  /\ tests' = tests \cup {k}
  /\ toDue' = [toDue EXCEPT ![k] = Info[k].deadline]
  /\ UNCHANGED <<subs, storedYear, started, tab>>

(***************************************************************************)
(* The page.                                                               *)
(***************************************************************************)
Unanswered(k) == [q \in DOMAIN Info[k].key |-> None]

Blank ==
  [year |-> GetEnrolledYearLevel, roster |-> GetAssignedAssessments,
   mine |-> subs, view |-> "roster", active |-> None,
   qIndex |-> 0, answers |-> <<>>, left |-> 0, seen |-> <<>>,
   elapsed |-> 0, gap |-> 0, dialog |-> None,
   latest |-> <<>>, kind |-> None, fresh |-> FALSE, paused |-> FALSE, missed |-> FALSE]

Init ==
  /\ tests = SeedTests
  /\ subs \in {IF n \in DOMAIN SeedSubmissions THEN <<SeedSubmissions[n]>> ELSE <<>> : n \in Students}
  /\ storedYear = "Year 3"
  /\ toDue = [k \in AllTests |-> Info[k].deadline]
  /\ started = 0
  /\ tab = [t \in Tabs |-> Blank]

\* What only a running test reads is forgotten when it ends: the next test
\* sets all of it again.
Ended(p) ==
  [p EXCEPT !.view = "roster", !.active = None, !.qIndex = 0, !.answers = <<>>,
     !.seen = <<>>, !.left = 0, !.elapsed = 0, !.gap = 0, !.dialog = None,
     !.latest = <<>>, !.kind = None, !.fresh = FALSE, !.paused = FALSE, !.missed = FALSE]

\* Nothing runs in a tab while one of its confirm or alert boxes is open.
Responsive(t) == tab[t].dialog = None

\* The page is opened again: state is lost, storage is read.
Mount(t) ==
  /\ Responsive(t)
  /\ tab' = [tab EXCEPT ![t] = Blank]
  /\ UNCHANGED <<tests, subs, storedYear, toDue, started>>

\* The selector stays in the header of every view, also during a test.  A year
\* the browser refuses to store is that of the page only.
YearSelector(t) == YearChoices[t] \ {tab[t].year}

HandleYearLevelChange(t, y) ==
  /\ Responsive(t) /\ y \in YearSelector(t)
  /\ \/ /\ storedYear' = y
        /\ tab' = [tab EXCEPT ![t].year = y,
                              ![t].roster = GetAssignedAssessments, ![t].mine = subs]
     \/ UNCHANGED storedYear /\ tab' = [tab EXCEPT ![t].year = y]
  /\ UNCHANGED <<tests, subs, toDue, started>>

\* The roster's two filters change nothing but what is displayed; the
\* student can choose either at any time.
RosterFilters == {"enrolled", "all"}
DisplayedTests(t, filter) ==
  {k \in tab[t].roster :
     filter = "enrolled" => NormalizeYearLevel(Info[k].grade) = tab[t].year}

PastSubmission(t, k) == Positions(tab[t].mine, k)

\* The button a card of the roster shows.  The card may have been drawn
\* before the deadline passed, so "enter" can still be on the screen.
RosterOffers(t, k) ==
  IF PastSubmission(t, k) # {} THEN {"review"}
  ELSE IF NormalizeYearLevel(Info[k].grade) # tab[t].year THEN {"locked"}
  ELSE {"enter"} \cup (IF FormatDeadlineRemaining(k).isExpired
                       THEN {"closed"} ELSE {})

Begin(t, k, kind) ==
  /\ started < MaxAttempts
  /\ started' = started + 1
  /\ tab' = [tab EXCEPT ![t].view = "testing", ![t].active = k, ![t].qIndex = 0,
       ![t].answers = Unanswered(k), ![t].seen = Unanswered(k),
       ![t].left = Info[k].limit, ![t].elapsed = 0, ![t].gap = 0, ![t].kind = kind,
       ![t].fresh = (SubmissionsStored(k) = {}),
       ![t].paused = FALSE, ![t].missed = FALSE]
  /\ UNCHANGED <<tests, subs, storedYear, toDue>>

\* Every rule that refuses a test only shows a message; a locked card is
\* refused by the first of them.
HandleEnterTest(t, k) ==
  /\ Responsive(t) /\ tab[t].view = "roster"
  /\ \E f \in RosterFilters : k \in DisplayedTests(t, f)
  /\ RosterOffers(t, k) \cap {"enter", "locked"} # {}
  /\ NormalizeYearLevel(Info[k].grade) = tab[t].year
  /\ SubmissionsFor(t, k) = {}
  /\ ~IsDeadlineExpired(k)
  /\ Info[k].key # <<>>
  /\ Begin(t, k, "entered")

QuestionCount(t) == Len(Info[tab[t].active].key)

\* Buttons of the question navigator: every number, previous and next.
Navigate(t, i) ==
  /\ Responsive(t) /\ tab[t].view = "testing"
  /\ i \in 0 .. QuestionCount(t) - 1 /\ i # tab[t].qIndex
  /\ tab' = [tab EXCEPT ![t].qIndex = i]
  /\ UNCHANGED <<tests, subs, storedYear, toDue, started>>

\* Choices of the question on the screen; the chosen one changes nothing.
QuestionOffers(t) == Given[t] \ {tab[t].answers[tab[t].qIndex + 1]}

HandleSelectOption(t, o) ==
  /\ Responsive(t) /\ tab[t].view = "testing" /\ o \in QuestionOffers(t)
  /\ tab' = [tab EXCEPT ![t].answers[tab[t].qIndex + 1] = o]
  /\ UNCHANGED <<tests, subs, storedYear, toDue, started>>

Correct(k, given) == {q \in DOMAIN Info[k].key : given[q] = Info[k].key[q]}

\* Marks of the right answers over all marks, rounded to a whole percentage.
Percentage ==
  [k \in AllTests |-> [right \in SUBSET DOMAIN Info[k].key |->
     LET Marks(Q) == FoldFunctionOnSet(+, 0, Info[k].marks, Q)
         total == Marks(DOMAIN Info[k].marks)
     IN  IF total > 0 THEN (200 * Marks(right) + total) \div (2 * total) ELSE 0]]

GetGradeBand(pct) ==
  CASE pct >= 85 -> "A" [] pct >= 70 -> "B" [] pct >= 50 -> "C"
    [] pct >= 35 -> "D" [] OTHER -> "E"

\* What handleFinishAndSubmit stores, run by the closure that saw the answers
\* given.  Everything from cause on is history.
Result(t, given, cause, kept) ==
  LET p == tab[t] IN
       [test |-> p.active, answers |-> given, year |-> p.year,
        percentage |-> Percentage[p.active][Correct(p.active, given)],
        band |-> GetGradeBand(Percentage[p.active][Correct(p.active, given)]),
        cause |-> cause, tab |-> t, kind |-> p.kind, fresh |-> p.fresh,
        lost |-> given # p.answers, kept |-> kept]

\* The result is shown whether or not it could be stored.
HandleFinishAndSubmit(t, given, cause) ==
  \E kept \in BOOLEAN :
    LET s == Result(t, given, cause, kept) IN
    /\ SubmitTest(s)
    /\ tab' = [tab EXCEPT ![t] =
         [Ended(tab[t]) EXCEPT !.view = "results", !.active = tab[t].active,
            !.latest = <<s>>, !.roster = GetAssignedAssessments, !.mine = subs']]
    /\ UNCHANGED <<tests, storedYear, toDue, started>>

FinishButtonStale(t) ==
  /\ Responsive(t) /\ tab[t].view = "testing"
  /\ tab[t].qIndex = QuestionCount(t) - 1
  /\ HandleFinishAndSubmit(t, tab[t].seen, "finish")

\* The button is on the last question only.
FinishButton(t) ==
  /\ Responsive(t) /\ tab[t].view = "testing"
  /\ tab[t].qIndex = QuestionCount(t) - 1
  /\ HandleFinishAndSubmit(t, tab[t].answers, "finish")

AskExit(t) ==
  /\ Responsive(t) /\ tab[t].view = "testing"
  /\ tab' = [tab EXCEPT ![t].dialog = "exit", ![t].paused = TRUE]
  /\ UNCHANGED <<tests, subs, storedYear, toDue, started>>

AnswerExit(t, yes) ==
  /\ tab[t].dialog = "exit"
  /\ tab' = [tab EXCEPT ![t] =
                IF yes THEN Ended(@) ELSE [@ EXCEPT !.dialog = None]]
  /\ UNCHANGED <<tests, subs, storedYear, toDue, started>>

\* The alert blocks the effect; what follows runs when it is dismissed.
DeadlineAlertDismissed(t) ==
  /\ tab[t].dialog = "deadline"
  /\ HandleFinishAndSubmit(t, tab[t].answers, "deadline")

\* The newest of them is the one shown.
HandleReviewSubmission(t, k) ==
  /\ Responsive(t) /\ tab[t].view = "roster"
  /\ \E f \in RosterFilters : k \in DisplayedTests(t, f)
  /\ "review" \in RosterOffers(t, k)
  /\ \E i \in PastSubmission(t, k) :
       /\ \A j \in PastSubmission(t, k) : i <= j
       /\ tab' = [tab EXCEPT ![t].view = "results", ![t].active = k,
                    ![t].latest = <<tab[t].mine[i]>>]
  /\ UNCHANGED <<tests, subs, storedYear, toDue, started>>

\* The review compares the recorded answers with the key once more.
ReviewCorrect(t) == Correct(tab[t].active, tab[t].latest[1].answers)

Retake(t) ==
  /\ Responsive(t) /\ tab[t].view = "results"
  /\ ~IsDeadlineExpired(tab[t].active)
  /\ Begin(t, tab[t].active, "retake")

BackToRoster(t) ==
  /\ Responsive(t) /\ tab[t].view = "results"
  /\ tab' = [tab EXCEPT ![t] = Ended(@)]
  /\ UNCHANGED <<tests, subs, storedYear, toDue, started>>

(***************************************************************************)
(* The countdown: an interval of one second, set again by every tick; gap  *)
(* is the time since the last one.  The closure of a tick knows the        *)
(* answers of the render before it, seen.                                  *)
(***************************************************************************)
TickIgnoresDeadline(t) ==
  /\ tab[t].gap > 0 /\ Responsive(t) /\ tab[t].view = "testing"
  /\ IF tab[t].left <= 1
     THEN HandleFinishAndSubmit(t, tab[t].seen, "timer")
     ELSE /\ tab' = [tab EXCEPT ![t] =
               [tab[t] EXCEPT !.gap = 0, !.left = @ - 1, !.seen = tab[t].answers,
                  !.dialog = None,
                  !.paused = @]]
          /\ UNCHANGED <<tests, subs, storedYear, toDue, started>>

TickStops(t) ==
  /\ tab[t].gap > 0 /\ Responsive(t) /\ tab[t].view = "testing"
  /\ IF tab[t].left <= 1
     THEN UNCHANGED vars
     ELSE /\ tab' = [tab EXCEPT ![t] =
               [tab[t] EXCEPT !.gap = 0, !.left = @ - 1, !.seen = tab[t].answers,
                  !.dialog = IF IsDeadlineExpired(tab[t].active)
                             THEN "deadline" ELSE None,
                  !.paused = @ \/ IsDeadlineExpired(tab[t].active)]]
          /\ UNCHANGED <<tests, subs, storedYear, toDue, started>>

Tick(t) ==
  /\ tab[t].gap > 0 /\ Responsive(t) /\ tab[t].view = "testing"
  /\ IF tab[t].left <= 1
     THEN HandleFinishAndSubmit(t, tab[t].seen, "timer")
     ELSE /\ tab' = [tab EXCEPT ![t] =
               [tab[t] EXCEPT !.gap = 0, !.left = @ - 1, !.seen = tab[t].answers,
                  !.dialog = IF IsDeadlineExpired(tab[t].active)
                             THEN "deadline" ELSE None,
                  !.paused = @ \/ IsDeadlineExpired(tab[t].active)]]
          /\ UNCHANGED <<tests, subs, storedYear, toDue, started>>

\* A second passes, with or without the ticks that were due before it.
Second ==
  /\ toDue' = [k \in AllTests |->
       IF k \in tests /\ toDue[k] > LongPast THEN toDue[k] - 1 ELSE toDue[k]]
  /\ tab' = [t \in Tabs |->
       IF tab[t].view = "testing"
       THEN [tab[t] EXCEPT !.gap = IF @ > 1 THEN @ ELSE @ + 1, !.missed = @ \/ tab[t].gap > 0,
               !.elapsed = IF @ > Info[tab[t].active].limit THEN @ ELSE @ + 1]
       ELSE tab[t]]
  /\ UNCHANGED <<tests, subs, storedYear, started>>

Next ==
  \/ \E k \in PublishedTests : PublishAssessment(k)
  \/ \E t \in Tabs :
       \/ Mount(t)
       \/ \E y \in YearChoices[t] : HandleYearLevelChange(t, y)
       \/ \E k \in AllTests : HandleEnterTest(t, k) \/ HandleReviewSubmission(t, k)
       \/ \E i \in 0 .. MaxQuestions - 1 : Navigate(t, i)
       \/ \E o \in Given[t] : HandleSelectOption(t, o)
       \/ FinishButton(t) \/ AskExit(t) \/ DeadlineAlertDismissed(t)
       \/ \E yes \in BOOLEAN : AnswerExit(t, yes)
       \/ Retake(t) \/ BackToRoster(t) \/ Tick(t)
  \/ Second

Spec == Init /\ [][Next]_vars

\* Time passes, and timers fire at some time; nothing is assumed of the student.
FairSpec == Spec /\ WF_vars(Second) /\ \A t \in Tabs : WF_vars(Tick(t))

-----------------------------------------------------------------------------
Answer == Options \cup {None}
Submission ==
  [test : AllTests, answers : Seq(Answer), year : Years,
   percentage : 0 .. 100, band : {"A", "B", "C", "D", "E"},
   cause : {"finish", "deadline", "timer", "seed"}, tab : Tabs \cup {None},
   kind : {"entered", "retake", "seed"}, fresh : BOOLEAN, lost : BOOLEAN,
   kept : BOOLEAN]

\* The page is in one of its views with what that view needs: a test to sit,
\* a clock that has not run out, a submission to show.
TypeOK ==
  /\ tests \subseteq AllTests /\ storedYear \in Years
  /\ subs \in Seq(Submission)
  /\ started \in 0 .. MaxAttempts
  /\ \A t \in Tabs :
       LET p == tab[t]
       IN  /\ p.year \in Years /\ p.roster \subseteq AllTests
           /\ p.view \in {"roster", "testing", "results"}
           /\ p.dialog \in {None, "exit", "deadline"}
           /\ p.view = "testing" =>
                /\ p.active \in tests /\ p.left \in 1 .. Info[p.active].limit
                /\ p.qIndex \in 0 .. Len(Info[p.active].key) - 1
           /\ p.dialog # None => p.view = "testing"

\* What the student sees in the results view is recorded, whatever other tabs
\* stored in the meantime, unless the browser refused to store it when it was
\* submitted; and the review of the test on the screen agrees with the percentage
\* shown, unless that is the one of a seed.
ResultsRecorded ==
  \A t \in Tabs : tab[t].view = "results" =>
     /\ \/ ~tab[t].latest[1].kept
        \/ \E i \in DOMAIN subs : <<subs[i]>> = tab[t].latest
     /\ \/ tab[t].latest[1].cause = "seed"
        \/ tab[t].latest[1].percentage = Percentage[tab[t].active][ReviewCorrect(t)]

\* An answer on the screen is missing from a submission only when the
\* countdown submitted it, with the answers of the tick before the last.
AnswersArrive ==
  \A i \in DOMAIN subs : subs[i].lost => subs[i].cause = "timer"

\* The countdown never takes time from the student.  Where it gives some, past
\* the limit, a box was open or ticks came late, whose delays add up; but they do
\* not add up past the deadline: a test can still be sat more than a second after
\* it only past a box, or when no tick ran for more than a second.
TimeKept ==
  \A t \in Tabs : tab[t].view = "testing" =>
     LET limit == Info[tab[t].active].limit
     IN  /\ tab[t].left = 1 /\ tab[t].gap > 0 => tab[t].elapsed >= limit
         /\ tab[t].elapsed > limit => tab[t].paused \/ tab[t].missed
         /\ toDue[tab[t].active] < -1 => tab[t].paused \/ tab[t].gap > 1

\* Of two submissions of one test the newer is a retake, or came from another
\* tab in which the test was begun before the older was stored.
RepeatExplained ==
  \A i, j \in DOMAIN subs :
     i < j /\ subs[i].test = subs[j].test =>
        \/ subs[i].kind = "retake"
        \/ subs[i].tab # subs[j].tab /\ subs[i].fresh

\* Sitting a test ends by itself, or at a box that waits for the student.
AttemptEnds ==
  \A t \in Tabs : tab[t].view = "testing" ~> tab[t].view # "testing" \/ ~Responsive(t)
=============================================================================
