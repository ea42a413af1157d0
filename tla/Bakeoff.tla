------------------------------ MODULE Bakeoff ------------------------------
(* The target selection experiment of the IPM course (sketch.js, support.js,   *)
(* ppi.js): a form, an attempt of one click per trial, a button, a second      *)
(* attempt.  The browser calls the handlers: the release of a button, a press  *)
(* anywhere in the window, a change of the window's size.                      *)
(*                                                                             *)
(* Where the pointer is on the grid is reduced to what the code asks of it:    *)
(* the target it is on, `gap' between targets, or `off' the input area.        *)
EXTENDS Naturals, Sequences, FiniteSets

CONSTANTS Targets,     \* the targets of the grid (18 in the code)
          Repeats,     \* how often each of them is a trial (3 in the code)
          MaxExtra,    \* bound on the clicks after the last trial
          MaxReports,  \* bound on the results printed
          gap, off,    \* the places of a click that are not targets
          undefined    \* the value of JavaScript

ASSUME PlacesAssumption == gap # off

VARIABLES
  form,           \* the form is on screen: its elements were not removed yet
  display,        \* what is known of the screen: student_ID and display_size were saved
  portrait,       \* the screen is higher than wide
  PPI,            \* unset, display (from the size given) or guess
  layout,         \* the input area and the grid: none yet, or fits or clipped by the canvas
  draw_targets, trials, current_trial, hits, misses, attempt,
  continue_button,
  clock, testStartTime, testEndTime,
  reports,        \* what printAndSavePerformance printed, in order
  early,          \* history: clicks of this attempt counted while a form or a button was up
  resizedOnForm   \* history: the window changed size while the form was up

vars == <<form, display, portrait, PPI, layout, draw_targets, trials, current_trial, hits,
          misses, attempt, continue_button, clock, testStartTime, testEndTime, reports, early,
          resizedOnForm>>

counters == <<hits, misses, current_trial, early>>

NumTrials == Cardinality(Targets) * Repeats

ASSUME TrialsAssumption == NumTrials \in Nat \ {0}

\* Every order in which a shuffle can leave the trials.
Orders == {s \in [1..NumTrials -> Targets] :
             \A t \in Targets : Cardinality({i \in 1..NumTrials : s[i] = t}) = Repeats}

\* trials[current_trial]: undefined past the end.
Active == IF current_trial < NumTrials THEN trials[current_trial + 1] ELSE undefined

\* Display: the size given is the diagonal of a screen that is wider than high; the square root
\* is NaN for any other, or when no size is known yet, and then the guess is used.
DisplayPPI(known, upright) == IF known /\ ~upright THEN "display" ELSE "guess"

\* updateCursor: the pointer is pushed onto the grid, which is inside the input area when the
\* layout fits on the canvas; without a layout the comparisons are with undefined.
Cursor(c) == IF c = off /\ layout = "fits" THEN gap ELSE c

InsideInputArea(c) == layout /= "none" /\ c /= off

\* Mutant: an attempt is over from the last trial on.
MutantAtEnd(trial) == trial >= NumTrials

AtEnd(trial) == trial = NumTrials

Init == /\ form = TRUE /\ display = FALSE /\ portrait \in BOOLEAN
        /\ PPI = "unset" /\ layout = "none"
        /\ draw_targets = TRUE /\ trials \in Orders
        /\ current_trial = 0 /\ hits = 0 /\ misses = 0 /\ attempt = 0
        /\ continue_button = FALSE
        /\ clock = 0 /\ testStartTime = undefined /\ testEndTime = undefined
        /\ reports = <<>> /\ early = 0 /\ resizedOnForm = FALSE

\* startTest, with the form filled in properly or not.
StartTest(valid) ==
  /\ form
  /\ valid                                     \* else an alert, and nothing changes
  /\ display' = TRUE
  /\ form' = FALSE
  /\ clock' = clock + 1 /\ testStartTime' = clock'
  /\ UNCHANGED <<portrait, PPI, layout, draw_targets, trials, counters, attempt,
                 continue_button, testEndTime, reports, resizedOnForm>>

\* windowResized: the window changed size, by the user or by going full screen.
WindowResized(fit) ==
  /\ PPI' = DisplayPPI(display, portrait)
  /\ layout' = fit
  /\ draw_targets' = TRUE
  /\ resizedOnForm' = (resizedOnForm \/ form)
  /\ UNCHANGED <<form, display, portrait, trials, counters, attempt, continue_button, clock,
                 testStartTime, testEndTime, reports, early>>

\* printAndSavePerformance
Report(h, m, e, end) ==
  [attempt |-> attempt, hits |-> h, misses |-> m, student |-> display, ppi |-> PPI,
   layout |-> layout,
   start |-> testStartTime, end |-> end, early |-> e]

\* mousePressed while the targets are shown.  (While they are not, only the pointer moves.)
\* The results are printed after every press that leaves current_trial at the end, counted or not.
MousePressed(c) ==
  LET at      == Cursor(c)
      counted == InsideInputArea(at)
      hit     == counted /\ at = Active
      h       == IF hit THEN hits + 1 ELSE hits
      m       == IF counted /\ ~hit THEN misses + 1 ELSE misses
      trial   == IF counted THEN current_trial + 1 ELSE current_trial
      e       == IF counted /\ (form \/ continue_button) THEN early + 1 ELSE early
  IN /\ draw_targets
     /\ counted => current_trial < NumTrials + MaxExtra
     /\ AtEnd(trial) => Len(reports) < MaxReports
     /\ hits' = h /\ misses' = m /\ current_trial' = trial /\ early' = e
     /\ IF AtEnd(trial)
        THEN /\ clock' = clock + 1 /\ testEndTime' = clock'
             /\ draw_targets' = FALSE
             /\ reports' = Append(reports, Report(h, m, e, clock'))
             /\ attempt' = attempt + 1
             /\ continue_button' = (continue_button \/ attempt' < 2)
        ELSE UNCHANGED <<clock, testEndTime, draw_targets, reports, attempt, continue_button>>
     /\ UNCHANGED <<form, display, portrait, PPI, layout, trials, testStartTime, resizedOnForm>>

\* Mutant: the misses are not reset.
MutantCountersReset == current_trial' = 0 /\ hits' = 0 /\ misses' = misses /\ early' = 0

CountersReset == current_trial' = 0 /\ hits' = 0 /\ misses' = 0 /\ early' = 0

\* continueTest: the button of the second attempt was released.
ContinueTest ==
  /\ continue_button
  /\ trials' \in Orders
  /\ CountersReset
  /\ continue_button' = FALSE
  /\ draw_targets' = TRUE
  /\ clock' = clock + 1 /\ testStartTime' = clock'
  /\ UNCHANGED <<form, display, portrait, PPI, layout, attempt, testEndTime, reports,
                 resizedOnForm>>

Next == \/ \E valid \in BOOLEAN : StartTest(valid)
        \/ \E fit \in {"fits", "clipped"} : WindowResized(fit)
        \/ \E c \in Targets \cup {gap, off} : MousePressed(c)
        \/ ContinueTest

Spec == Init /\ [][Next]_vars

-----------------------------------------------------------------------------
Times == Nat \cup {undefined}
PPIs == {"unset", "display", "guess"}
Layouts == {"none", "fits", "clipped"}
Result == [attempt : Nat, hits : Nat, misses : Nat, student : BOOLEAN, ppi : PPIs,
           layout : Layouts, start : Times, end : Times, early : Nat]

\* The variables have the types the handlers give them.
TypeOK ==
  /\ {form, display, portrait, draw_targets, continue_button, resizedOnForm} \subseteq BOOLEAN
  /\ PPI \in PPIs /\ layout \in Layouts
  /\ trials \in [1..NumTrials -> Targets]
  /\ {current_trial, hits, misses, attempt, clock, early} \subseteq Nat
  /\ {testStartTime, testEndTime} \subseteq Times
  /\ reports \in Seq(Result)

\* Each printed result counts exactly one click per trial, whatever clicks came after the last
\* trial of the attempt before it (mousePressed, continueTest).
EveryTrialOnce == \A i \in DOMAIN reports : reports[i].hits + reports[i].misses = NumTrials

\* On a canvas the grid fits in, an attempt is printed once, in order, and there are two of them,
\* even when the window changes size over the results and the targets come back (windowResized
\* shows the targets and forgets that the attempt is over).
TwoResults ==
  (\A i \in DOMAIN reports : reports[i].layout = "fits") =>
    Len(reports) <= 2 /\ \A i \in DOMAIN reports : reports[i].attempt = i - 1

\* Unless the window changed size under the form, a result belongs to a student, was timed from
\* its start to its end, counts no click made over the form or over the button of the second
\* attempt, and its targets had the measured size when the screen is a wide one.  (A change of
\* size shows the targets, and the clicks on the form then count.)
TimedAndMeasured ==
  resizedOnForm \/
    \A i \in DOMAIN reports :
      LET r == reports[i] IN
        /\ r.student /\ r.early = 0
        /\ r.start \in Nat /\ r.start < r.end
        /\ ~portrait => r.ppi = "display"

\* The results are those of one student's two attempts (mousePressed, continueTest, startTest).
ResultsOfATest == TwoResults /\ TimedAndMeasured

=============================================================================
