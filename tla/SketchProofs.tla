---------------------------- MODULE SketchProofs ----------------------------
(***************************************************************************)
(* What a sketch keeps: its experiment, and the sound objects it makes.    *)
(*                                                                         *)
(* The results of the experiment, for any grid and any number of trials:   *)
(* each counts every trial once, and those of a test belong to its two     *)
(* attempts.  The counters are in step with the trials (CountInv); what is *)
(* known of the screen and of the time when a click counts (TestInv) needs *)
(* that no click counts while the form is up; and the attempt that goes on *)
(* is the one whose result is missing (AttemptInv).                        *)
(*                                                                         *)
(* The objects, for any number of them and of calls (GraphInv): every      *)
(* object is part of one other at most, what is not disposed of has its    *)
(* way for sound, and until something is disposed of twice the array has   *)
(* each of those once, but for the synths, which are in it twice.          *)
(***************************************************************************)
EXTENDS Bakeoff, Connections, SequenceTheorems, FiniteSetTheorems, WellFoundedInduction, TLAPS

CountInv == /\ hits + misses = current_trial
            /\ EveryTrialOnce

TestInv ==
  ~resizedOnForm =>
    /\ form => layout = "none"
    /\ ~form => display /\ testStartTime \in Nat /\ testStartTime <= clock
    /\ layout # "none" => ~form /\ (~portrait => PPI = "display")
    /\ current_trial > 0 => layout # "none"
    /\ continue_button => current_trial >= NumTrials
    /\ early > 0 => current_trial > NumTrials

AllFit == \A i \in DOMAIN reports : reports[i].layout = "fits"

AttemptInv ==
  AllFit =>
    /\ attempt = Len(reports) /\ Len(reports) <= 2
    /\ \A i \in DOMAIN reports : reports[i].attempt = i - 1
    /\ continue_button => Len(reports) = 1
    /\ current_trial < NumTrials <=> Len(reports) = 0 \/ (Len(reports) = 1 /\ ~continue_button)
    /\ layout = "none" => current_trial = 0

IInv == TypeOK /\ CountInv /\ TestInv /\ TimedAndMeasured /\ AttemptInv

-----------------------------------------------------------------------------
\* Adding a result keeps those before.
LEMMA AppendReport ==
  ASSUME NEW s \in Seq(Result), NEW x \in Result
  PROVE  /\ Append(s, x) \in Seq(Result)
         /\ Len(Append(s, x)) = Len(s) + 1 /\ Len(s) \in Nat
         /\ DOMAIN s = 1..Len(s) /\ DOMAIN Append(s, x) = 1..(Len(s) + 1)
         /\ \A i \in 1..Len(s) : Append(s, x)[i] = s[i]
         /\ Append(s, x)[Len(s) + 1] = x
OBVIOUS

\* Nothing is counted or printed at the start.
LEMMA InitIInv == Init => IInv
<1> SUFFICES ASSUME Init PROVE IInv OBVIOUS
<1>1. trials \in [1..NumTrials -> Targets] BY DEF Init, Orders
<1>2. reports \in Seq(Result) /\ DOMAIN reports = {} /\ Len(reports) = 0 BY DEF Init
<1>3. TypeOK
  <2>1. {form, display, portrait, draw_targets, continue_button, resizedOnForm} \subseteq BOOLEAN
    BY DEF Init
  <2>2. PPI \in PPIs /\ layout \in Layouts BY DEF Init, PPIs, Layouts
  <2>3. {current_trial, hits, misses, attempt, clock, early} \subseteq Nat BY DEF Init
  <2>4. {testStartTime, testEndTime} \subseteq Times BY DEF Init, Times
  <2> QED BY <1>1, <1>2, <2>1, <2>2, <2>3, <2>4 DEF TypeOK
<1>4. CountInv BY <1>2 DEF Init, CountInv, EveryTrialOnce
<1>5. TestInv BY DEF Init, TestInv
<1>6. TimedAndMeasured BY <1>2 DEF TimedAndMeasured
<1>7. AttemptInv
  <2>1. NumTrials > 0 BY TrialsAssumption
  <2> QED BY <1>2, <2>1 DEF Init, AttemptInv
<1> QED BY <1>3, <1>4, <1>5, <1>6, <1>7 DEF IInv

\* What was printed stays as it is when nothing is printed.
LEMMA NothingPrinted ==
  ASSUME IInv, UNCHANGED <<reports, portrait>>, resizedOnForm => resizedOnForm'
  PROVE  EveryTrialOnce' /\ TimedAndMeasured' /\ (AllFit' <=> AllFit)
BY DEF IInv, CountInv, EveryTrialOnce, TimedAndMeasured, AllFit, TypeOK

-----------------------------------------------------------------------------
(* One lemma for each handler. *)

\* The form is gone, the student and the screen are known, and the time runs.
LEMMA StartTestStep ==
  ASSUME IInv, NEW valid \in BOOLEAN, StartTest(valid)
  PROVE  IInv'
<1>1. /\ UNCHANGED <<portrait, PPI, layout, draw_targets, trials, hits, misses, current_trial,
                     early, attempt, continue_button, testEndTime, reports, resizedOnForm>>
      /\ form /\ ~form' /\ form' = FALSE /\ display' = TRUE
      /\ clock' = clock + 1 /\ testStartTime' = clock'
  BY DEF StartTest, counters
<1>2. TypeOK BY DEF IInv
<1>3. clock \in Nat BY <1>2 DEF TypeOK
<1>4. clock' \in Nat /\ testStartTime' \in Nat /\ testStartTime' <= clock' BY <1>1, <1>3
<1>5. TypeOK' BY <1>1, <1>2, <1>4 DEF TypeOK, Times
<1>6. CountInv' /\ TimedAndMeasured' /\ AttemptInv'
  <2>1. EveryTrialOnce' /\ TimedAndMeasured' /\ (AllFit' <=> AllFit) BY <1>1, NothingPrinted
  <2> QED BY <1>1, <2>1 DEF IInv, CountInv, AttemptInv
<1>7. TestInv' BY <1>1, <1>4 DEF IInv, TestInv
<1> QED BY <1>5, <1>6, <1>7 DEF IInv

\* The grid is laid out with what is known of the screen.
LEMMA WindowResizedStep ==
  ASSUME IInv, NEW fit \in {"fits", "clipped"}, WindowResized(fit)
  PROVE  IInv'
<1>1. /\ UNCHANGED <<form, display, portrait, trials, hits, misses, current_trial, early, attempt,
                     continue_button, clock, testStartTime, testEndTime, reports>>
      /\ PPI' = DisplayPPI(display, portrait)
      /\ layout' = fit /\ layout' # "none"
      /\ draw_targets' = TRUE
      /\ resizedOnForm' = (resizedOnForm \/ form)
  BY DEF WindowResized, counters
<1>2. TypeOK BY DEF IInv
<1>3. TypeOK'
  <2>1. PPI' \in PPIs /\ layout' \in Layouts BY <1>1 DEF DisplayPPI, PPIs, Layouts
  <2>2. draw_targets' \in BOOLEAN /\ resizedOnForm' \in BOOLEAN BY <1>1, <1>2 DEF TypeOK
  <2> QED BY <1>1, <1>2, <2>1, <2>2 DEF TypeOK
<1>4. resizedOnForm => resizedOnForm' BY <1>1, <1>2 DEF TypeOK
<1>5. CountInv' /\ TimedAndMeasured' /\ AttemptInv'
  <2>1. EveryTrialOnce' /\ TimedAndMeasured' /\ (AllFit' <=> AllFit)
    BY <1>1, <1>4, NothingPrinted
  <2> QED BY <1>1, <2>1 DEF IInv, CountInv, AttemptInv
<1>6. TestInv'
  <2>1. SUFFICES ASSUME ~resizedOnForm' PROVE TestInv' BY DEF TestInv
  <2>2. ~resizedOnForm /\ ~form BY <1>1, <1>2, <2>1 DEF TypeOK
  <2>3. display BY <2>2 DEF IInv, TestInv
  <2>4. ~portrait' => PPI' = "display" BY <1>1, <2>3 DEF DisplayPPI
  <2> QED BY <1>1, <2>2, <2>4 DEF IInv, TestInv
<1> QED BY <1>3, <1>5, <1>6 DEF IInv

\* The counters start again for the second attempt, whose result is missing.
LEMMA ContinueTestStep ==
  ASSUME IInv, ContinueTest
  PROVE  IInv'
<1>1. /\ UNCHANGED <<form, display, portrait, PPI, layout, attempt, testEndTime, reports,
                     resizedOnForm>>
      /\ continue_button /\ continue_button' = FALSE /\ draw_targets' = TRUE
      /\ trials' \in Orders
      /\ current_trial' = 0 /\ hits' = 0 /\ misses' = 0 /\ early' = 0
      /\ clock' = clock + 1 /\ testStartTime' = clock'
  BY DEF ContinueTest, CountersReset
<1>2. TypeOK BY DEF IInv
<1>3. clock \in Nat BY <1>2 DEF TypeOK
<1>4. clock' \in Nat /\ testStartTime' \in Nat /\ testStartTime' <= clock' BY <1>1, <1>3
<1>5. TypeOK'
  <2>1. trials' \in [1..NumTrials -> Targets] BY <1>1 DEF Orders
  <2>2. {form, display, portrait, draw_targets, continue_button, resizedOnForm}' \subseteq BOOLEAN
    BY <1>1, <1>2 DEF TypeOK
  <2>3. {current_trial, hits, misses, attempt, clock, early}' \subseteq Nat
    BY <1>1, <1>2, <1>4 DEF TypeOK
  <2>4. {testStartTime, testEndTime}' \subseteq Times BY <1>1, <1>2, <1>4 DEF TypeOK, Times
  <2> QED BY <1>1, <1>2, <2>1, <2>2, <2>3, <2>4 DEF TypeOK
<1>6. EveryTrialOnce' /\ TimedAndMeasured' /\ (AllFit' <=> AllFit) BY <1>1, NothingPrinted
<1>7. CountInv' BY <1>1, <1>6 DEF CountInv
<1>8. TestInv' BY <1>1, <1>4 DEF IInv, TestInv
<1>9. AttemptInv'
  <2>1. 0 < NumTrials BY TrialsAssumption
  <2> QED BY <1>1, <1>6, <2>1 DEF IInv, AttemptInv
<1> QED BY <1>5, <1>6, <1>7, <1>8, <1>9 DEF IInv

\* What a press counts: one more hit or miss and one more trial, or nothing.
LEMMA PressCounts ==
  ASSUME IInv, NEW c \in Targets \cup {gap, off}, MousePressed(c)
  PROVE  /\ {hits', misses', current_trial', early', attempt', clock'} \subseteq Nat
         /\ hits' + misses' = current_trial'
         /\ \/ /\ current_trial' = current_trial + 1 /\ layout # "none"
               /\ early' = IF form \/ continue_button THEN early + 1 ELSE early
            \/ current_trial' = current_trial /\ early' = early /\ layout # "fits"
<1> DEFINE at == Cursor(c)
           counted == InsideInputArea(at)
           hit == counted /\ at = Active
<1>1. /\ hits \in Nat /\ misses \in Nat /\ current_trial \in Nat /\ early \in Nat
      /\ attempt \in Nat /\ clock \in Nat /\ hits + misses = current_trial /\ layout \in Layouts
  BY DEF IInv, TypeOK, CountInv
<1>2. /\ hits' = IF hit THEN hits + 1 ELSE hits
      /\ misses' = IF counted /\ ~hit THEN misses + 1 ELSE misses
      /\ current_trial' = IF counted THEN current_trial + 1 ELSE current_trial
      /\ early' = IF counted /\ (form \/ continue_button) THEN early + 1 ELSE early
  BY DEF MousePressed
<1>3. attempt' \in Nat /\ clock' \in Nat
  <2>1. \/ attempt' = attempt + 1 /\ clock' = clock + 1
        \/ attempt' = attempt /\ clock' = clock
    BY DEF MousePressed
  <2> QED BY <1>1, <2>1
<1>4. counted => layout # "none" BY DEF InsideInputArea
<1>5. layout = "fits" => counted
  <2>1. ASSUME layout = "fits" PROVE at # off
    BY <2>1, PlacesAssumption DEF Cursor
  <2> QED BY <2>1 DEF InsideInputArea
<1>6. hit => counted OBVIOUS
<1> HIDE DEF counted, hit
<1>7. CASE counted BY <1>1, <1>2, <1>3, <1>4, <1>7
<1>8. CASE ~counted BY <1>1, <1>2, <1>3, <1>5, <1>6, <1>8
<1> QED BY <1>7, <1>8

\* The result that a press prints, or that it prints none.
LEMMA PressPrints ==
  ASSUME NEW c \in Targets \cup {gap, off}, MousePressed(c)
  PROVE  IF current_trial' = NumTrials
         THEN /\ clock' = clock + 1 /\ testEndTime' = clock'
              /\ draw_targets' = FALSE
              /\ reports' = Append(reports, Report(hits', misses', early', clock'))
              /\ attempt' = attempt + 1
              /\ continue_button' = (continue_button \/ attempt' < 2)
         ELSE UNCHANGED <<clock, testEndTime, draw_targets, reports, attempt, continue_button>>
BY DEF MousePressed, AtEnd

\* A click may end the attempt.
LEMMA MousePressedStep ==
  ASSUME IInv, NEW c \in Targets \cup {gap, off}, MousePressed(c)
  PROVE  IInv'
<1> DEFINE x == Report(hits', misses', early', clock')
<1>1. /\ UNCHANGED <<form, display, portrait, PPI, layout, trials, testStartTime, resizedOnForm>>
  BY DEF MousePressed
<1>2. TypeOK BY DEF IInv
<1>3. /\ hits' \in Nat /\ misses' \in Nat /\ current_trial' \in Nat /\ early' \in Nat
      /\ attempt' \in Nat /\ clock' \in Nat /\ hits' + misses' = current_trial'
      /\ \/ /\ current_trial' = current_trial + 1 /\ layout # "none"
            /\ early' = IF form \/ continue_button THEN early + 1 ELSE early
         \/ current_trial' = current_trial /\ early' = early /\ layout # "fits"
  BY PressCounts
<1>4. /\ clock \in Nat /\ current_trial \in Nat /\ early \in Nat /\ attempt \in Nat
      /\ form \in BOOLEAN /\ continue_button \in BOOLEAN /\ layout \in Layouts
      /\ portrait \in BOOLEAN /\ resizedOnForm \in BOOLEAN
      /\ reports \in Seq(Result) /\ NumTrials \in Nat /\ NumTrials > 0
  BY <1>2, TrialsAssumption DEF TypeOK
<1>5. CASE current_trial' # NumTrials
  <2>1. UNCHANGED <<clock, testEndTime, draw_targets, reports, attempt, continue_button>>
    BY <1>5, PressPrints
  <2>2. TypeOK' BY <1>1, <1>2, <1>3, <2>1 DEF TypeOK
  <2>3. EveryTrialOnce' /\ TimedAndMeasured' /\ (AllFit' <=> AllFit)
    BY <1>1, <2>1, NothingPrinted
  <2>4. CountInv' BY <1>3, <2>3 DEF CountInv
  <2>5. TestInv' BY <1>1, <1>3, <1>4, <1>5, <2>1 DEF IInv, TestInv
  <2>6. AttemptInv' BY <1>1, <1>3, <1>4, <1>5, <2>1, <2>3 DEF IInv, AttemptInv
  <2> QED BY <2>2, <2>3, <2>4, <2>5, <2>6 DEF IInv
<1>6. CASE current_trial' = NumTrials
  <2>1. /\ clock' = clock + 1 /\ testEndTime' = clock' /\ draw_targets' = FALSE
        /\ reports' = Append(reports, x) /\ attempt' = attempt + 1
        /\ continue_button' = (continue_button \/ attempt' < 2)
    BY <1>6, PressPrints
  <2>2. /\ x.attempt = attempt /\ x.hits = hits' /\ x.misses = misses' /\ x.early = early'
        /\ x.student = display /\ x.ppi = PPI /\ x.layout = layout
        /\ x.start = testStartTime /\ x.end = clock'
    BY DEF Report
  <2>3. x \in Result
    BY <1>2, <1>3, <1>4 DEF Report, Result, TypeOK, Times
  <2> HIDE DEF x
  <2>4. /\ reports' \in Seq(Result) /\ Len(reports') = Len(reports) + 1 /\ Len(reports) \in Nat
        /\ DOMAIN reports = 1..Len(reports) /\ DOMAIN reports' = 1..(Len(reports) + 1)
        /\ \A i \in 1..Len(reports) : reports'[i] = reports[i]
        /\ reports'[Len(reports) + 1] = x
    BY <1>4, <2>1, <2>3, AppendReport
  <2>5. TypeOK'
    <3>1. {continue_button', draw_targets'} \subseteq BOOLEAN BY <1>4, <2>1
    <3>2. testEndTime' \in Times BY <1>3, <2>1 DEF Times
    <3> QED BY <1>1, <1>2, <1>3, <2>4, <3>1, <3>2 DEF TypeOK
  <2>6. CountInv'
    <3>1. \A i \in 1..Len(reports) : reports[i].hits + reports[i].misses = NumTrials
      BY <2>4 DEF IInv, CountInv, EveryTrialOnce
    <3>2. x.hits + x.misses = NumTrials BY <1>3, <1>6, <2>2
    <3>3. ASSUME NEW i \in DOMAIN reports' PROVE reports'[i].hits + reports'[i].misses = NumTrials
      <4>1. CASE i \in 1..Len(reports) BY <2>4, <3>1, <4>1
      <4>2. CASE i = Len(reports) + 1 BY <2>4, <3>2, <4>2
      <4> QED BY <2>4, <4>1, <4>2
    <3> QED BY <1>3, <3>3 DEF CountInv, EveryTrialOnce
  <2>7. resizedOnForm \/ /\ layout # "none" /\ ~form /\ early' = 0 /\ x.student
                         /\ x.start \in Nat /\ x.start < x.end
                         /\ ~portrait => x.ppi = "display"
    <3>1. SUFFICES ASSUME ~resizedOnForm
                   PROVE  /\ layout # "none" /\ ~form /\ early' = 0 /\ x.student
                          /\ x.start \in Nat /\ x.start < x.end
                          /\ ~portrait => x.ppi = "display"
      BY <1>4
    <3>2. /\ current_trial > 0 => layout # "none"
          /\ layout # "none" => ~form /\ (~portrait => PPI = "display")
          /\ ~form => display /\ testStartTime \in Nat /\ testStartTime <= clock
          /\ continue_button => current_trial >= NumTrials
          /\ early > 0 => current_trial > NumTrials
      BY <3>1 DEF IInv, TestInv
    <3>3. layout # "none" /\ ~form BY <1>3, <1>4, <1>6, <3>2
    <3>4. early' = 0 BY <1>3, <1>4, <1>6, <3>2, <3>3
    <3>5. testStartTime < clock' BY <1>4, <2>1, <3>2, <3>3
    <3> QED BY <2>2, <3>2, <3>3, <3>4, <3>5
  <2>8. TimedAndMeasured'
    <3>1. SUFFICES ASSUME ~resizedOnForm
                   PROVE  \A i \in DOMAIN reports' :
                            /\ reports'[i].student /\ reports'[i].early = 0
                            /\ reports'[i].start \in Nat /\ reports'[i].start < reports'[i].end
                            /\ ~portrait => reports'[i].ppi = "display"
      BY <1>1, <1>4 DEF TimedAndMeasured
    <3>2. \A i \in 1..Len(reports) :
            /\ reports[i].student /\ reports[i].early = 0
            /\ reports[i].start \in Nat /\ reports[i].start < reports[i].end
            /\ ~portrait => reports[i].ppi = "display"
      BY <2>4, <3>1 DEF IInv, TimedAndMeasured
    <3> QED BY <2>2, <2>4, <2>7, <3>1, <3>2
  <2>9. TestInv'
    <3>1. SUFFICES ASSUME ~resizedOnForm PROVE TestInv' BY <1>1 DEF TestInv
    <3>2. layout # "none" /\ ~form /\ early' = 0 BY <2>7, <3>1
    <3> QED BY <1>1, <1>3, <1>4, <1>6, <2>1, <3>1, <3>2 DEF IInv, TestInv
  <2>10. AttemptInv'
    <3>1. SUFFICES ASSUME AllFit' PROVE AttemptInv' BY DEF AttemptInv
    <3>2. AllFit /\ layout = "fits"
      BY <2>2, <2>4, <3>1 DEF AllFit
    <3>3. /\ attempt = Len(reports) /\ Len(reports) <= 2
          /\ \A i \in DOMAIN reports : reports[i].attempt = i - 1
          /\ continue_button => Len(reports) = 1
          /\ current_trial < NumTrials <=>
               Len(reports) = 0 \/ (Len(reports) = 1 /\ ~continue_button)
      BY <3>2 DEF IInv, AttemptInv
    <3>4. current_trial < NumTrials BY <1>3, <1>4, <1>6, <3>2
    <3>5. ~continue_button /\ Len(reports) \in {0, 1} BY <2>4, <3>3, <3>4
    <3>6. attempt' = Len(reports') /\ Len(reports') \in {1, 2} BY <2>1, <2>4, <3>3, <3>5
    <3>7. \A i \in DOMAIN reports' : reports'[i].attempt = i - 1
      BY <2>2, <2>4, <3>3
    <3>8. continue_button' <=> Len(reports') = 1
      <4>1. attempt' < 2 <=> Len(reports') = 1 BY <3>6
      <4>2. continue_button' <=> attempt' < 2 BY <2>1, <3>5, Zenon
      <4> QED BY <4>1, <4>2
    <3>9. ~(current_trial' < NumTrials) BY <1>4, <1>6
    <3>10. layout' # "none" BY <1>1, <3>2
    <3> QED BY <3>6, <3>7, <3>8, <3>9, <3>10 DEF AttemptInv
  <2> QED BY <2>5, <2>6, <2>8, <2>9, <2>10 DEF IInv
<1> QED BY <1>5, <1>6

-----------------------------------------------------------------------------
\* Every step keeps IInv.
LEMMA NextIInv == IInv /\ [Next]_vars => IInv'
<1> SUFFICES ASSUME IInv, [Next]_vars PROVE IInv' OBVIOUS
<1>1. ASSUME NEW valid \in BOOLEAN, StartTest(valid) PROVE IInv' BY <1>1, StartTestStep
<1>2. ASSUME NEW fit \in {"fits", "clipped"}, WindowResized(fit) PROVE IInv'
  BY <1>2, WindowResizedStep
<1>3. ASSUME NEW c \in Targets \cup {gap, off}, MousePressed(c) PROVE IInv'
  BY <1>3, MousePressedStep
<1>4. CASE ContinueTest BY <1>4, ContinueTestStep
<1>5. CASE UNCHANGED vars
  <2>1. TypeOK' /\ TestInv' /\ CountInv' /\ TimedAndMeasured' /\ AttemptInv'
    BY <1>5 DEF vars, counters, IInv, TypeOK, TestInv, CountInv, EveryTrialOnce,
                TimedAndMeasured, AttemptInv, AllFit
  <2> QED BY <2>1 DEF IInv
<1> QED BY <1>1, <1>2, <1>3, <1>4, <1>5 DEF Next

\* IInv holds in every state.
LEMMA Invariance == Spec => []IInv
<1> QED BY InitIInv, NextIInv, PTL DEF Spec

\* The variables keep their types, for any grid.
THEOREM TypeCorrect == Spec => []TypeOK
<1>1. IInv => TypeOK BY DEF IInv
<1> QED BY <1>1, Invariance, PTL

\* Each printed result counts exactly one click per trial, for any grid, any number of trials, and
\* any clicks and changes of the window between the attempts and after them.
THEOREM EveryTrial == Spec => []EveryTrialOnce
<1>1. IInv => EveryTrialOnce BY DEF IInv, CountInv
<1> QED BY <1>1, Invariance, PTL

\* The results are those of one student's two attempts, under the same conditions.
THEOREM Results == Spec => []ResultsOfATest
<1>1. IInv => ResultsOfATest
  <2>1. IInv => TwoResults BY DEF IInv, AttemptInv, AllFit, TwoResults
  <2> QED BY <2>1 DEF IInv, ResultsOfATest
<1> QED BY <1>1, Invariance, PTL

-----------------------------------------------------------------------------
(* The objects and their connections. *)

\* A set of natural numbers that is not empty has a least one.
LEMMA Least ==
  ASSUME NEW S \in SUBSET Nat, S /= {}
  PROVE  \E m \in S : \A y \in S : m <= y
<1> DEFINE R == OpToRel(<, Nat)
<1>1. IsWellFoundedOn(R, Nat) BY NatLessThanWellFounded
<1>2. \A x, y \in Nat : x < y => <<x, y>> \in R BY Zenon DEF OpToRel
<1> HIDE DEF R
<1>3. PICK x \in S : \A y \in S : ~(<<y, x>> \in R) BY <1>1, WFMin
<1>4. \A y \in S : x \in Nat /\ y \in Nat /\ ~(y < x) BY <1>2, <1>3, Zenon
<1> QED BY <1>4

\* What is so of 0, and of i + 1 when it is of i, is so of n.
LEMMA Climb ==
  ASSUME NEW S, NEW n \in Nat, 0 \in S, \A i \in 0..(n - 1) : i \in S => i + 1 \in S
  PROVE  n \in S
<1> DEFINE T == {k \in 0..n : k \notin S}
<1>1. SUFFICES ASSUME n \notin S PROVE FALSE OBVIOUS
<1>2. T \in SUBSET Nat /\ T /= {} BY <1>1
<1>3. PICK m \in T : \A y \in T : m <= y
  <2> HIDE DEF T
  <2> QED BY <1>2, Least
<1>4. m \in 0..n /\ m \notin S OBVIOUS
<1>5. m /= 0 BY <1>4
<1>6. m - 1 \in 0..(n - 1) /\ m - 1 \in 0..n /\ ~(m <= m - 1) BY <1>4, <1>5
<1>7. m - 1 \in S BY <1>3, <1>6
<1>8. (m - 1) + 1 = m BY <1>4
<1>9. m \in S BY <1>6, <1>7, <1>8
<1> QED BY <1>4, <1>9

\* Taking out a place of the array of objects.
LEMMA GraphTaken ==
  ASSUME NEW T, NEW s \in Seq(T), NEW i \in DOMAIN s
  PROVE  /\ Graph!RemoveAt(s, i) \in Seq(T)
         /\ DOMAIN Graph!RemoveAt(s, i) = 1..(Len(s) - 1)
         /\ \A j \in 1..(Len(s) - 1) :
              Graph!RemoveAt(s, i)[j] = IF j < i THEN s[j] ELSE s[j + 1]
<1> DEFINE b == SubSeq(s, 1, i - 1)
           c == SubSeq(s, i + 1, Len(s))
           r == Graph!RemoveAt(s, i)
<1>1. i \in 1..Len(s) /\ Len(s) \in Nat BY LenProperties
<1>2. b \in Seq(T) /\ Len(b) = i - 1 /\ \A j \in 1..(i - 1) : b[j] = s[j]
  <2>1. 1 \in 1..(Len(s) + 1) /\ i - 1 \in 0..Len(s) BY <1>1
  <2>2. /\ b \in Seq(T)
        /\ Len(b) = IF 1 <= i - 1 THEN i - 1 - 1 + 1 ELSE 0
        /\ \A j \in 1..(i - 1 - 1 + 1) : b[j] = s[1 + j - 1]
    <3>1. \A j \in 1..(i - 1) : j \in 1..Len(s) BY <1>1
    <3> QED BY <2>1, <3>1, SubSeqProperties
  <2> HIDE DEF b
  <2> QED BY <1>1, <2>2
<1>3. c \in Seq(T) /\ Len(c) = Len(s) - i /\ \A j \in 1..(Len(s) - i) : c[j] = s[i + j]
  <2>1. i + 1 \in 1..(Len(s) + 1) /\ Len(s) \in 0..Len(s) BY <1>1
  <2>2. /\ c \in Seq(T)
        /\ Len(c) = IF i + 1 <= Len(s) THEN Len(s) - (i + 1) + 1 ELSE 0
        /\ \A j \in 1..(Len(s) - (i + 1) + 1) : c[j] = s[i + 1 + j - 1]
    BY <2>1, SubSeqProperties
  <2> HIDE DEF c
  <2> QED BY <1>1, <2>2
<1>4. r = b \o c BY DEF Graph!RemoveAt
<1> HIDE DEF b, c, r
<1>5. r \in Seq(T) /\ Len(r) = Len(s) - 1
      /\ \A j \in 1..(Len(s) - 1) : r[j] = IF j <= i - 1 THEN b[j] ELSE c[j - (i - 1)]
  <2>1. /\ b \o c \in Seq(T) /\ Len(b \o c) = Len(b) + Len(c)
        /\ \A j \in 1..Len(b) + Len(c) :
             (b \o c)[j] = IF j <= Len(b) THEN b[j] ELSE c[j - Len(b)]
    BY <1>2, <1>3, ConcatProperties
  <2>2. Len(b) + Len(c) = Len(s) - 1 BY <1>1, <1>2, <1>3
  <2> QED BY <1>2, <1>4, <2>1, <2>2
<1>6. DOMAIN r = 1..(Len(s) - 1) BY <1>5, LenProperties
<1>7. ASSUME NEW j \in 1..(Len(s) - 1) PROVE r[j] = IF j < i THEN s[j] ELSE s[j + 1]
  <2>1. CASE j < i BY <1>1, <1>2, <1>5, <2>1
  <2>2. CASE ~(j < i)
    <3> DEFINE k == j - (i - 1)
    <3>1. k \in 1..(Len(s) - i) /\ i + k = j + 1 BY <1>1, <2>2
    <3>2. r[j] = c[k]
      <4>1. ~(j <= i - 1) BY <1>1, <2>2
      <4> QED BY <1>5, <4>1
    <3> HIDE DEF k
    <3> QED BY <1>3, <2>2, <3>1, <3>2
  <2> QED BY <2>1, <2>2
<1> QED BY <1>5, <1>6, <1>7 DEF r

\* The cardinality of a graph's nodes is that of the theorems on finite sets.
LEMMA GraphCounts == \A S : Graph!Cardinality(S) = Cardinality(S)
BY DEF Graph!Cardinality, Cardinality

\* A set has at least as many members as different ones of them are named.
LEMMA NodesCount ==
  ASSUME NEW S, IsFiniteSet(S), NEW n \in Nat, NEW p \in [1..n -> S],
         \A i, j \in 1..n : p[i] = p[j] => i = j
  PROVE  Graph!Cardinality(S) \in Nat /\ n <= Graph!Cardinality(S)
<1>1. p \in Injection(1..n, S) BY DEF Injection, IsInjective
<1>2. Cardinality(1..n) <= Cardinality(S) BY <1>1, FS_Injection
<1>3. Cardinality(1..n) = n BY FS_Interval
<1> QED BY <1>2, <1>3, FS_CardinalityType, GraphCounts

-----------------------------------------------------------------------------
(* Sequences of objects. *)

\* x is in s once, or not at all.
Once(s, x) == \A i, j \in DOMAIN s : s[i] = x /\ s[j] = x => i = j

\* Contains, of a sequence over its places.
LEMMA ContainsIs ==
  ASSUME NEW T, NEW s \in Seq(T), NEW x
  PROVE  Graph!Contains(s, x) <=> \E i \in DOMAIN s : s[i] = x
<1>1. DOMAIN s = 1..Len(s) BY LenProperties
<1> QED BY <1>1 DEF Graph!Contains

\* r is s and then t.
Row(r, s, t) ==
  /\ Len(r) = Len(s) + Len(t)
  /\ \A i \in DOMAIN s : i \in DOMAIN r /\ r[i] = s[i]
  /\ \A i \in DOMAIN t : Len(s) + i \in DOMAIN r /\ r[Len(s) + i] = t[i]
  /\ \A i \in DOMAIN r : \/ i \in DOMAIN s
                         \/ i - Len(s) \in DOMAIN t /\ i = Len(s) + (i - Len(s))

\* What two sequences in a row contain.
LEMMA InARow ==
  ASSUME NEW T, NEW s \in Seq(T), NEW t \in Seq(T)
  PROVE  /\ s \o t \in Seq(T) /\ Row(s \o t, s, t)
         /\ \A x : /\ Graph!Contains(s \o t, x) <=> Graph!Contains(s, x) \/ Graph!Contains(t, x)
                   /\ Once(s, x) /\ Once(t, x) /\ ~(Graph!Contains(s, x) /\ Graph!Contains(t, x)) => Once(s \o t, x)
<1> DEFINE r == s \o t
<1>1. /\ r \in Seq(T) /\ Len(r) = Len(s) + Len(t) /\ Len(s) \in Nat /\ Len(t) \in Nat
      /\ \A i \in 1..(Len(s) + Len(t)) : r[i] = IF i <= Len(s) THEN s[i] ELSE t[i - Len(s)]
      /\ DOMAIN s = 1..Len(s) /\ DOMAIN t = 1..Len(t) /\ DOMAIN r = 1..Len(r)
  <2>1. /\ r \in Seq(T) /\ Len(r) = Len(s) + Len(t) /\ Len(s) \in Nat /\ Len(t) \in Nat
    BY ConcatProperties, LenProperties
  <2>2. \A i \in 1..(Len(s) + Len(t)) : r[i] = IF i <= Len(s) THEN s[i] ELSE t[i - Len(s)]
    BY ConcatProperties
  <2>3. DOMAIN s = 1..Len(s) /\ DOMAIN t = 1..Len(t) BY LenProperties
  <2> HIDE DEF r
  <2>4. DOMAIN r = 1..Len(r) BY <2>1, LenProperties
  <2> QED BY <2>1, <2>2, <2>3, <2>4
<1> HIDE DEF r
<1>2. \A i \in DOMAIN s : i \in DOMAIN r /\ r[i] = s[i] BY <1>1
<1>3. \A i \in DOMAIN t : Len(s) + i \in DOMAIN r /\ r[Len(s) + i] = t[i]
  <2> TAKE i \in DOMAIN t
  <2> DEFINE k == Len(s) + i
  <2>1. i \in 1..Len(t) BY <1>1
  <2>2. k \in 1..(Len(s) + Len(t)) /\ ~(k <= Len(s)) /\ k - Len(s) = i BY <1>1, <2>1
  <2> HIDE DEF k
  <2>3. r[k] = t[k - Len(s)] BY <1>1, <2>2
  <2> QED BY <1>1, <2>2, <2>3 DEF k
<1>4. \A i \in DOMAIN r : \/ i \in DOMAIN s
                          \/ i - Len(s) \in DOMAIN t /\ i = Len(s) + (i - Len(s))
  BY <1>1
<1>5. ASSUME NEW x
      PROVE  /\ Graph!Contains(r, x) <=> Graph!Contains(s, x) \/ Graph!Contains(t, x)
             /\ Once(s, x) /\ Once(t, x) /\ ~(Graph!Contains(s, x) /\ Graph!Contains(t, x)) => Once(r, x)
  <2>0. /\ Graph!Contains(r, x) <=> \E i \in DOMAIN r : r[i] = x
        /\ Graph!Contains(s, x) <=> \E i \in DOMAIN s : s[i] = x
        /\ Graph!Contains(t, x) <=> \E i \in DOMAIN t : t[i] = x
    BY <1>1, ContainsIs
  <2>1. Graph!Contains(r, x) <=> Graph!Contains(s, x) \/ Graph!Contains(t, x)
    BY <1>2, <1>3, <1>4, <2>0
  <2>2. ASSUME Once(s, x), Once(t, x), ~(Graph!Contains(s, x) /\ Graph!Contains(t, x)),
               NEW i \in DOMAIN r, NEW j \in DOMAIN r, r[i] = x, r[j] = x
        PROVE  i = j
    <3>1. \A k \in DOMAIN r : r[k] = x => \/ k \in DOMAIN s /\ s[k] = x
                                          \/ k - Len(s) \in DOMAIN t /\ t[k - Len(s)] = x
      BY <1>2, <1>3, <1>4
    <3>2. CASE Graph!Contains(s, x)
      <4>1. i \in DOMAIN s /\ s[i] = x /\ j \in DOMAIN s /\ s[j] = x BY <2>0, <2>2, <3>1, <3>2
      <4> QED BY <2>2, <4>1 DEF Once
    <3>3. CASE ~Graph!Contains(s, x)
      <4>1. /\ i - Len(s) \in DOMAIN t /\ t[i - Len(s)] = x
            /\ j - Len(s) \in DOMAIN t /\ t[j - Len(s)] = x
        BY <2>0, <2>2, <3>1, <3>3
      <4>2. i - Len(s) = j - Len(s) BY <2>2, <4>1 DEF Once
      <4>3. i \in Nat /\ j \in Nat BY <1>1
      <4> QED BY <1>1, <4>2, <4>3
    <3> QED BY <3>2, <3>3
  <2> QED BY <2>1, <2>2 DEF Once
<1>6. Row(r, s, t) BY <1>1, <1>2, <1>3, <1>4 DEF Row
<1> QED BY <1>1, <1>5, <1>6 DEF r

-----------------------------------------------------------------------------
(* Sequences made one into another. *)

\* What the functions F[1] to F[n] do to b, one after the other.
Applied(f, X, n, b, F) == f \in [0..n -> X] /\ f[0] = b /\ \A i \in 1..n : f[i] = F[i][f[i - 1]]

\* A function of the turns, each defined from the one before.
LEMMA Repeated ==
  ASSUME NEW X, NEW n \in Nat, NEW b \in X, NEW F \in [1..n -> [X -> X]]
  PROVE  \E f : Applied(f, X, n, b, F)
<1> DEFINE S == {k \in 0..n : \E f \in [0..k -> X] : f[0] = b /\ \A i \in 1..k : f[i] = F[i][f[i - 1]]}
<1>1. 0 \in S
  <2> DEFINE f == [i \in 0..0 |-> b]
  <2>1. f \in [0..0 -> X] /\ f[0] = b OBVIOUS
  <2>2. \A i \in 1..0 : f[i] = F[i][f[i - 1]] OBVIOUS
  <2>3. 0 \in 0..n OBVIOUS
  <2> HIDE DEF f
  <2> QED BY <2>1, <2>2, <2>3
<1>2. ASSUME NEW k \in 0..(n - 1), k \in S PROVE k + 1 \in S
  <2>1. PICK f \in [0..k -> X] : f[0] = b /\ \A i \in 1..k : f[i] = F[i][f[i - 1]] BY <1>2
  <2>2. k + 1 \in 1..n /\ k \in 0..k BY <1>2
  <2>3. F[k + 1] \in [X -> X] /\ f[k] \in X BY <2>1, <2>2
  <2>4. F[k + 1][f[k]] \in X BY <2>3
  <2> DEFINE g == [i \in 0..(k + 1) |-> IF i = k + 1 THEN F[k + 1][f[k]] ELSE f[i]]
  <2>5. g \in [0..(k + 1) -> X]
    <3>1. ASSUME NEW i \in 0..(k + 1), i /= k + 1 PROVE f[i] \in X
      <4>1. i \in 0..k BY <3>1
      <4> QED BY <2>1, <4>1
    <3> HIDE DEF S
    <3> QED BY <2>4, <3>1
  <2>6. g[0] = b
    <3>1. 0 \in 0..(k + 1) /\ 0 /= k + 1 OBVIOUS
    <3> HIDE DEF S
    <3> QED BY <2>1, <3>1
  <2>7. ASSUME NEW i \in 1..(k + 1) PROVE g[i] = F[i][g[i - 1]]
    <3>1. i \in 0..(k + 1) /\ i - 1 \in 0..(k + 1) /\ i - 1 /= k + 1 OBVIOUS
    <3>2. g[i - 1] = f[i - 1] BY <3>1
    <3>3. CASE i = k + 1
      <4>1. i - 1 = k BY <3>3
      <4>2. g[i] = F[k + 1][f[k]] BY <3>1, <3>3
      <4> HIDE DEF g, S
      <4> QED BY <3>2, <3>3, <4>1, <4>2
    <3>4. CASE i /= k + 1
      <4>1. i \in 1..k BY <3>4
      <4>2. g[i] = f[i] BY <3>1, <3>4
      <4> HIDE DEF g, S
      <4> QED BY <2>1, <3>2, <4>1, <4>2
    <3> QED BY <3>3, <3>4
  <2>8. k + 1 \in 0..n BY <2>2
  <2> HIDE DEF g
  <2> QED BY <2>5, <2>6, <2>7, <2>8
<1>3. n \in S
  <2> HIDE DEF S
  <2> QED BY <1>1, <1>2, Climb
<1> QED BY <1>3 DEF Applied

\* All the sequences of a sequence, one after the other.
LEMMA Flattened ==
  ASSUME NEW T, NEW q \in Seq(Seq(T)), Len(q) /= 0
  PROVE  \E f \in [1..Len(q) -> Seq(T)] : /\ Graph!FlattenSeq(q) = f[Len(q)] /\ f[1] = q[1]
                                          /\ \A i \in 2..Len(q) : f[i] = f[i - 1] \o q[i]
<1> DEFINE n == Len(q)
           Def(f) == f = [i \in 1..n |-> IF i = 1 THEN q[i] ELSE f[i - 1] \o q[i]]
<1>1. n \in Nat /\ n >= 1 /\ DOMAIN q = 1..n /\ \A i \in 1..n : q[i] \in Seq(T)
  BY LenProperties, ElementOfSeq
<1> HIDE DEF n
<1> DEFINE F == [i \in 1..n |-> [s \in Seq(T) |-> s \o q[i]]]
<1>2. F \in [1..n -> [Seq(T) -> Seq(T)]]
  <2>1. \A i \in 1..n, s \in Seq(T) : s \o q[i] \in Seq(T) BY <1>1, ConcatProperties
  <2> QED BY <2>1
<1>3. PICK f \in [0..n -> Seq(T)] : f[0] = <<>> /\ \A i \in 1..n : f[i] = F[i][f[i - 1]]
  <2>1. <<>> \in Seq(T) OBVIOUS
  <2> HIDE DEF F
  <2>2. n \in Nat BY <1>1
  <2>3. \E f : Applied(f, Seq(T), n, <<>>, F) BY ONLY <1>2, <2>1, <2>2, Repeated
  <2> QED BY <2>3 DEF Applied
<1>4. \A i \in 1..n : f[i] \in Seq(T) /\ f[i - 1] \in Seq(T) /\ f[i] = f[i - 1] \o q[i]
  <2> TAKE i \in 1..n
  <2>1. i \in 0..n /\ i - 1 \in 0..n BY <1>1
  <2>2. f[i] \in Seq(T) /\ f[i - 1] \in Seq(T) BY <2>1
  <2> QED BY <1>3, <2>2
<1>5. f[1] = q[1]
  <2>1. 1 \in 1..n /\ 1 - 1 = 0 BY <1>1
  <2>2. f[1] = <<>> \o q[1] /\ q[1] \in Seq(T) BY <1>1, <1>3, <1>4, <2>1
  <2> HIDE DEF F
  <2> QED BY <2>2, ConcatEmptySeq
<1> DEFINE g == [i \in 1..n |-> f[i]]
<1>6. g \in [1..n -> Seq(T)] BY <1>4
<1>7. \A i \in 1..n : g[i] = IF i = 1 THEN q[i] ELSE g[i - 1] \o q[i]
  <2> TAKE i \in 1..n
  <2>1. CASE i = 1 BY <1>5, <2>1
  <2>2. CASE i /= 1
    <3>1. i - 1 \in 1..n BY <1>1, <2>2
    <3> HIDE DEF F
    <3> QED BY <1>4, <2>2, <3>1
  <2> QED BY <2>1, <2>2
<1>8. Def(g)
  <2>1. g = [i \in 1..n |-> g[i]] OBVIOUS
  <2> HIDE DEF g, F
  <2> QED BY <1>7, <2>1
<1> HIDE DEF g, F
<1> DEFINE h == CHOOSE k : Def(k)
<1>9. Def(h)
  <2> HIDE DEF Def
  <2> QED BY <1>8
<1>10. Graph!FlattenSeq(q) = h[n] BY <1>1 DEF Graph!FlattenSeq, n
<1> HIDE DEF h
<1>11. \A i \in 1..n : h[i] = IF i = 1 THEN q[i] ELSE h[i - 1] \o q[i]
  <2>1. h = [i \in 1..n |-> IF i = 1 THEN q[i] ELSE h[i - 1] \o q[i]] BY <1>9
  <2> QED BY <2>1
<1>16. h = [i \in 1..n |-> h[i]]
  <2>1. h = [i \in 1..n |-> IF i = 1 THEN q[i] ELSE h[i - 1] \o q[i]] BY <1>9
  <2> QED BY <2>1
<1> HIDE DEF Def
<1> DEFINE S == {i \in 0..n : i = 0 \/ h[i] \in Seq(T)}
<1>12. ASSUME NEW k \in 1..n PROVE h[k] \in Seq(T)
  <2>1. 0 \in S BY <1>1
  <2>2. ASSUME NEW i \in 0..(k - 1), i \in S PROVE i + 1 \in S
    <3>1. i + 1 \in 1..n /\ (i + 1) - 1 = i /\ i + 1 \in 0..n BY <1>1
    <3>2. CASE i = 0
      <4>1. h[1] = q[1] /\ 1 \in 0..n /\ q[1] \in Seq(T) BY <1>1, <1>11
      <4> QED BY <4>1, <3>2
    <3>3. CASE i /= 0
      <4>1. h[i] \in Seq(T) /\ q[i + 1] \in Seq(T) BY <1>1, <2>2, <3>1, <3>3
      <4>2. h[i + 1] = h[i] \o q[i + 1]
        <5>1. i + 1 /= 1 BY <3>3
        <5> DEFINE j == i + 1
        <5>2. j \in 1..n /\ j - 1 = i /\ j /= 1 BY <3>1, <5>1
        <5> HIDE DEF j
        <5>3. h[j] = h[j - 1] \o q[j] BY ONLY <1>11, <5>2
        <5> QED BY <5>2, <5>3 DEF j
      <4>3. h[i + 1] \in Seq(T) BY <4>1, <4>2, ConcatProperties
      <4> QED BY <3>1, <4>3
    <3> QED BY <3>2, <3>3
  <2>3. k \in Nat /\ k /= 0 BY <1>1
  <2>4. k \in S
    <3> HIDE DEF S
    <3> QED BY <2>1, <2>2, <2>3, Climb
  <2> QED BY <2>3, <2>4
<1> HIDE DEF S
<1>13. h \in [1..n -> Seq(T)] BY <1>12, <1>16
<1>14. h[1] = q[1] BY <1>1, <1>11
<1>15. \A i \in 2..n : h[i] = h[i - 1] \o q[i]
  <2> TAKE i \in 2..n
  <2>1. i \in 1..n /\ i /= 1 BY <1>1
  <2> QED BY <1>11, <2>1
<1> QED BY <1>10, <1>13, <1>14, <1>15 DEF n

\* A flattened sequence has what its sequences have; each once, when it is once in one of them.
LEMMA FlattenedContains ==
  ASSUME NEW T, NEW q \in Seq(Seq(T))
  PROVE  /\ Graph!FlattenSeq(q) \in Seq(T)
         /\ \A x : Graph!Contains(Graph!FlattenSeq(q), x) <=> \E i \in DOMAIN q : Graph!Contains(q[i], x)
         /\ \A x : /\ \A i \in DOMAIN q : Once(q[i], x)
                   /\ \A i, j \in DOMAIN q : Graph!Contains(q[i], x) /\ Graph!Contains(q[j], x) => i = j
                   => Once(Graph!FlattenSeq(q), x)
<1>0. Len(q) \in Nat /\ DOMAIN q = 1..Len(q) /\ \A i \in 1..Len(q) : q[i] \in Seq(T)
  BY LenProperties, ElementOfSeq
<1>1. CASE Len(q) = 0
  <2>1. Graph!FlattenSeq(q) = q /\ q = <<>> BY <1>1, EmptySeq DEF Graph!FlattenSeq
  <2>2. <<>> \in Seq(T) /\ DOMAIN <<>> = {} OBVIOUS
  <2>3. \A x : ~Graph!Contains(<<>>, x) /\ Once(<<>>, x) BY <2>2, ContainsIs DEF Once
  <2> QED BY <2>1, <2>2, <2>3
<1>2. CASE Len(q) /= 0
  <2> DEFINE n == Len(q)
  <2>1. PICK f \in [1..n -> Seq(T)] : /\ Graph!FlattenSeq(q) = f[n] /\ f[1] = q[1]
                                      /\ \A i \in 2..n : f[i] = f[i - 1] \o q[i]
    BY <1>2, Flattened
  <2>2. n \in Nat /\ n >= 1 BY <1>0, <1>2
  <2> HIDE DEF n
  <2> DEFINE In(k, x) == Graph!Contains(f[k], x) <=> \E i \in 1..k : Graph!Contains(q[i], x)
             Apart(x) == /\ \A i \in 1..n : Once(q[i], x)
                         /\ \A i, j \in 1..n : Graph!Contains(q[i], x) /\ Graph!Contains(q[j], x) => i = j
             S == {k \in 0..n : k = 0 \/ \A x : In(k, x) /\ (Apart(x) => Once(f[k], x))}
  <2>3. ASSUME NEW k \in 0..(n - 1), k \in S PROVE k + 1 \in S
    <3>0. k + 1 \in 0..n /\ k + 1 \in 1..n BY <2>2
    <3>1. CASE k = 0
      <4>1. f[k + 1] = q[1] BY <2>1, <3>1
      <4>2. \A i \in 1..(k + 1) : i = 1 BY <3>1
      <4>3. 1 \in 1..(k + 1) /\ 1 \in 1..n BY <3>1, <2>2
      <4>4. ASSUME NEW x PROVE In(k + 1, x) /\ (Apart(x) => Once(f[k + 1], x))
        <5>1. Apart(x) => Once(q[1], x) BY <4>3
        <5>2. In(k + 1, x) BY <4>1, <4>2, <4>3
        <5> QED BY <4>1, <5>1, <5>2
      <4> HIDE DEF In, Apart
      <4> QED BY <3>0, <4>4
    <3>2. CASE k /= 0
      <4>1. k + 1 \in 2..n /\ k \in 1..n /\ (k + 1) - 1 = k BY <2>2, <3>2
      <4>2. f[k + 1] = f[k] \o q[k + 1] BY <2>1, <4>1
      <4>3. f[k] \in Seq(T) /\ q[k + 1] \in Seq(T) BY <1>0, <4>1, <3>0 DEF n
      <4>4. ASSUME NEW x PROVE In(k + 1, x) /\ (Apart(x) => Once(f[k + 1], x))
        <5>1. In(k, x) /\ (Apart(x) => Once(f[k], x)) BY <2>3, <3>2
        <5>2. Graph!Contains(f[k + 1], x) <=> Graph!Contains(f[k], x) \/ Graph!Contains(q[k + 1], x)
          BY <4>2, <4>3, InARow
        <5>3. \A i : i \in 1..(k + 1) <=> i \in 1..k \/ i = k + 1 BY <4>1
        <5>4. In(k + 1, x)
          <6> HIDE DEF S, Apart
          <6> QED BY <5>1, <5>2, <5>3
        <5>5. ASSUME Apart(x) PROVE Once(f[k + 1], x)
          <6>1. Once(f[k], x) /\ Once(q[k + 1], x) BY <5>1, <5>5, <3>0
          <6>2. ~(Graph!Contains(f[k], x) /\ Graph!Contains(q[k + 1], x))
            <7>1. SUFFICES ASSUME Graph!Contains(f[k], x), Graph!Contains(q[k + 1], x)
                           PROVE FALSE OBVIOUS
            <7>2. PICK i \in 1..k : Graph!Contains(q[i], x) BY <5>1, <7>1
            <7>3. i \in 1..n /\ i /= k + 1 BY ONLY <2>2, <4>1, k \in 0..(n - 1), i \in 1..k
            <7> QED BY <3>0, <5>5, <7>1, <7>2, <7>3
          <6> HIDE DEF S, Apart, In
          <6> QED BY <4>2, <4>3, <6>1, <6>2, InARow
        <5> QED BY <5>4, <5>5
      <4> HIDE DEF In, Apart
      <4> QED BY <3>0, <4>4
    <3> QED BY <3>1, <3>2
  <2>4. n \in S
    <3>1. 0 \in S BY <2>2
    <3> HIDE DEF S
    <3> QED BY <2>2, <2>3, <3>1, Climb
  <2>5. \A x : In(n, x) /\ (Apart(x) => Once(f[n], x))
    <3> HIDE DEF In, Apart
    <3> QED BY <2>2, <2>4
  <2>6. f[n] \in Seq(T) BY ONLY <2>2, f \in [1..n -> Seq(T)]
  <2>7. DOMAIN q = 1..n BY ONLY <1>0 DEF n
  <2> HIDE DEF S
  <2> QED BY <2>1, <2>5, <2>6, <2>7
<1> QED BY <1>1, <1>2

\* Sequences of three, one after the other.
LEMMA FlattenedThrees ==
  ASSUME NEW T, NEW q \in Seq(Seq(T)), \A i \in DOMAIN q : Len(q[i]) = 3
  PROVE  /\ Len(Graph!FlattenSeq(q)) = 3 * Len(q)
         /\ \A i \in DOMAIN q, j \in 1..3 : Graph!FlattenSeq(q)[3 * (i - 1) + j] = q[i][j]
<1>0. /\ Len(q) \in Nat /\ DOMAIN q = 1..Len(q)
      /\ \A i \in 1..Len(q) : q[i] \in Seq(T) /\ DOMAIN q[i] = 1..3
  <2>1. Len(q) \in Nat /\ DOMAIN q = 1..Len(q) /\ \A i \in 1..Len(q) : q[i] \in Seq(T)
    BY LenProperties, ElementOfSeq
  <2> QED BY <2>1, LenProperties
<1>1. CASE Len(q) = 0 BY <1>0, <1>1 DEF Graph!FlattenSeq
<1>2. CASE Len(q) /= 0
  <2> DEFINE n == Len(q)
  <2>1. PICK f \in [1..n -> Seq(T)] : /\ Graph!FlattenSeq(q) = f[n] /\ f[1] = q[1]
                                      /\ \A i \in 2..n : f[i] = f[i - 1] \o q[i]
    BY <1>2, Flattened
  <2>2. n \in Nat /\ n >= 1 BY <1>0, <1>2
  <2>0. \A i \in 1..n : Len(q[i]) = 3 BY <1>0
  <2> HIDE DEF n
  <2> DEFINE Is(k) == /\ Len(f[k]) = 3 * k
                      /\ \A i \in 1..k, j \in 1..3 : f[k][3 * (i - 1) + j] = q[i][j]
             S == {k \in 0..n : k = 0 \/ Is(k)}
  <2>3. ASSUME NEW k \in 0..(n - 1), k \in S PROVE k + 1 \in S
    <3>0. k + 1 \in 0..n /\ k + 1 \in 1..n BY <2>2
    <3>1. CASE k = 0
      <4>1. f[k + 1] = q[1] /\ Len(q[1]) = 3 BY <2>0, <2>1, <2>2, <3>1
      <4>2. \A i \in 1..(k + 1), j \in 1..3 : i = 1 /\ 3 * (i - 1) + j = j BY <3>1
      <4>3. Is(k + 1) BY <3>1, <4>1, <4>2
      <4> HIDE DEF Is
      <4> QED BY <3>0, <4>3
    <3>2. CASE k /= 0
      <4>1. k + 1 \in 2..n /\ k \in 1..n /\ (k + 1) - 1 = k BY <2>2, <3>2
      <4>2. f[k + 1] = f[k] \o q[k + 1] BY <2>1, <4>1
      <4>3. /\ f[k] \in Seq(T) /\ q[k + 1] \in Seq(T) /\ DOMAIN q[k + 1] = 1..3
            /\ Len(q[k + 1]) = 3
        BY <1>0, <2>0, <4>1, <3>0 DEF n
      <4>4. Is(k) BY <2>3, <3>2
      <4>5. Len(f[k]) = 3 * k /\ DOMAIN f[k] = 1..(3 * k) BY <4>3, <4>4, LenProperties
      <4>6. /\ Len(f[k + 1]) = Len(f[k]) + Len(q[k + 1])
            /\ \A i \in DOMAIN f[k] : f[k + 1][i] = f[k][i]
            /\ \A i \in DOMAIN q[k + 1] : f[k + 1][Len(f[k]) + i] = q[k + 1][i]
        <5> HIDE DEF S, Is
        <5>1. Row(f[k] \o q[k + 1], f[k], q[k + 1]) BY <4>3, InARow
        <5>2. Row(f[k + 1], f[k], q[k + 1]) BY <4>2, <5>1
        <5> QED BY <5>2 DEF Row
      <4>7. Len(f[k + 1]) = 3 * (k + 1) BY <4>3, <4>5, <4>6, <4>1
      <4>8. ASSUME NEW i \in 1..(k + 1), NEW j \in 1..3
            PROVE  f[k + 1][3 * (i - 1) + j] = q[i][j]
        <5>1. CASE i = k + 1
          <6>1. 3 * (i - 1) + j = Len(f[k]) + j BY <4>1, <4>5, <5>1
          <6> QED BY <4>3, <4>6, <5>1, <6>1
        <5>2. CASE i /= k + 1
          <6>1. i \in 1..k BY <4>1, <5>2
          <6>2. 3 * (i - 1) + j \in 1..(3 * k) BY <4>1, <6>1
          <6> QED BY <4>4, <4>5, <4>6, <6>1, <6>2
        <5> QED BY <5>1, <5>2
      <4>9. Is(k + 1) BY <4>7, <4>8
      <4> HIDE DEF Is
      <4> QED BY <3>0, <4>9
    <3> QED BY <3>1, <3>2
  <2>4. n \in S
    <3>1. 0 \in S BY <2>2
    <3> HIDE DEF S
    <3> QED BY <2>2, <2>3, <3>1, Climb
  <2>5. Is(n)
    <3> HIDE DEF Is
    <3> QED BY <2>2, <2>4
  <2>6. DOMAIN q = 1..n /\ n = Len(q) BY <1>0 DEF n
  <2> HIDE DEF S
  <2> QED BY <2>1, <2>5, <2>6
<1> QED BY <1>1, <1>2

-----------------------------------------------------------------------------
(* The array, what is spliced out of it. *)

\* A place taken out of a sequence: once is at most once still.
LEMMA TakenContains ==
  ASSUME NEW T, NEW s \in Seq(T), NEW i \in DOMAIN s
  PROVE  /\ \A x : Once(s, x) => Once(Graph!RemoveAt(s, i), x)
         /\ \A x : Graph!Contains(Graph!RemoveAt(s, i), x) <=> \E j \in DOMAIN s : j /= i /\ s[j] = x
<1> DEFINE r == Graph!RemoveAt(s, i)
           n == Len(s)
<1>1. /\ r \in Seq(T) /\ DOMAIN r = 1..(n - 1)
      /\ \A j \in 1..(n - 1) : r[j] = IF j < i THEN s[j] ELSE s[j + 1]
  BY GraphTaken
<1>2. n \in Nat /\ DOMAIN s = 1..n /\ i \in 1..n BY LenProperties
<1> HIDE DEF r, n
<1>3. ASSUME NEW x, Once(s, x), NEW j \in DOMAIN r, NEW k \in DOMAIN r, r[j] = x, r[k] = x
      PROVE  j = k
  <2> DEFINE u == IF j < i THEN j ELSE j + 1
             v == IF k < i THEN k ELSE k + 1
  <2>1. u \in DOMAIN s /\ v \in DOMAIN s /\ (u = v => j = k) BY <1>1, <1>2
  <2>2. s[u] = x /\ s[v] = x BY <1>1, <1>2, <1>3
  <2> HIDE DEF u, v
  <2> QED BY <1>3, <2>1, <2>2 DEF Once
<1>4. ASSUME NEW x PROVE Graph!Contains(r, x) <=> \E j \in DOMAIN s : j /= i /\ s[j] = x
  <2>1. Graph!Contains(r, x) <=> \E j \in DOMAIN r : r[j] = x BY <1>1, ContainsIs
  <2>2. ASSUME NEW j \in DOMAIN r, r[j] = x PROVE \E k \in DOMAIN s : k /= i /\ s[k] = x
    <3>1. CASE j < i
      <4>1. j \in DOMAIN s /\ j /= i /\ s[j] = x BY <1>1, <1>2, <2>2, <3>1
      <4> QED BY <4>1
    <3>2. CASE ~(j < i)
      <4>1. j + 1 \in DOMAIN s /\ j + 1 /= i /\ s[j + 1] = x BY <1>1, <1>2, <2>2, <3>2
      <4> QED BY <4>1
    <3> QED BY <3>1, <3>2
  <2>3. ASSUME NEW k \in DOMAIN s, k /= i, s[k] = x PROVE \E j \in DOMAIN r : r[j] = x
    <3>1. CASE k < i
      <4>1. k \in DOMAIN r /\ r[k] = x BY <1>1, <1>2, <2>3, <3>1
      <4> QED BY <4>1
    <3>2. CASE ~(k < i)
      <4> DEFINE j == k - 1
      <4>1. j \in 1..(n - 1) /\ ~(j < i) /\ j + 1 = k BY <1>2, <2>3, <3>2
      <4> HIDE DEF j
      <4>2. j \in DOMAIN r /\ r[j] = x BY <1>1, <2>3, <4>1
      <4> QED BY <4>2
    <3> QED BY <3>1, <3>2
  <2> QED BY <2>1, <2>2, <2>3
<1> QED BY <1>3, <1>4 DEF r, Once

\* What is in the array is taken out where it is first, what is not takes the last out.
LEMMA SplicedAt ==
  ASSUME NEW T, NEW a \in Seq(T), NEW o
  PROVE  \/ a = <<>> /\ Graph!Spliced(a, o) = a
         \/ \E i \in DOMAIN a : Graph!Spliced(a, o) = Graph!RemoveAt(a, i) /\ (Graph!Contains(a, o) => a[i] = o)
<1>0. Len(a) \in Nat /\ DOMAIN a = 1..Len(a) BY LenProperties
<1>1. CASE Graph!Contains(a, o)
  <2> DEFINE I == {i \in 1..Len(a) : a[i] = o}
  <2>1. Graph!Spliced(a, o) = Graph!RemoveAt(a, Graph!Min(I))
    BY <1>1 DEF Graph!Spliced, Graph!RemoveFirst, Graph!SelectInSeq, Graph!Contains
  <2>2. I \in SUBSET Nat /\ I /= {} BY <1>1, <1>0 DEF Graph!Contains
  <2>3. Graph!Min(I) \in I
    <3> HIDE DEF I
    <3>1. \E m \in I : \A y \in I : m <= y BY <2>2, Least
    <3> QED BY <3>1 DEF Graph!Min
  <2> QED BY <1>0, <2>1, <2>3
<1>2. CASE ~Graph!Contains(a, o)
  <2>1. CASE a = <<>> BY <1>2, <2>1 DEF Graph!Spliced
  <2>2. CASE a /= <<>>
    <3>1. Len(a) \in DOMAIN a
      <4>1. Len(a) /= 0 BY <2>2, EmptySeq
      <4> QED BY <1>0, <4>1
    <3>2. Graph!Spliced(a, o) = Graph!Front(a) BY <1>2, <2>2 DEF Graph!Spliced
    <3>3. SubSeq(a, Len(a) + 1, Len(a)) = <<>>
      <4>1. Len(a) + 1 \in 1..(Len(a) + 1) /\ Len(a) \in 0..Len(a) BY <1>0
      <4>2. /\ SubSeq(a, Len(a) + 1, Len(a)) \in Seq(T)
            /\ Len(SubSeq(a, Len(a) + 1, Len(a)))
                 = IF Len(a) + 1 <= Len(a) THEN Len(a) - (Len(a) + 1) + 1 ELSE 0
        BY <4>1, SubSeqProperties
      <4>3. Len(SubSeq(a, Len(a) + 1, Len(a))) = 0 BY <1>0, <4>2
      <4> QED BY <4>2, <4>3, EmptySeq
    <3>4. SubSeq(a, 1, Len(a) - 1) \in Seq(T)
      <4>1. 1 \in 1..(Len(a) + 1) /\ Len(a) - 1 \in 0..Len(a) BY <1>0, <3>1
      <4>2. \A i \in 1..(Len(a) - 1) : i \in 1..Len(a) BY <1>0
      <4> QED BY <4>1, <4>2, SubSeqProperties
    <3>5. Graph!RemoveAt(a, Len(a)) = Graph!Front(a)
      BY <3>3, <3>4, ConcatEmptySeq DEF Graph!RemoveAt, Graph!Front
    <3> QED BY <1>2, <3>1, <3>2, <3>5
  <2> QED BY <2>1, <2>2
<1> QED BY <1>1, <1>2

\* A splice of what is in the array takes out one of it, and nothing else.
LEMMA SplicedIs ==
  ASSUME NEW T, NEW a \in Seq(T), NEW o
  PROVE  /\ Graph!Spliced(a, o) \in Seq(T)
         /\ \A x : Once(a, x) => Once(Graph!Spliced(a, o), x)
         /\ Graph!Contains(a, o) /\ Once(a, o) =>
              \A x : Graph!Contains(Graph!Spliced(a, o), x) <=> x /= o /\ Graph!Contains(a, x)
<1>1. CASE a = <<>> /\ Graph!Spliced(a, o) = a
  <2>1. ~Graph!Contains(a, o) BY <1>1 DEF Graph!Contains
  <2> QED BY <1>1, <2>1
<1>2. ASSUME NEW i \in DOMAIN a, Graph!Spliced(a, o) = Graph!RemoveAt(a, i), Graph!Contains(a, o) => a[i] = o
      PROVE  /\ Graph!Spliced(a, o) \in Seq(T)
             /\ \A x : Once(a, x) => Once(Graph!Spliced(a, o), x)
             /\ Graph!Contains(a, o) /\ Once(a, o) =>
                  \A x : Graph!Contains(Graph!Spliced(a, o), x) <=> x /= o /\ Graph!Contains(a, x)
  <2>1. Graph!Spliced(a, o) \in Seq(T) BY <1>2, GraphTaken
  <2>2. \A x : Once(a, x) => Once(Graph!Spliced(a, o), x) BY <1>2, TakenContains
  <2>3. ASSUME Graph!Contains(a, o), Once(a, o), NEW x
        PROVE  Graph!Contains(Graph!Spliced(a, o), x) <=> x /= o /\ Graph!Contains(a, x)
    <3>1. Graph!Contains(Graph!Spliced(a, o), x) <=> \E j \in DOMAIN a : j /= i /\ a[j] = x
      BY <1>2, TakenContains
    <3>2. Graph!Contains(a, x) <=> \E j \in DOMAIN a : a[j] = x BY ContainsIs
    <3>3. \A j \in DOMAIN a : a[j] = o <=> j = i BY <1>2, <2>3 DEF Once
    <3> QED BY <3>1, <3>2, <3>3
  <2> QED BY <2>1, <2>2, <2>3
<1> QED BY <1>1, <1>2, SplicedAt

\* What a fold over q is given for each set of its places.
Folds(f, a, q, k) ==
  f = [s \in SUBSET (1..k) |-> IF s = {} THEN a ELSE Graph!Spliced(f[s \ {Graph!Max(s)}], q[Graph!Max(s)])]

LEMMA MaxIs == ASSUME NEW k \in Nat, NEW s \in SUBSET (1..k), k \in s PROVE Graph!Max(s) = k
<1>1. k \in s /\ \A y \in s : k >= y OBVIOUS
<1>2. \A x \in s : (\A y \in s : x >= y) => x = k OBVIOUS
<1> QED BY <1>1, <1>2 DEF Graph!Max

\* The recursive function that the library folds with is defined.
LEMMA FoldsExist == ASSUME NEW a, NEW q, NEW n \in Nat PROVE \E f : Folds(f, a, q, n)
<1> DEFINE S == {k \in Nat : \E f : Folds(f, a, q, k)}
           Turn(f, s) == IF s = {} THEN a ELSE Graph!Spliced(f[s \ {Graph!Max(s)}], q[Graph!Max(s)])
<1>1. 0 \in S
  <2> DEFINE f == [s \in SUBSET (1..0) |-> a]
  <2>1. \A s \in SUBSET (1..0) : s = {} OBVIOUS
  <2>2. f = [s \in SUBSET (1..0) |-> IF s = {} THEN a ELSE Graph!Spliced(f[s \ {Graph!Max(s)}], q[Graph!Max(s)])]
    BY <2>1
  <2>3. Folds(f, a, q, 0) BY <2>2 DEF Folds
  <2> QED BY <2>3
<1>2. ASSUME NEW k \in 0..(n - 1), k \in S PROVE k + 1 \in S
  <2>1. k \in Nat /\ k + 1 \in Nat OBVIOUS
  <2>2. PICK f : Folds(f, a, q, k) BY <1>2
  <2>3. \A s \in SUBSET (1..k) : f[s] = Turn(f, s)
    <3>1. f = [s \in SUBSET (1..k) |-> Turn(f, s)] BY <2>2 DEF Folds
    <3> HIDE DEF Turn
    <3> QED BY <3>1
  <2> DEFINE g == [s \in SUBSET (1..(k + 1)) |->
                     IF k + 1 \in s THEN Graph!Spliced(f[s \ {k + 1}], q[k + 1]) ELSE f[s]]
  <2>4. \A s \in SUBSET (1..k) : s \in SUBSET (1..(k + 1)) /\ k + 1 \notin s BY <2>1
  <2>5. \A s \in SUBSET (1..k) : g[s] = f[s] BY <2>4
  <2>6. ASSUME NEW s \in SUBSET (1..(k + 1)) PROVE g[s] = Turn(g, s)
    <3>1. CASE k + 1 \in s
      <4>1. Graph!Max(s) = k + 1 BY <2>1, <3>1, MaxIs
      <4>2. s \ {k + 1} \in SUBSET (1..k) BY <2>1
      <4>3. g[s \ {k + 1}] = f[s \ {k + 1}] BY <2>5, <4>2
      <4>4. g[s] = Graph!Spliced(f[s \ {k + 1}], q[k + 1]) BY <3>1
      <4> HIDE DEF g
      <4> QED BY <3>1, <4>1, <4>3, <4>4
    <3>2. CASE k + 1 \notin s
      <4>1. s \in SUBSET (1..k) BY <2>1, <3>2
      <4>2. s \ {Graph!Max(s)} \in SUBSET (1..k) BY <4>1
      <4>3. g[s] = f[s] /\ g[s \ {Graph!Max(s)}] = f[s \ {Graph!Max(s)}] BY <2>5, <4>1, <4>2
      <4> HIDE DEF g
      <4> QED BY <2>3, <4>1, <4>3
    <3> QED BY <3>1, <3>2
  <2>7. Folds(g, a, q, k + 1)
    <3>1. g = [s \in SUBSET (1..(k + 1)) |-> g[s]] OBVIOUS
    <3> HIDE DEF g
    <3> QED BY <2>6, <3>1 DEF Folds
  <2> HIDE DEF g
  <2> QED BY <2>1, <2>7
<1>3. n \in S
  <2> HIDE DEF S
  <2> QED BY <1>1, <1>2, Climb
<1> QED BY <1>3

\* What is left of the array after each of q was spliced out of it.
LeftAfter(g, T, a, q) ==
  /\ g \in [0..Len(q) -> Seq(T)]
  /\ g[0] = a /\ \A i \in 1..Len(q) : g[i] = Graph!Spliced(g[i - 1], q[i])
  /\ Graph!FoldLeft(Graph!Spliced, a, q) = g[Len(q)]

\* A fold of splices is a function of the turns.
LEMMA SplicedInTurn ==
  ASSUME NEW T, NEW a \in Seq(T), NEW U, NEW q \in Seq(U)
  PROVE  \E g : LeftAfter(g, T, a, q)
<1> DEFINE n == Len(q)
           f == CHOOSE f : Folds(f, a, q, n)
           g == [i \in 0..n |-> f[1..i]]
<1>1. n \in Nat /\ DOMAIN q = 1..n BY LenProperties
<1>2. Graph!FoldLeft(Graph!Spliced, a, q) = f[1..n]
  BY <1>1 DEF Graph!FoldLeft, Graph!MapThenFoldSet, Folds
<1> HIDE DEF n
<1>3. Folds(f, a, q, n) BY <1>1, FoldsExist
<1> HIDE DEF f
<1>4. \A s \in SUBSET (1..n) : f[s] = IF s = {} THEN a ELSE Graph!Spliced(f[s \ {Graph!Max(s)}], q[Graph!Max(s)])
  BY <1>3 DEF Folds
<1>5. f[1..0] = a
  <2>1. 1..0 = {} /\ {} \in SUBSET (1..n) OBVIOUS
  <2> QED BY <1>4, <2>1
<1>6. ASSUME NEW i \in 1..n PROVE f[1..i] = Graph!Spliced(f[1..(i - 1)], q[i])
  <2>0. i \in Nat /\ 1 <= i /\ i <= n BY <1>1
  <2>1. /\ 1..i \in SUBSET (1..n) /\ i \in Nat /\ i \in 1..i /\ 1..i /= {}
        /\ (1..i) \ {i} = 1..(i - 1)
    <3>1. 1..i \in SUBSET (1..n) BY ONLY <1>1, <2>0
    <3>2. (1..i) \ {i} = 1..(i - 1) BY ONLY <2>0
    <3>3. i \in 1..i BY ONLY <2>0
    <3> QED BY <2>0, <3>1, <3>2, <3>3
  <2>2. Graph!Max(1..i) = i BY <2>1, MaxIs
  <2> QED BY <1>4, <2>1, <2>2
<1> DEFINE S == {i \in 0..n : f[1..i] \in Seq(T)}
<1>7. ASSUME NEW k \in 0..n PROVE f[1..k] \in Seq(T)
  <2>1. 0 \in S BY <1>1, <1>5
  <2>2. ASSUME NEW i \in 0..(k - 1), i \in S PROVE i + 1 \in S
    <3>1. i + 1 \in 1..n /\ (i + 1) - 1 = i /\ i + 1 \in 0..n BY <1>1
    <3>2. f[1..(i + 1)] = Graph!Spliced(f[1..i], q[i + 1]) BY <1>6, <3>1
    <3>3. Graph!Spliced(f[1..i], q[i + 1]) \in Seq(T)
      <4>1. f[1..i] \in Seq(T) BY <2>2
      <4> HIDE DEF S
      <4> QED BY <4>1, SplicedIs
    <3> QED BY <3>1, <3>2, <3>3
  <2>3. k \in S
    <3>1. k \in Nat BY <1>1
    <3> HIDE DEF S
    <3> QED BY <2>1, <2>2, <3>1, Climb
  <2> QED BY <2>3
<1> HIDE DEF S
<1>8. g \in [0..n -> Seq(T)] BY <1>7
<1>9. g[0] = a /\ g[n] = f[1..n] BY <1>1, <1>5
<1>10. \A i \in 1..n : g[i] = Graph!Spliced(g[i - 1], q[i])
  <2> TAKE i \in 1..n
  <2>1. i \in 0..n /\ i - 1 \in 0..n BY <1>1
  <2> QED BY <1>6, <2>1
<1> HIDE DEF g
<1> QED BY <1>2, <1>8, <1>9, <1>10 DEF n, LeftAfter

\* Different objects that are all in the array once are taken out of it, and nothing else.
LEMMA AllSpliced ==
  ASSUME NEW T, NEW a \in Seq(T), NEW U, NEW q \in Seq(U)
  PROVE  /\ Graph!FoldLeft(Graph!Spliced, a, q) \in Seq(T)
         /\ \A x : Once(a, x) => Once(Graph!FoldLeft(Graph!Spliced, a, q), x)
         /\ (\A x : Graph!Contains(q, x) => Once(q, x) /\ Graph!Contains(a, x) /\ Once(a, x)) =>
              \A x : Graph!Contains(Graph!FoldLeft(Graph!Spliced, a, q), x) <=> Graph!Contains(a, x) /\ ~Graph!Contains(q, x)
<1> DEFINE n == Len(q)
<1>1. n \in Nat /\ DOMAIN q = 1..n BY LenProperties
<1>0. PICK g : LeftAfter(g, T, a, q) BY SplicedInTurn
<1>2. /\ g \in [0..n -> Seq(T)]
      /\ g[0] = a /\ \A i \in 1..n : g[i] = Graph!Spliced(g[i - 1], q[i])
      /\ Graph!FoldLeft(Graph!Spliced, a, q) = g[n]
  BY <1>0 DEF LeftAfter
<1> HIDE DEF n
<1> DEFINE Proper == \A x : Graph!Contains(q, x) => Once(q, x) /\ Graph!Contains(a, x) /\ Once(a, x)
           Is(i) == /\ \A x : Once(a, x) => Once(g[i], x)
                    /\ Proper => \A x : Graph!Contains(g[i], x) <=>
                                   Graph!Contains(a, x) /\ \A j \in 1..i : q[j] /= x
           S == {i \in 0..n : Is(i)}
<1>3. Is(0)
  <2>1. \A j \in 1..0 : FALSE OBVIOUS
  <2> QED BY <1>2, <2>1
<1>4. ASSUME NEW i \in 0..(n - 1), i \in S PROVE i + 1 \in S
  <2>1. i + 1 \in 1..n /\ (i + 1) - 1 = i /\ i + 1 \in 0..n /\ i \in 0..n BY <1>1
  <2>2. Is(i) BY <1>4
  <2>3. g[i] \in Seq(T) /\ g[i + 1] = Graph!Spliced(g[i], q[i + 1]) BY <1>2, <2>1
  <2>4. \A x : Once(g[i], x) => Once(g[i + 1], x)
    <3> HIDE DEF Is, S
    <3> QED BY <2>3, SplicedIs
  <2>5. ASSUME Proper, NEW x
        PROVE  Graph!Contains(g[i + 1], x) <=> Graph!Contains(a, x) /\ \A j \in 1..(i + 1) : q[j] /= x
    <3> DEFINE o == q[i + 1]
    <3>1. Graph!Contains(q, o)
      <4> HIDE DEF Is, S, Proper
      <4> QED BY <1>1, <2>1, ContainsIs
    <3>2. Once(q, o) /\ Graph!Contains(a, o) /\ Once(a, o) BY <2>5, <3>1
    <3>3. \A j \in 1..i : q[j] /= o
      <4>1. \A j \in 1..i : j \in DOMAIN q /\ j /= i + 1 BY <1>1, <2>1
      <4>2. i + 1 \in DOMAIN q BY <1>1, <2>1
      <4> QED BY <3>2, <4>1, <4>2 DEF Once
    <3>4. Graph!Contains(g[i], o) /\ Once(g[i], o) BY <2>2, <2>5, <3>2, <3>3
    <3>5. Graph!Contains(g[i + 1], x) <=> x /= o /\ Graph!Contains(g[i], x)
      <4> HIDE DEF Is, S, Proper, o
      <4>1. g[i + 1] = Graph!Spliced(g[i], o) BY <2>3 DEF o
      <4> QED BY <2>3, <3>4, <4>1, SplicedIs
    <3>6. \A j : j \in 1..(i + 1) <=> j \in 1..i \/ j = i + 1 BY <2>1
    <3>7. Graph!Contains(g[i], x) <=> Graph!Contains(a, x) /\ \A j \in 1..i : q[j] /= x
      BY <2>2, <2>5
    <3> HIDE DEF Is, S, Proper
    <3> QED BY <3>5, <3>6, <3>7
  <2>6. Is(i + 1) BY <2>2, <2>4, <2>5
  <2> HIDE DEF Is
  <2> QED BY <2>1, <2>6
<1>5. n \in S
  <2>1. 0 \in S BY <1>1, <1>3
  <2> HIDE DEF S
  <2> QED BY <1>1, <1>4, <2>1, Climb
<1>6. Is(n)
  <2> HIDE DEF Is
  <2> QED BY <1>5
<1> HIDE DEF S
<1>7. \A x : Graph!Contains(q, x) <=> \E j \in 1..n : q[j] = x BY <1>1, ContainsIs
<1>8. g[n] \in Seq(T) BY <1>1, <1>2
<1> QED BY <1>2, <1>6, <1>7, <1>8

-----------------------------------------------------------------------------
(* What the objects are. *)

\* The kinds that have parts, and those that are parts of others than a PolySynth.
Wholes == {"delay", "eq", "pulse", "audioin", "mono", "poly"}
PartKinds == {"filter", "band", "osc", "envelope", "amplitude"}
Synths == {"mono", "poly"}

\* The way through an effect, other than by the dry half of its fade.
Way(k) ==
  CASE k = "filter" -> <<"input", "biquad", "wet", "drywet", "output">>
    [] k = "eq" -> IF EQBands = 3 THEN <<"input", "band1", "band2", "band3", "output">>
                   ELSE <<"input", "band1", "band2", "band3", "band4", "band5", "band6", "band7",
                          "band8", "output">>
    [] k = "panner3d" -> <<"input", "panner", "output">>
    [] k = "delay" -> <<"input", "split", "leftDelay", "leftGain", "leftFilter", "merge", "wet",
                        "drywet", "output">>
    [] k = "reverb" -> <<"input", "convolverNode", "wet", "drywet", "output">>
    [] k = "compressor" -> <<"input", "compressor", "wet", "drywet", "output">>
    [] k = "distortion" -> <<"input", "waveShaperNode", "wet", "drywet", "output">>

Along(p, W) == \A i \in 1..(Len(p) - 1) : <<p[i], p[i + 1]>> \in W

Wired(k, W) ==
  /\ k \in Graph!Sources => \/ Along(<<"oscillator", "output">>, W)
                            \/ Along(<<"oscillator", "dNode", "output">>, W)
  /\ k \in Graph!Effects \ {"band"} => Along(Way(k), W)

Thing(D) == [kind : Graph!AllKinds, wires : SUBSET (Graph!AudioNodes \X Graph!AudioNodes), to : SUBSET (D \cup {gr_main}),
             parts : Seq(D), disposed : BOOLEAN]

\* Of the objects of D, each is part of one other at most, of a kind that has parts, a band of one;
\* what is not disposed of is wired.
Built(f, D) ==
  /\ f \in [D -> Thing(D)]
  /\ \A p \in D : f[p].kind \notin Wholes => f[p].parts = <<>>
  /\ \A p \in D : \A i \in DOMAIN f[p].parts :
       /\ f[p].parts[i] /= p
       /\ IF f[p].kind = "poly" THEN f[f[p].parts[i]].kind = "mono"
          ELSE f[f[p].parts[i]].kind \in PartKinds
  /\ \A p, q \in D : \A i \in DOMAIN f[p].parts, j \in DOMAIN f[q].parts :
       f[p].parts[i] = f[q].parts[j] => p = q /\ i = j
  /\ \A o \in D : f[o].kind = "band" => \E p \in D : Graph!Contains(f[p].parts, o)
  /\ \A o \in D : /\ o \notin f[o].to
                  /\ f[o].kind /= "band" /\ ~f[o].disposed => Wired(f[o].kind, f[o].wires)

\* The array has what is not dead, and of what is dead only synths; all others are in it once.
Listed(f, D, array, dead) ==
  \A o \in D : /\ IF o \in dead THEN Graph!Contains(array, o) => f[o].kind \in Synths
                  ELSE Graph!Contains(array, o)
               /\ f[o].kind \notin Synths => Once(array, o)

GraphInv ==
  /\ objects \in Seq(Thing(Graph!Ids)) /\ Len(objects) <= MaxObjects /\ Built(objects, Graph!Ids)
  /\ soundArray \in Seq(Graph!Ids) /\ metered \subseteq Graph!Ids /\ gr_calls \in 0..gr_MaxCalls
  /\ twice \in BOOLEAN /\ given \in BOOLEAN
  /\ ~twice => Listed(objects, Graph!Ids, soundArray, {o \in Graph!Ids : objects[o].disposed})
  /\ ~given => {o \in Graph!Ids : objects[o].kind \in Graph!Meters /\ ~objects[o].disposed} \subseteq metered

-----------------------------------------------------------------------------
(* Ways from one node to another. *)

LEMMA Five == ASSUME NEW a, NEW b, NEW c, NEW d, NEW e PROVE IsFiniteSet({a, b, c, d, e})
<1>1. IsFiniteSet({a}) BY FS_Singleton
<1>2. IsFiniteSet({a} \cup {b}) BY <1>1, FS_AddElement
<1>3. IsFiniteSet({a} \cup {b} \cup {c}) BY <1>2, FS_AddElement
<1>4. IsFiniteSet({a} \cup {b} \cup {c} \cup {d}) BY <1>3, FS_AddElement
<1>5. IsFiniteSet({a} \cup {b} \cup {c} \cup {d} \cup {e}) BY <1>4, FS_AddElement
<1>6. {a} \cup {b} \cup {c} \cup {d} \cup {e} = {a, b, c, d, e} OBVIOUS
<1> QED BY <1>5, <1>6

\* The audio nodes are finitely many, so that those of the wires can be counted.
LEMMA NamesFinite == IsFiniteSet(Graph!AudioNodes)
<1> DEFINE A == {"input", "drywet", "wet", "output", "biquad"}
           B == {"band1", "band2", "band3", "band4", "band5"}
           C == {"band6", "band7", "band8", "panner", "compressor"}
           D == {"waveShaperNode", "convolverNode", "split", "leftDelay", "rightDelay"}
           E == {"leftGain", "rightGain", "leftFilter", "rightFilter", "merge"}
           F == {"oscillator", "osc2", "dNode", "dcGain", "control"}
           G == {"workletNode"}
<1>1. /\ IsFiniteSet(A) /\ IsFiniteSet(B) /\ IsFiniteSet(C) /\ IsFiniteSet(D)
      /\ IsFiniteSet(E) /\ IsFiniteSet(F)
  BY Five
<1>2. IsFiniteSet(G) BY FS_Singleton
<1>3. Graph!AudioNodes = A \cup B \cup C \cup D \cup E \cup F \cup G BY DEF Graph!AudioNodes
<1> HIDE DEF A, B, C, D, E, F, G
<1>4. IsFiniteSet(A \cup B) BY <1>1, FS_Union
<1>5. IsFiniteSet(A \cup B \cup C) BY <1>1, <1>4, FS_Union
<1>6. IsFiniteSet(A \cup B \cup C \cup D) BY <1>1, <1>5, FS_Union
<1>7. IsFiniteSet(A \cup B \cup C \cup D \cup E) BY <1>1, <1>6, FS_Union
<1>8. IsFiniteSet(A \cup B \cup C \cup D \cup E \cup F) BY <1>1, <1>7, FS_Union
<1>9. IsFiniteSet(A \cup B \cup C \cup D \cup E \cup F \cup G) BY <1>2, <1>8, FS_Union
<1> QED BY <1>3, <1>9

\* A way through different nodes is not longer than the search for what reaches its end.
LEMMA WayReaches ==
  ASSUME NEW W \in SUBSET (Graph!AudioNodes \X Graph!AudioNodes), NEW p \in Seq(Graph!AudioNodes), Len(p) >= 2, Along(p, W),
         \A i, j \in 1..Len(p) : p[i] = p[j] => i = j
  PROVE  p[1] \in Graph!Reaching(W, p[Len(p)])
<1> DEFINE n == Len(p)
           nodes == {w[1] : w \in W} \cup {w[2] : w \in W}
           c == Graph!Cardinality(nodes)
           Before(r) == r \cup {w[1] : w \in {v \in W : v[2] \in r}}
           Def(R) == R = [i \in 0..c |-> IF i = 0 THEN {p[n]} ELSE Before(R[i - 1])]
           h == CHOOSE R : Def(R)
<1>1. n \in Nat /\ n >= 2 /\ DOMAIN p = 1..n /\ \A i \in 1..n : p[i] \in Graph!AudioNodes
  BY LenProperties, ElementOfSeq
<1>2. nodes \in SUBSET Graph!AudioNodes
  <2>1. \A w \in W : w[1] \in Graph!AudioNodes /\ w[2] \in Graph!AudioNodes OBVIOUS
  <2> QED BY <2>1
<1>3. \A i \in 1..n : p[i] \in nodes
  <2> TAKE i \in 1..n
  <2>1. \A w \in W : w[1] \in nodes /\ w[2] \in nodes OBVIOUS
  <2> HIDE DEF nodes
  <2>2. CASE i = n
    <3> DEFINE w == <<p[n - 1], p[n]>>
    <3>1. n - 1 \in 1..(n - 1) /\ (n - 1) + 1 = n BY <1>1
    <3>2. w \in W BY <3>1 DEF Along
    <3>3. w[2] = p[n] OBVIOUS
    <3> HIDE DEF w
    <3> QED BY <2>1, <2>2, <3>2, <3>3
  <2>3. CASE i /= n
    <3> DEFINE w == <<p[i], p[i + 1]>>
    <3>0. n \in Nat /\ i \in 1..n BY <1>1
    <3>1. i \in 1..(n - 1) BY ONLY <2>3, <3>0
    <3>2. w \in W BY <3>1 DEF Along
    <3>3. w[1] = p[i] OBVIOUS
    <3> HIDE DEF w
    <3> QED BY <2>1, <3>2, <3>3
  <2> QED BY <2>2, <2>3
<1>4. Graph!Reaching(W, p[n]) = h[c] BY DEF Graph!Reaching
<1> HIDE DEF h, nodes
<1>5. c \in Nat /\ n <= c
  <2>1. IsFiniteSet(nodes) BY <1>2, NamesFinite, FS_Subset
  <2>2. p \in [1..n -> nodes] BY <1>1, <1>3
  <2> QED BY <1>1, <2>1, <2>2, NodesCount
<1> HIDE DEF c, n
<1> DEFINE F == [i \in 1..c |-> [r \in SUBSET Graph!AudioNodes |-> Before(r)]]
<1>6. F \in [1..c -> [SUBSET Graph!AudioNodes -> SUBSET Graph!AudioNodes]]
  <2>1. \A w \in W : w[1] \in Graph!AudioNodes OBVIOUS
  <2>2. \A r \in SUBSET Graph!AudioNodes : Before(r) \in SUBSET Graph!AudioNodes BY <2>1
  <2> HIDE DEF Before
  <2> QED BY <2>2
<1>7. \E R : Applied(R, SUBSET Graph!AudioNodes, c, {p[n]}, F)
  <2>1. {p[n]} \in SUBSET Graph!AudioNodes BY <1>1
  <2> HIDE DEF F
  <2> QED BY <1>5, <1>6, <2>1, Repeated
<1>8. PICK R : Applied(R, SUBSET Graph!AudioNodes, c, {p[n]}, F) BY <1>7
<1>9. Def(R)
  <2>1. R \in [0..c -> SUBSET Graph!AudioNodes] /\ R[0] = {p[n]} BY <1>8 DEF Applied
  <2>2. ASSUME NEW i \in 1..c PROVE R[i] = Before(R[i - 1])
    <3>1. R[i] = F[i][R[i - 1]] BY <1>8 DEF Applied
    <3>2. R[i - 1] \in SUBSET Graph!AudioNodes
      <4>1. i - 1 \in 0..c BY <1>5
      <4> QED BY <2>1, <4>1
    <3> HIDE DEF Before
    <3> QED BY <3>1, <3>2
  <2>3. ASSUME NEW i \in 0..c PROVE R[i] = IF i = 0 THEN {p[n]} ELSE Before(R[i - 1])
    <3>1. CASE i = 0 BY <2>1, <3>1
    <3>2. CASE i /= 0
      <4>1. i \in 1..c BY <3>2
      <4> HIDE DEF Before
      <4> QED BY <2>2, <3>2, <4>1
    <3> QED BY <3>1, <3>2
  <2>4. R = [i \in 0..c |-> R[i]] BY <2>1
  <2> HIDE DEF Before
  <2> QED BY <2>3, <2>4
<1>10. Def(h)
  <2> HIDE DEF Def
  <2> QED BY <1>9 DEF h
<1>11. h[0] = {p[n]} /\ \A i \in 1..c : h[i] = Before(h[i - 1])
  <2> HIDE DEF Before
  <2>1. \A i \in 0..c : h[i] = IF i = 0 THEN {p[n]} ELSE Before(h[i - 1]) BY <1>10
  <2>2. 0 \in 0..c /\ \A i \in 1..c : i \in 0..c /\ i /= 0 BY <1>5
  <2> QED BY <2>1, <2>2
<1> DEFINE at(i) == IF i < n THEN n - i ELSE 1
           S == {i \in 0..c : p[at(i)] \in h[i]}
<1>12. 0 \in S
  <2>1. at(0) = n /\ 0 \in 0..c BY <1>1, <1>5
  <2> QED BY <1>11, <2>1
<1>13. ASSUME NEW i \in 0..(c - 1), i \in S PROVE i + 1 \in S
  <2>1. i + 1 \in 1..c /\ i + 1 \in 0..c /\ (i + 1) - 1 = i BY <1>5
  <2>2. h[i + 1] = Before(h[i]) BY <1>11, <2>1
  <2>3. p[at(i)] \in h[i] BY <1>13
  <2>4. CASE i + 1 < n
    <3> DEFINE k == n - (i + 1)
               w == <<p[k], p[k + 1]>>
    <3>1. at(i) = k + 1 /\ at(i + 1) = k /\ k \in 1..(n - 1) BY <1>1, <2>4
    <3>2. w \in W BY <3>1 DEF Along, n
    <3>3. w[1] = p[k] /\ w[2] = p[k + 1] OBVIOUS
    <3>4. w[2] \in h[i] BY <2>3, <3>1, <3>3
    <3> HIDE DEF w, k, at, S
    <3>5. w[1] \in Before(h[i]) BY <3>2, <3>4
    <3> QED BY <2>1, <2>2, <3>1, <3>3, <3>5 DEF S
  <2>5. CASE ~(i + 1 < n)
    <3>1. at(i) = 1 /\ at(i + 1) = 1 BY <1>1, <2>5
    <3> HIDE DEF at, S
    <3> QED BY <2>1, <2>2, <2>3, <3>1 DEF S
  <2> QED BY <2>4, <2>5
<1>14. c \in S
  <2> HIDE DEF S
  <2> QED BY <1>5, <1>12, <1>13, Climb
<1>15. at(c) = 1 BY <1>1, <1>5
<1> HIDE DEF at
<1> QED BY <1>4, <1>14, <1>15 DEF n

\* A way from the input of an effect to its output, through different nodes, not by its fade first.
Through(p) ==
  /\ p \in Seq(Graph!AudioNodes) /\ Len(p) >= 3 /\ \A i, j \in 1..Len(p) : p[i] = p[j] => i = j
  /\ p[1] = "input" /\ p[2] /= "drywet" /\ p[Len(p)] = "output"

\* The way through an effect is a way from its input to its output, on nodes that differ.
LEMMA WaysThrough == ASSUME NEW k \in Graph!Effects \ {"band"} PROVE Through(Way(k))
<1>1. k \in {"filter", "eq", "panner3d", "delay", "reverb", "compressor", "distortion"}
  BY DEF Graph!Effects
<1>2. CASE k \in {"filter", "reverb", "compressor", "distortion"}
  <2>1. PICK x \in {"biquad", "convolverNode", "compressor", "waveShaperNode"} :
          Way(k) = <<"input", x, "wet", "drywet", "output">>
    BY <1>2 DEF Way
  <2>2. x \in Graph!AudioNodes /\ {"input", "wet", "drywet", "output"} \subseteq Graph!AudioNodes
    BY DEF Graph!AudioNodes
  <2>3. Through(<<"input", x, "wet", "drywet", "output">>) BY <2>2 DEF Through
  <2> QED BY <2>1, <2>3
<1>3. CASE k = "panner3d"
  <2>1. Way(k) = <<"input", "panner", "output">> BY <1>3 DEF Way
  <2>2. {"input", "panner", "output"} \subseteq Graph!AudioNodes BY DEF Graph!AudioNodes
  <2>3. Through(<<"input", "panner", "output">>) BY <2>2 DEF Through
  <2> QED BY <2>1, <2>3
<1>4. CASE k = "delay"
  <2> DEFINE p == <<"input", "split", "leftDelay", "leftGain", "leftFilter", "merge", "wet", "drywet",
                    "output">>
  <2>1. Way(k) = p BY <1>4 DEF Way
  <2>2. p \in Seq(Graph!AudioNodes) BY DEF Graph!AudioNodes
  <2>3. Len(p) = 9 /\ p[1] = "input" /\ p[2] /= "drywet" /\ p[9] = "output" OBVIOUS
  <2>4. \A i, j \in 1..9 : p[i] = p[j] => i = j OBVIOUS
  <2> HIDE DEF p
  <2> QED BY <2>1, <2>2, <2>3, <2>4 DEF Through
<1>5. CASE k = "eq" /\ EQBands = 3
  <2> DEFINE p == <<"input", "band1", "band2", "band3", "output">>
  <2>1. Way(k) = p BY <1>5 DEF Way
  <2>2. p \in Seq(Graph!AudioNodes) BY DEF Graph!AudioNodes
  <2>3. Len(p) = 5 /\ p[1] = "input" /\ p[2] /= "drywet" /\ p[5] = "output" OBVIOUS
  <2>4. \A i, j \in 1..5 : p[i] = p[j] => i = j OBVIOUS
  <2> HIDE DEF p
  <2> QED BY <2>1, <2>2, <2>3, <2>4 DEF Through
<1>6. CASE k = "eq" /\ EQBands = 8
  <2> DEFINE p == <<"input", "band1", "band2", "band3", "band4", "band5", "band6", "band7", "band8",
                    "output">>
  <2>1. Way(k) = p BY <1>6 DEF Way
  <2>2. p \in Seq(Graph!AudioNodes) BY DEF Graph!AudioNodes
  <2>3. Len(p) = 10 /\ p[1] = "input" /\ p[2] /= "drywet" /\ p[10] = "output" OBVIOUS
  <2>4. \A i, j \in 1..10 : p[i] = p[j] => i = j OBVIOUS
  <2> HIDE DEF p
  <2> QED BY <2>1, <2>2, <2>3, <2>4 DEF Through
<1> QED BY <1>1, <1>2, <1>3, <1>4, <1>5, <1>6, GraphAssumption

\* What is wired carries sound.
LEMMA WiredCarries ==
  ASSUME NEW k \in Graph!AllKinds \ {"band"}, NEW W \in SUBSET (Graph!AudioNodes \X Graph!AudioNodes), Wired(k, W)
  PROVE  Graph!Carries(k, W)
<1>1. CASE k \in Graph!Sources
  <2>1. {"oscillator", "dNode", "output"} \subseteq Graph!AudioNodes BY DEF Graph!AudioNodes
  <2>2. CASE Along(<<"oscillator", "output">>, W)
    <3> DEFINE p == <<"oscillator", "output">>
    <3>1. /\ p \in Seq(Graph!AudioNodes) /\ Len(p) = 2 /\ p[1] = "oscillator" /\ p[2] = "output"
          /\ \A i, j \in 1..2 : p[i] = p[j] => i = j
      BY <2>1
    <3>2. Along(p, W) BY <2>2
    <3> HIDE DEF p
    <3>0. Len(p) >= 2 /\ \A i, j \in 1..Len(p) : p[i] = p[j] => i = j BY ONLY <3>1
    <3>3. p[1] \in Graph!Reaching(W, p[Len(p)])
      BY ONLY <3>0, <3>1, <3>2, W \in SUBSET (Graph!AudioNodes \X Graph!AudioNodes), WayReaches
    <3>4. "oscillator" \in Graph!Reaching(W, "output") BY <3>1, <3>3
    <3>5. k \notin Graph!Effects BY <1>1 DEF Graph!Effects, Graph!Sources
    <3> QED BY <1>1, <3>4, <3>5 DEF Graph!Carries
  <2>3. CASE Along(<<"oscillator", "dNode", "output">>, W)
    <3> DEFINE p == <<"oscillator", "dNode", "output">>
    <3>1. /\ p \in Seq(Graph!AudioNodes) /\ Len(p) = 3 /\ p[1] = "oscillator" /\ p[3] = "output"
          /\ \A i, j \in 1..3 : p[i] = p[j] => i = j
      BY <2>1
    <3>2. Along(p, W) BY <2>3
    <3> HIDE DEF p
    <3>0. Len(p) >= 2 /\ \A i, j \in 1..Len(p) : p[i] = p[j] => i = j BY ONLY <3>1
    <3>3. p[1] \in Graph!Reaching(W, p[Len(p)])
      BY ONLY <3>0, <3>1, <3>2, W \in SUBSET (Graph!AudioNodes \X Graph!AudioNodes), WayReaches
    <3>4. "oscillator" \in Graph!Reaching(W, "output") BY <3>1, <3>3
    <3>5. k \notin Graph!Effects BY <1>1 DEF Graph!Effects, Graph!Sources
    <3> QED BY <1>1, <3>4, <3>5 DEF Graph!Carries
  <2> QED BY <1>1, <2>2, <2>3 DEF Wired
<1>2. CASE k \in Graph!Effects
  <2> DEFINE p == Way(k)
             V == W \ {<<"input", "drywet">>}
  <2>1. Through(p) /\ Along(p, W)
    <3>1. k \in Graph!Effects \ {"band"} BY <1>2
    <3> QED BY <3>1, WaysThrough DEF Wired
  <2> HIDE DEF p
  <2>2. /\ p \in Seq(Graph!AudioNodes) /\ Len(p) >= 3 /\ \A i, j \in 1..Len(p) : p[i] = p[j] => i = j
        /\ p[1] = "input" /\ p[2] /= "drywet" /\ p[Len(p)] = "output" /\ Len(p) \in Nat
    BY <2>1, LenProperties DEF Through
  <2>3. ASSUME NEW i \in 1..(Len(p) - 1) PROVE <<p[i], p[i + 1]>> \in V
    <3>1. <<p[i], p[i + 1]>> \in W BY <2>1 DEF Along
    <3>2. CASE i = 1 BY <2>2, <3>1, <3>2
    <3>3. CASE i /= 1
      <4>1. i \in 1..Len(p) /\ 1 \in 1..Len(p) BY <2>2
      <4>2. p[i] /= "input" BY <2>2, <3>3, <4>1
      <4> QED BY <3>1, <4>2
    <3> QED BY <3>2, <3>3
  <2>4. V \in SUBSET (Graph!AudioNodes \X Graph!AudioNodes) /\ Along(p, V) BY <2>3 DEF Along
  <2> HIDE DEF V
  <2>5. p[1] \in Graph!Reaching(V, p[Len(p)]) BY <2>2, <2>4, WayReaches
  <2>6. "input" \in Graph!Reaching(V, "output") BY <2>2, <2>5
  <2>7. k \notin Graph!Sources BY <1>2 DEF Graph!Effects, Graph!Sources
  <2> QED BY <1>2, <2>6, <2>7 DEF Graph!Carries, V
<1>3. CASE k \notin Graph!Sources \cup Graph!Effects BY <1>3 DEF Graph!Carries
<1> QED BY <1>1, <1>2, <1>3

-----------------------------------------------------------------------------
(* The wires the constructors make. *)

LEMMA AlongFive ==
  ASSUME NEW a, NEW b, NEW c, NEW d, NEW e, NEW W,
         <<a, b>> \in W, <<b, c>> \in W, <<c, d>> \in W, <<d, e>> \in W
  PROVE  Along(<<a, b, c, d, e>>, W)
<1>1. \A i \in 1..4 : i = 1 \/ i = 2 \/ i = 3 \/ i = 4 OBVIOUS
<1> QED BY <1>1 DEF Along

LEMMA AlongNine ==
  ASSUME NEW W, <<"input", "split">> \in W, <<"split", "leftDelay">> \in W,
         <<"leftDelay", "leftGain">> \in W, <<"leftGain", "leftFilter">> \in W,
         <<"leftFilter", "merge">> \in W, <<"merge", "wet">> \in W, <<"wet", "drywet">> \in W,
         <<"drywet", "output">> \in W
  PROVE  Along(Way("delay"), W)
<1> DEFINE p == <<"input", "split", "leftDelay", "leftGain", "leftFilter", "merge", "wet", "drywet",
                  "output">>
<1>1. Way("delay") = p BY DEF Way
<1>2. /\ Len(p) = 9 /\ p[1] = "input" /\ p[2] = "split" /\ p[3] = "leftDelay" /\ p[4] = "leftGain"
      /\ p[5] = "leftFilter" /\ p[6] = "merge" /\ p[7] = "wet" /\ p[8] = "drywet" /\ p[9] = "output"
  OBVIOUS
<1> HIDE DEF p
<1>3. ASSUME NEW i \in 1..8 PROVE <<p[i], p[i + 1]>> \in W
  <2>1. i = 1 \/ i = 2 \/ i = 3 \/ i = 4 \/ i = 5 \/ i = 6 \/ i = 7 \/ i = 8 OBVIOUS
  <2> QED BY <1>2, <2>1
<1>4. Len(p) - 1 = 8 BY <1>2
<1>5. Along(p, W) BY ONLY <1>3, <1>4 DEF Along
<1> QED BY <1>1, <1>5

\* What wires the default way of a delay has.
LEMMA NineAlong ==
  ASSUME NEW W, Along(Way("delay"), W)
  PROVE  /\ <<"input", "split">> \in W /\ <<"leftDelay", "leftGain">> \in W
         /\ <<"leftGain", "leftFilter">> \in W /\ <<"merge", "wet">> \in W
         /\ <<"wet", "drywet">> \in W /\ <<"drywet", "output">> \in W
<1> DEFINE p == <<"input", "split", "leftDelay", "leftGain", "leftFilter", "merge", "wet", "drywet",
                  "output">>
<1>1. Way("delay") = p BY DEF Way
<1>2. /\ Len(p) = 9 /\ p[1] = "input" /\ p[2] = "split" /\ p[3] = "leftDelay" /\ p[4] = "leftGain"
      /\ p[5] = "leftFilter" /\ p[6] = "merge" /\ p[7] = "wet" /\ p[8] = "drywet" /\ p[9] = "output"
  OBVIOUS
<1> HIDE DEF p
<1>3. \A i \in 1..8 : <<p[i], p[i + 1]>> \in W BY <1>1, <1>2 DEF Along
<1>4. /\ <<p[1], p[1 + 1]>> \in W /\ <<p[3], p[3 + 1]>> \in W /\ <<p[4], p[4 + 1]>> \in W
      /\ <<p[6], p[6 + 1]>> \in W /\ <<p[7], p[7 + 1]>> \in W /\ <<p[8], p[8 + 1]>> \in W
  BY <1>3
<1> QED BY <1>2, <1>4

\* A Delay wired anew is wired still.
LEMMA RewiredIs ==
  ASSUME NEW W \in SUBSET (Graph!AudioNodes \X Graph!AudioNodes), NEW type
  PROVE  /\ Graph!Rewired(W, type) \in SUBSET (Graph!AudioNodes \X Graph!AudioNodes)
         /\ (/\ <<"input", "split">> \in W /\ <<"leftDelay", "leftGain">> \in W
             /\ <<"leftGain", "leftFilter">> \in W /\ <<"merge", "wet">> \in W
             /\ <<"wet", "drywet">> \in W /\ <<"drywet", "output">> \in W)
            => Along(Way("delay"), Graph!Rewired(W, type))
<1> DEFINE V == {w \in W : w[1] \notin {"split", "leftFilter", "rightFilter"}}
           N == {<<"split", "leftDelay">>, <<"split", "rightDelay">>,
                 <<"leftFilter", "merge">>, <<"rightFilter", "merge">>}
           P == IF type = "pingPong" THEN {<<"leftFilter", "rightDelay">>, <<"rightFilter", "leftDelay">>}
                ELSE {<<"leftFilter", "leftDelay">>, <<"rightFilter", "rightDelay">>}
<1>1. Graph!Rewired(W, type) = V \cup N \cup P BY DEF Graph!Rewired
<1>2. {"split", "leftDelay", "rightDelay", "leftFilter", "rightFilter", "merge"} \subseteq Graph!AudioNodes
  BY DEF Graph!AudioNodes
<1>3. N \subseteq Graph!AudioNodes \X Graph!AudioNodes BY <1>2
<1>4. P \subseteq Graph!AudioNodes \X Graph!AudioNodes BY <1>2
<1>5. V \subseteq Graph!AudioNodes \X Graph!AudioNodes OBVIOUS
<1>6. <<"split", "leftDelay">> \in N /\ <<"leftFilter", "merge">> \in N OBVIOUS
<1>7. ASSUME /\ <<"input", "split">> \in W /\ <<"leftDelay", "leftGain">> \in W
             /\ <<"leftGain", "leftFilter">> \in W /\ <<"merge", "wet">> \in W
             /\ <<"wet", "drywet">> \in W /\ <<"drywet", "output">> \in W
      PROVE  /\ <<"input", "split">> \in V /\ <<"leftDelay", "leftGain">> \in V
             /\ <<"leftGain", "leftFilter">> \in V /\ <<"merge", "wet">> \in V
             /\ <<"wet", "drywet">> \in V /\ <<"drywet", "output">> \in V
  BY <1>7
<1> HIDE DEF V, N, P
<1> QED BY <1>1, <1>3, <1>4, <1>5, <1>6, <1>7, AlongNine

LEMMA BandNames == ASSUME NEW i \in 1..8 PROVE Graph!Band(i) \in Graph!AudioNodes
<1>1. i = 1 \/ i = 2 \/ i = 3 \/ i = 4 \/ i = 5 \/ i = 6 \/ i = 7 \/ i = 8 OBVIOUS
<1> QED BY <1>1 DEF Graph!Band, Graph!AudioNodes

\* The bands of an EQ are wired from its input to its output.
LEMMA EQWired == Graph!EQWires \in SUBSET (Graph!AudioNodes \X Graph!AudioNodes) /\ Along(Way("eq"), Graph!EQWires)
<1> DEFINE C == {<<Graph!Band(i), Graph!Band(i + 1)>> : i \in 1..(EQBands - 1)}
           N == {<<"input", Graph!Band(1)>>, <<Graph!Band(EQBands), "output">>}
<1>0. EQBands = 3 \/ EQBands = 8 BY GraphAssumption
<1>1. Graph!EQWires = Graph!EffectWires \cup N \cup C BY DEF Graph!EQWires
<1>2. {"input", "drywet", "wet", "output"} \subseteq Graph!AudioNodes BY DEF Graph!AudioNodes
<1>3. Graph!EffectWires \subseteq Graph!AudioNodes \X Graph!AudioNodes BY <1>2 DEF Graph!EffectWires
<1>4. N \subseteq Graph!AudioNodes \X Graph!AudioNodes
  <2>1. 1 \in 1..8 /\ EQBands \in 1..8 BY <1>0
  <2>2. Graph!Band(1) \in Graph!AudioNodes /\ Graph!Band(EQBands) \in Graph!AudioNodes
    BY <2>1, BandNames
  <2> QED BY <1>2, <2>2
<1>5. C \subseteq Graph!AudioNodes \X Graph!AudioNodes
  <2>1. \A i \in 1..(EQBands - 1) : i \in 1..8 /\ i + 1 \in 1..8 BY <1>0
  <2>2. \A i \in 1..(EQBands - 1) : Graph!Band(i) \in Graph!AudioNodes
          /\ Graph!Band(i + 1) \in Graph!AudioNodes BY <2>1, BandNames
  <2> QED BY <2>2
<1>6. /\ Graph!Band(1) = "band1" /\ Graph!Band(2) = "band2" /\ Graph!Band(3) = "band3" /\ Graph!Band(4) = "band4"
      /\ Graph!Band(5) = "band5" /\ Graph!Band(6) = "band6" /\ Graph!Band(7) = "band7" /\ Graph!Band(8) = "band8"
  BY DEF Graph!Band
<1>7. \A i \in 1..(EQBands - 1) : <<Graph!Band(i), Graph!Band(i + 1)>> \in C OBVIOUS
<1>8. <<"input", Graph!Band(1)>> \in N /\ <<Graph!Band(EQBands), "output">> \in N OBVIOUS
<1> HIDE DEF C, N
<1>9. CASE EQBands = 3
  <2>1. <<Graph!Band(1), Graph!Band(1 + 1)>> \in C /\ <<Graph!Band(2), Graph!Band(2 + 1)>> \in C
    BY <1>7, <1>9
  <2>2. /\ <<"input", "band1">> \in Graph!EQWires /\ <<"band1", "band2">> \in Graph!EQWires
        /\ <<"band2", "band3">> \in Graph!EQWires /\ <<"band3", "output">> \in Graph!EQWires
    BY <1>1, <1>6, <1>8, <1>9, <2>1
  <2>3. Along(<<"input", "band1", "band2", "band3", "output">>, Graph!EQWires) BY <2>2, AlongFive
  <2>4. Way("eq") = <<"input", "band1", "band2", "band3", "output">> BY <1>9 DEF Way
  <2> QED BY <1>1, <1>3, <1>4, <1>5, <2>3, <2>4
<1>10. CASE EQBands = 8
  <2> DEFINE p == <<"input", "band1", "band2", "band3", "band4", "band5", "band6", "band7", "band8",
                    "output">>
  <2>1. Way("eq") = p BY <1>10 DEF Way
  <2>2. /\ Len(p) = 10 /\ p[1] = "input" /\ p[10] = "output"
        /\ \A i \in 1..8 : p[i + 1] = Graph!Band(i)
    <3>1. /\ Len(p) = 10 /\ p[1] = "input" /\ p[10] = "output" /\ p[2] = "band1" /\ p[3] = "band2"
          /\ p[4] = "band3" /\ p[5] = "band4" /\ p[6] = "band5" /\ p[7] = "band6"
          /\ p[8] = "band7" /\ p[9] = "band8"
      OBVIOUS
    <3> HIDE DEF p
    <3>2. ASSUME NEW i \in 1..8 PROVE p[i + 1] = Graph!Band(i)
      <4>1. i = 1 \/ i = 2 \/ i = 3 \/ i = 4 \/ i = 5 \/ i = 6 \/ i = 7 \/ i = 8 OBVIOUS
      <4> QED BY <1>6, <3>1, <4>1
    <3> QED BY <3>1, <3>2
  <2> HIDE DEF p
  <2>3. ASSUME NEW i \in 1..9 PROVE <<p[i], p[i + 1]>> \in Graph!EQWires
    <3>1. CASE i = 1
      <4>1. p[1 + 1] = Graph!Band(1) BY <2>2
      <4> QED BY <1>1, <1>8, <2>2, <3>1, <4>1
    <3>2. CASE i = 9
      <4>1. p[8 + 1] = Graph!Band(8) BY <2>2
      <4>2. 8 + 1 = 9 /\ 9 + 1 = 10 OBVIOUS
      <4> QED BY <1>1, <1>8, <1>10, <2>2, <3>2, <4>1, <4>2
    <3>3. CASE i \in 2..8
      <4> DEFINE j == i - 1
      <4>1. j \in 1..7 /\ j \in 1..8 /\ j + 1 = i /\ i \in 1..8 BY <3>3
      <4> HIDE DEF j
      <4>2. p[j + 1] = Graph!Band(j) /\ p[i + 1] = Graph!Band(j + 1) BY <2>2, <4>1
      <4>3. <<Graph!Band(j), Graph!Band(j + 1)>> \in C BY <1>7, <1>10, <4>1
      <4> QED BY <1>1, <4>1, <4>2, <4>3
    <3> QED BY <3>1, <3>2, <3>3
  <2>4. Len(p) - 1 = 9 BY <2>2
  <2>5. Along(p, Graph!EQWires) BY ONLY <2>3, <2>4 DEF Along
  <2> QED BY <1>1, <1>3, <1>4, <1>5, <2>1, <2>5
<1> QED BY <1>0, <1>9, <1>10

\* What is made is wired.
LEMMA WiresAre == ASSUME NEW k \in Graph!AllKinds
  PROVE Graph!Wires(k) \in SUBSET (Graph!AudioNodes \X Graph!AudioNodes) /\ Wired(k, Graph!Wires(k))
<1> DEFINE E == Graph!EffectWires
<1>0. Graph!Sources \cap Graph!Effects = {} BY DEF Graph!Sources, Graph!Effects
<1>1. E \in SUBSET (Graph!AudioNodes \X Graph!AudioNodes) /\ <<"wet", "drywet">> \in E /\ <<"drywet", "output">> \in E
  BY DEF Graph!EffectWires, Graph!AudioNodes
<1> HIDE DEF E
<1>2. CASE k \in {"filter", "reverb", "compressor", "distortion"}
  <2>1. \E x \in {"biquad", "convolverNode", "compressor", "waveShaperNode"} :
          /\ Way(k) = <<"input", x, "wet", "drywet", "output">>
          /\ Graph!Wires(k) = E \cup {<<"input", x>>, <<x, "wet">>}
    BY <1>2
    DEF Way, Graph!Wires, Graph!FilterWires, Graph!ReverbWires, Graph!CompressorWires,
       Graph!DistortionWires, E
  <2>2. PICK x \in {"biquad", "convolverNode", "compressor", "waveShaperNode"} :
          /\ Way(k) = <<"input", x, "wet", "drywet", "output">>
          /\ Graph!Wires(k) = E \cup {<<"input", x>>, <<x, "wet">>}
    BY <2>1
  <2>3. x \in Graph!AudioNodes /\ {"input", "wet"} \subseteq Graph!AudioNodes
    BY DEF Graph!AudioNodes
  <2>4. Along(Way(k), Graph!Wires(k))
    <3>1. /\ <<"input", x>> \in Graph!Wires(k) /\ <<x, "wet">> \in Graph!Wires(k)
          /\ <<"wet", "drywet">> \in Graph!Wires(k) /\ <<"drywet", "output">> \in Graph!Wires(k)
      BY <1>1, <2>2
    <3>2. Along(<<"input", x, "wet", "drywet", "output">>, Graph!Wires(k)) BY <3>1, AlongFive
    <3> QED BY <2>2, <3>2
  <2>5. Graph!Wires(k) \in SUBSET (Graph!AudioNodes \X Graph!AudioNodes) BY <1>1, <2>2, <2>3
  <2>6. k \in Graph!Effects BY <1>2 DEF Graph!Effects
  <2> QED BY <1>0, <2>4, <2>5, <2>6 DEF Wired
<1>3. CASE k = "panner3d"
  <2>1. Graph!Wires(k) = E \cup {<<"input", "panner">>, <<"panner", "output">>}
    BY <1>3 DEF Graph!Wires, Graph!Panner3DWires, E
  <2>2. Way(k) = <<"input", "panner", "output">> BY <1>3 DEF Way
  <2>3. {"input", "panner", "output"} \subseteq Graph!AudioNodes BY DEF Graph!AudioNodes
  <2>4. Along(<<"input", "panner", "output">>, Graph!Wires(k))
    <3>1. \A i \in 1..2 : i = 1 \/ i = 2 OBVIOUS
    <3> QED BY <2>1, <3>1 DEF Along
  <2>5. Graph!Wires(k) \in SUBSET (Graph!AudioNodes \X Graph!AudioNodes) BY <1>1, <2>1, <2>3
  <2>6. k \in Graph!Effects BY <1>3 DEF Graph!Effects
  <2> QED BY <1>0, <2>2, <2>4, <2>5, <2>6 DEF Wired
<1>4. CASE k = "delay"
  <2> DEFINE B == Graph!EffectWires \cup {<<"input", "split">>, <<"leftDelay", "leftGain">>,
                            <<"rightDelay", "rightGain">>, <<"leftGain", "leftFilter">>,
                            <<"rightGain", "rightFilter">>, <<"merge", "wet">>}
  <2>1. Graph!Wires(k) = Graph!Rewired(B, "default") BY <1>4 DEF Graph!Wires, Graph!DelayWires
  <2>2. B \in SUBSET (Graph!AudioNodes \X Graph!AudioNodes)
    <3>1. {"input", "split", "leftDelay", "rightDelay", "leftGain", "rightGain", "leftFilter",
           "rightFilter", "merge", "wet"} \subseteq Graph!AudioNodes
      BY DEF Graph!AudioNodes
    <3> QED BY <1>1, <3>1 DEF E
  <2>3. /\ <<"input", "split">> \in B /\ <<"leftDelay", "leftGain">> \in B
        /\ <<"leftGain", "leftFilter">> \in B /\ <<"merge", "wet">> \in B
        /\ <<"wet", "drywet">> \in B /\ <<"drywet", "output">> \in B
    BY <1>1 DEF E
  <2> HIDE DEF B
  <2>4. Graph!Rewired(B, "default") \in SUBSET (Graph!AudioNodes \X Graph!AudioNodes)
        /\ Along(Way("delay"), Graph!Rewired(B, "default"))
    BY <2>2, <2>3, RewiredIs
  <2>5. k \in Graph!Effects BY <1>4 DEF Graph!Effects
  <2> QED BY <1>0, <1>4, <2>1, <2>4, <2>5 DEF Wired
<1>5. CASE k = "eq"
  <2>1. Graph!Wires(k) = Graph!EQWires /\ k \in Graph!Effects BY <1>5 DEF Graph!Wires, Graph!Effects
  <2> QED BY <1>0, <1>5, <2>1, EQWired DEF Wired
<1>6. CASE k = "band"
  <2>1. Graph!Wires(k) = {w \in E \cup {<<"input", "biquad">>, <<"biquad", "wet">>} : w[1] /= "biquad"}
    BY <1>6 DEF Graph!Wires, Graph!BandWires, Graph!FilterWires, E
  <2>2. {"input", "biquad", "wet"} \subseteq Graph!AudioNodes BY DEF Graph!AudioNodes
  <2>3. Graph!Wires(k) \in SUBSET (Graph!AudioNodes \X Graph!AudioNodes) BY <1>1, <2>1, <2>2
  <2>4. k \in Graph!Effects BY <1>6 DEF Graph!Effects
  <2> QED BY <1>0, <1>6, <2>3, <2>4 DEF Wired
<1>7. CASE k \in Graph!Sources
  <2>1. {"oscillator", "output", "panner", "osc2", "dNode", "dcGain"} \subseteq Graph!AudioNodes
    BY DEF Graph!AudioNodes
  <2>2. Graph!Wires(k) \in SUBSET (Graph!AudioNodes \X Graph!AudioNodes) /\ <<"oscillator", "output">> \in Graph!Wires(k)
    <3>1. k = "osc" \/ k = "noise" \/ k = "pulse" \/ k = "mono" BY <1>7 DEF Graph!Sources
    <3>2. CASE k = "osc" BY <2>1, <3>2 DEF Graph!Wires, Graph!OscillatorWires
    <3>3. CASE k = "noise" BY <2>1, <3>3 DEF Graph!Wires, Graph!OscillatorWires, Graph!NoiseWires
    <3>4. CASE k = "pulse" BY <2>1, <3>4 DEF Graph!Wires, Graph!OscillatorWires, Graph!PulseWires
    <3>5. CASE k = "mono" BY <2>1, <3>5 DEF Graph!Wires, Graph!MonoSynthWires
    <3> QED BY <3>1, <3>2, <3>3, <3>4, <3>5
  <2>3. Along(<<"oscillator", "output">>, Graph!Wires(k))
    <3>1. \A i \in 1..1 : i = 1 OBVIOUS
    <3> QED BY <2>2, <3>1 DEF Along
  <2> QED BY <1>0, <1>7, <2>2, <2>3 DEF Wired
<1>8. CASE k \notin Graph!Sources \cup Graph!Effects
  <2>1. {"input", "output", "control", "panner", "workletNode"} \subseteq Graph!AudioNodes
    BY DEF Graph!AudioNodes
  <2>2. k \in Graph!Meters \cup {"gain", "envelope", "soundfile", "recorder", "audioin", "poly"}
    BY <1>8 DEF Graph!AllKinds
  <2>3. Graph!Wires(k) \in SUBSET (Graph!AudioNodes \X Graph!AudioNodes)
    BY <2>1, <2>2
    DEF Graph!Meters, Graph!Wires, Graph!GainWires, Graph!EnvelopeWires, Graph!SoundFileWires,
       Graph!AmplitudeWires, Graph!RecorderWires
  <2> QED BY <1>8, <2>3 DEF Wired
<1> QED BY <1>2, <1>3, <1>4, <1>5, <1>6, <1>7, <1>8 DEF Graph!Effects

-----------------------------------------------------------------------------
(* What a dispose takes out of the array. *)

\* The parts of an object, which are different.
LEMMA PartsAre ==
  ASSUME Built(objects, Graph!Ids), NEW o \in Graph!Ids
  PROVE  /\ objects[o].parts \in Seq(Graph!Ids) /\ \A x : Once(objects[o].parts, x)
         /\ Graph!Range(objects[o].parts) \in SUBSET (Graph!Ids \ {o})
         /\ \A x : Graph!Contains(objects[o].parts, x) <=> x \in Graph!Range(objects[o].parts)
         /\ \A x \in Graph!Range(objects[o].parts) :
              IF objects[o].kind = "poly" THEN objects[x].kind = "mono" ELSE objects[x].kind \notin Synths
         /\ objects[o].kind \notin Wholes => Graph!Range(objects[o].parts) = {}
<1> DEFINE P == objects[o].parts
<1>1. P \in Seq(Graph!Ids) /\ objects[o] \in Thing(Graph!Ids) BY DEF Built, Thing
<1>2. \A x : Once(P, x) BY DEF Built, Once
<1>3. \A x : Graph!Contains(P, x) <=> \E i \in DOMAIN P : P[i] = x BY <1>1, ContainsIs
<1>4. \A x : x \in Graph!Range(P) <=> \E i \in DOMAIN P : P[i] = x BY DEF Graph!Range
<1>5. \A i \in DOMAIN P : P[i] \in Graph!Ids /\ P[i] /= o
  <2>1. \A i \in DOMAIN P : P[i] \in Graph!Ids BY <1>1
  <2> QED BY <2>1 DEF Built
<1>6. \A i \in DOMAIN P : IF objects[o].kind = "poly" THEN objects[P[i]].kind = "mono"
                          ELSE objects[P[i]].kind \in PartKinds
  BY DEF Built
<1>7. PartKinds \cap Synths = {} BY DEF PartKinds, Synths
<1>8. objects[o].kind \notin Wholes => P = <<>> BY DEF Built
<1> HIDE DEF P
<1>9. Graph!Range(P) \in SUBSET (Graph!Ids \ {o}) BY <1>4, <1>5
<1>10. \A x : Graph!Contains(P, x) <=> x \in Graph!Range(P) BY <1>3, <1>4
<1>11. ASSUME NEW x \in Graph!Range(P)
       PROVE  IF objects[o].kind = "poly" THEN objects[x].kind = "mono" ELSE objects[x].kind \notin Synths
  BY <1>4, <1>6, <1>7
<1>12. objects[o].kind \notin Wholes => Graph!Range(P) = {} BY <1>4, <1>8
<1> QED BY <1>1, <1>2, <1>9, <1>10, <1>11, <1>12 DEF P

\* Of a reversed sequence.
LEMMA ReversedIs ==
  ASSUME NEW T, NEW s \in Seq(T), \A x : Once(s, x)
  PROVE  /\ Graph!Reverse(s) \in Seq(T) /\ \A x : Once(Graph!Reverse(s), x)
         /\ \A x : Graph!Contains(Graph!Reverse(s), x) <=> Graph!Contains(s, x)
<1> DEFINE n == Len(s)
           r == Graph!Reverse(s)
<1>1. n \in Nat /\ DOMAIN s = 1..n /\ \A i \in 1..n : s[i] \in T BY LenProperties, ElementOfSeq
<1>2. r = [i \in 1..n |-> s[(n - i) + 1]] BY DEF Graph!Reverse
<1> HIDE DEF n, r
<1>3. \A i \in 1..n : (n - i) + 1 \in 1..n /\ (n - ((n - i) + 1)) + 1 = i BY <1>1
<1>4. r \in Seq(T)
  <2>1. \A i \in 1..n : s[(n - i) + 1] \in T BY <1>1, <1>3
  <2> QED BY <1>1, <1>2, <2>1
<1>5. DOMAIN r = 1..n /\ \A i \in 1..n : r[i] = s[(n - i) + 1] BY <1>2
<1>6. ASSUME NEW x, NEW i \in 1..n, NEW j \in 1..n, r[i] = x, r[j] = x PROVE i = j
  <2>1. (n - i) + 1 = (n - j) + 1
    <3>1. s[(n - i) + 1] = x /\ s[(n - j) + 1] = x BY <1>5, <1>6
    <3> QED BY <1>1, <1>3, <3>1 DEF Once
  <2> QED BY <1>1, <2>1
<1>7. ASSUME NEW x PROVE Graph!Contains(r, x) <=> Graph!Contains(s, x)
  <2>1. /\ Graph!Contains(r, x) <=> \E i \in DOMAIN r : r[i] = x
        /\ Graph!Contains(s, x) <=> \E i \in DOMAIN s : s[i] = x
    BY <1>4, ContainsIs
  <2>2. ASSUME NEW i \in 1..n, s[i] = x PROVE \E j \in 1..n : r[j] = x
    <3>1. r[(n - i) + 1] = x BY <1>3, <1>5, <2>2
    <3> QED BY <1>3, <3>1
  <2>3. ASSUME NEW j \in 1..n, r[j] = x PROVE \E i \in 1..n : s[i] = x
    <3>1. s[(n - j) + 1] = x BY <1>5, <2>3
    <3> QED BY <1>3, <3>1
  <2> QED BY <1>1, <1>5, <2>1, <2>2, <2>3
<1> QED BY <1>4, <1>5, <1>6, <1>7 DEF r, Once

\* One that is not among others, and then they.
LEMMA WithOne ==
  ASSUME NEW T, NEW o \in T, NEW s \in Seq(T), \A x : Once(s, x), ~Graph!Contains(s, o)
  PROVE  /\ <<o>> \o s \in Seq(T) /\ \A x : Once(<<o>> \o s, x)
         /\ \A x : Graph!Contains(<<o>> \o s, x) <=> x = o \/ Graph!Contains(s, x)
<1>1. <<o>> \in Seq(T) /\ DOMAIN <<o>> = {1} /\ <<o>>[1] = o OBVIOUS
<1>2. \A x : Graph!Contains(<<o>>, x) <=> x = o
  <2>1. Len(<<o>>) = 1 /\ 1 \in 1..1 /\ \A i \in 1..1 : i = 1 OBVIOUS
  <2> QED BY <1>1, <2>1 DEF Graph!Contains
<1>3. \A x : Once(<<o>>, x) BY <1>1 DEF Once
<1>4. <<o>> \o s \in Seq(T) BY <1>1, ConcatProperties
<1>5. \A x : /\ Graph!Contains(<<o>> \o s, x) <=> Graph!Contains(<<o>>, x) \/ Graph!Contains(s, x)
             /\ Once(<<o>>, x) /\ Once(s, x) /\ ~(Graph!Contains(<<o>>, x) /\ Graph!Contains(s, x))
                => Once(<<o>> \o s, x)
  BY <1>1, InARow
<1> QED BY <1>2, <1>3, <1>4, <1>5

\* The dispose of o takes out what it disposes of, once each, but for the synths.
Takes(o, q) ==
  /\ q \in Seq(Graph!Ids) /\ \A x : Once(q, x)
  /\ \A x : Graph!Contains(q, x) <=> x \in Graph!DisposedWith(o) /\ objects[x].kind \notin Synths

\* What the dispose of an object splices: itself or its parts, each at most once, no synths among them.
LEMMA SplicesAre ==
  ASSUME Built(objects, Graph!Ids), NEW o \in Graph!Ids, NEW dead
  PROVE  /\ Graph!Splices(o, dead) \in Seq(Graph!Ids) /\ Graph!DisposedWith(o) \in SUBSET Graph!Ids
         /\ o \notin dead => Takes(o, Graph!Splices(o, dead))
<1> DEFINE P == objects[o].parts
           k == objects[o].kind
<1>1. /\ P \in Seq(Graph!Ids) /\ \A x : Once(P, x)
      /\ Graph!Range(P) \in SUBSET (Graph!Ids \ {o})
      /\ \A x : Graph!Contains(P, x) <=> x \in Graph!Range(P)
      /\ \A x \in Graph!Range(P) : IF k = "poly" THEN objects[x].kind = "mono" ELSE objects[x].kind \notin Synths
      /\ k \notin Wholes => Graph!Range(P) = {}
  BY PartsAre
<1>2. ~Graph!Contains(P, o) BY <1>1
<1>3. /\ <<o>> \o P \in Seq(Graph!Ids) /\ \A x : Once(<<o>> \o P, x)
      /\ \A x : Graph!Contains(<<o>> \o P, x) <=> x = o \/ x \in Graph!Range(P)
  <2> HIDE DEF P, k
  <2>1. /\ <<o>> \o P \in Seq(Graph!Ids) /\ \A x : Once(<<o>> \o P, x)
        /\ \A x : Graph!Contains(<<o>> \o P, x) <=> x = o \/ Graph!Contains(P, x)
    BY <1>1, <1>2, WithOne
  <2> QED BY <1>1, <2>1
<1>4. /\ <<o>> \in Seq(Graph!Ids) /\ \A x : Once(<<o>>, x) /\ (Graph!Contains(<<o>>, x) <=> x = o)
  <2>1. <<o>> \in Seq(Graph!Ids) /\ DOMAIN <<o>> = {1} /\ <<o>>[1] = o OBVIOUS
  <2>2. \A x : Graph!Contains(<<o>>, x) <=> x = o BY <2>1, ContainsIs
  <2> QED BY <2>1, <2>2 DEF Once
<1>5. CASE k = "mono"
  <2>1. Graph!Splices(o, dead) = P BY <1>5 DEF Graph!Splices, Graph!MonoSynthSplices
  <2>2. Graph!DisposedWith(o) = {o} \cup Graph!Range(P) BY <1>5 DEF Graph!DisposedWith
  <2>3. k \in Synths BY <1>5 DEF Synths
  <2>4. Takes(o, P) BY <1>1, <1>5, <2>2, <2>3 DEF Takes
  <2> QED BY <1>1, <2>1, <2>2, <2>4
<1>6. CASE k = "poly"
  <2> DEFINE q == [i \in DOMAIN P |-> objects[P[i]].parts]
             U == UNION {Graph!Range(objects[v].parts) : v \in Graph!Range(P)}
  <2>1. Graph!Splices(o, dead) = Graph!FlattenSeq(q)
    BY <1>6 DEF Graph!Splices, Graph!PolySynthSplices, Graph!MonoSynthSplices
  <2>2. Graph!DisposedWith(o) = {o} \cup (Graph!Range(P) \cup U) BY <1>6 DEF Graph!DisposedWith
  <2>3. \A i \in DOMAIN P : P[i] \in Graph!Range(P) /\ P[i] \in Graph!Ids BY <1>1 DEF Graph!Range
  <2>4. q \in Seq(Seq(Graph!Ids)) /\ DOMAIN q = DOMAIN P /\ \A i \in DOMAIN P : q[i] = objects[P[i]].parts
    <3>1. \A i \in DOMAIN P : objects[P[i]].parts \in Seq(Graph!Ids) BY <2>3, PartsAre
    <3>2. Len(P) \in Nat /\ DOMAIN P = 1..Len(P) BY <1>1, LenProperties
    <3> HIDE DEF P
    <3> QED BY <3>1, <3>2
  <2>5. /\ Graph!FlattenSeq(q) \in Seq(Graph!Ids)
        /\ \A x : Graph!Contains(Graph!FlattenSeq(q), x) <=> \E i \in DOMAIN q : Graph!Contains(q[i], x)
        /\ \A x : /\ \A i \in DOMAIN q : Once(q[i], x)
                  /\ \A i, j \in DOMAIN q : Graph!Contains(q[i], x) /\ Graph!Contains(q[j], x) => i = j
                  => Once(Graph!FlattenSeq(q), x)
    <3> HIDE DEF q, P, k
    <3> QED BY <2>4, FlattenedContains
  <2>6. ASSUME NEW x PROVE (\E i \in DOMAIN q : Graph!Contains(q[i], x)) <=> x \in U
    <3>1. \A i \in DOMAIN P : Graph!Contains(q[i], x) <=> x \in Graph!Range(objects[P[i]].parts)
      BY <2>3, <2>4, PartsAre
    <3>2. \A v : v \in Graph!Range(P) <=> \E i \in DOMAIN P : P[i] = v BY DEF Graph!Range
    <3> HIDE DEF q, P
    <3> QED BY <2>4, <3>1, <3>2
  <2>7. ASSUME NEW x, NEW i \in DOMAIN q, NEW j \in DOMAIN q, Graph!Contains(q[i], x), Graph!Contains(q[j], x)
        PROVE  i = j
    <3>0. i \in DOMAIN P /\ j \in DOMAIN P BY <2>4
    <3>1. q[i] = objects[P[i]].parts /\ q[j] = objects[P[j]].parts BY <2>4, <3>0
    <3>2. q[i] \in Seq(Graph!Ids) /\ q[j] \in Seq(Graph!Ids) BY <2>3, <3>0, <3>1, PartsAre
    <3>3. PICK a \in DOMAIN q[i] : q[i][a] = x BY <2>7, <3>2, ContainsIs
    <3>4. PICK b \in DOMAIN q[j] : q[j][b] = x BY <2>7, <3>2, ContainsIs
    <3> HIDE DEF q
    <3>5. P[i] = P[j]
      <4>1. P[i] \in Graph!Ids /\ P[j] \in Graph!Ids BY <2>3, <3>0
      <4> HIDE DEF P
      <4>2. \A y, z \in Graph!Ids : \A c \in DOMAIN objects[y].parts, d \in DOMAIN objects[z].parts :
              objects[y].parts[c] = objects[z].parts[d] => y = z
        BY DEF Built
      <4> QED BY <3>1, <3>3, <3>4, <4>1, <4>2
    <3> HIDE DEF P
    <3> QED BY <1>1, <3>0, <3>5 DEF Once
  <2>8. \A x, i : i \in DOMAIN q => Once(q[i], x) BY <2>3, <2>4, PartsAre
  <2>9. \A x : x \in Graph!Range(P) => objects[x].kind \in Synths BY <1>1, <1>6 DEF Synths
  <2>10. \A x \in U : objects[x].kind \notin Synths
    <3>1. \A v \in Graph!Range(P) : v \in Graph!Ids /\ objects[v].kind /= "poly" BY <1>1, <1>6
    <3>2. \A v \in Graph!Range(P) : \A x \in Graph!Range(objects[v].parts) : objects[x].kind \notin Synths
      BY <3>1, PartsAre
    <3> HIDE DEF P
    <3> QED BY <3>2
  <2>11. k \in Synths BY <1>6 DEF Synths
  <2>12. U \in SUBSET Graph!Ids
    <3>1. \A v \in Graph!Range(P) : Graph!Range(objects[v].parts) \in SUBSET Graph!Ids
      BY <1>1, PartsAre
    <3> HIDE DEF P
    <3> QED BY <3>1
  <2> HIDE DEF q, U, P
  <2>13. Takes(o, Graph!FlattenSeq(q))
    <3>1. \A x : Once(Graph!FlattenSeq(q), x) BY <2>5, <2>7, <2>8
    <3>2. \A x : Graph!Contains(Graph!FlattenSeq(q), x) <=> x \in U BY <2>5, <2>6
    <3> HIDE DEF k
    <3>3. \A x : x \in U <=> x \in Graph!DisposedWith(o) /\ objects[x].kind \notin Synths
      BY <2>2, <2>9, <2>10, <2>11 DEF k
    <3> QED BY <2>5, <3>1, <3>2, <3>3 DEF Takes
  <2> QED BY <1>1, <2>1, <2>2, <2>5, <2>12, <2>13
<1>7. CASE k = "eq"
  <2>1. Graph!Splices(o, dead) = <<o>> \o (IF o \in dead THEN <<>> ELSE Graph!Reverse(P))
    BY <1>7 DEF Graph!Splices
  <2>2. Graph!DisposedWith(o) = {o} \cup Graph!Range(P) BY <1>7 DEF Graph!DisposedWith
  <2>3. k \notin Synths /\ k /= "poly" BY <1>7 DEF Synths
  <2> HIDE DEF P, k
  <2>4. /\ Graph!Reverse(P) \in Seq(Graph!Ids) /\ \A x : Once(Graph!Reverse(P), x)
        /\ \A x : Graph!Contains(Graph!Reverse(P), x) <=> Graph!Contains(P, x)
    BY <1>1, ReversedIs
  <2>5. /\ <<o>> \o Graph!Reverse(P) \in Seq(Graph!Ids) /\ \A x : Once(<<o>> \o Graph!Reverse(P), x)
        /\ \A x : Graph!Contains(<<o>> \o Graph!Reverse(P), x) <=> x = o \/ Graph!Contains(Graph!Reverse(P), x)
    BY <1>2, <2>4, WithOne
  <2>6. Takes(o, <<o>> \o Graph!Reverse(P))
    <3>1. \A x : x \in {o} \cup Graph!Range(P) => objects[x].kind \notin Synths BY <1>1, <2>3 DEF k
    <3> QED BY <1>1, <2>2, <2>4, <2>5, <3>1 DEF Takes
  <2>7. <<o>> \o <<>> = <<o>> OBVIOUS
  <2> QED BY <1>1, <1>4, <2>1, <2>2, <2>5, <2>6, <2>7
<1>8. CASE k \in {"delay", "pulse"}
  <2>1. \/ Graph!Splices(o, dead) = <<o>> \o P
        \/ o \in dead /\ Graph!Splices(o, dead) = <<o>> \o <<>>
    BY <1>8 DEF Graph!Splices
  <2>2. Graph!DisposedWith(o) = {o} \cup Graph!Range(P) BY <1>8 DEF Graph!DisposedWith
  <2>3. k \notin Synths /\ k /= "poly" BY <1>8 DEF Synths
  <2> HIDE DEF P, k
  <2>4. Takes(o, <<o>> \o P)
    <3>1. \A x : x \in {o} \cup Graph!Range(P) => objects[x].kind \notin Synths BY <1>1, <2>3 DEF k
    <3> QED BY <1>3, <2>2, <3>1 DEF Takes
  <2>5. <<o>> \o <<>> = <<o>> OBVIOUS
  <2> QED BY <1>1, <1>3, <1>4, <2>1, <2>2, <2>4, <2>5
<1>9. CASE k \notin {"mono", "poly", "eq", "delay", "pulse"}
  <2>1. Graph!Splices(o, dead) = <<o>> BY <1>9 DEF Graph!Splices
  <2>2. Graph!DisposedWith(o) = {o}
    <3>1. CASE k = "audioin" BY <3>1 DEF Graph!DisposedWith
    <3>2. CASE k /= "audioin"
      <4>1. Graph!Range(P) = {} BY <1>1, <1>9, <3>2 DEF Wholes
      <4> QED BY <1>9, <3>2, <4>1 DEF Graph!DisposedWith
    <3> QED BY <3>1, <3>2
  <2>3. k \notin Synths BY <1>9 DEF Synths
  <2>4. Takes(o, <<o>>) BY <1>4, <2>2, <2>3 DEF Takes
  <2> QED BY <1>4, <2>1, <2>2, <2>4
<1> QED BY <1>5, <1>6, <1>7, <1>8, <1>9

-----------------------------------------------------------------------------
(* What one dispose, or the page's end, makes of the page. *)

PageStates == [dead : SUBSET Graph!Ids, array : Seq(Graph!Ids), twice : BOOLEAN, throws : BOOLEAN]

\* Until something is disposed of twice the array is as it should be.
InOrder(s) == s \in PageStates /\ (~s.twice => Listed(objects, Graph!Ids, s.array, s.dead))

\* Disposing of one more object keeps the array in order.
LEMMA DisposedInOrder ==
  ASSUME Built(objects, Graph!Ids), NEW o \in Graph!Ids, NEW s, InOrder(s)
  PROVE  /\ InOrder(Graph!DisposedOf(s, o)) /\ s.dead \subseteq Graph!DisposedOf(s, o).dead
         /\ s.twice => Graph!DisposedOf(s, o).twice
<1> DEFINE q == Graph!Splices(o, s.dead)
           D == Graph!DisposedWith(o)
           r == Graph!DisposedOf(s, o)
           left == Graph!FoldLeft(Graph!Spliced, s.array, q)
<1>1. /\ s.dead \in SUBSET Graph!Ids /\ s.array \in Seq(Graph!Ids) /\ s.twice \in BOOLEAN
      /\ ~s.twice => Listed(objects, Graph!Ids, s.array, s.dead)
  BY DEF InOrder, PageStates
<1>2. q \in Seq(Graph!Ids) /\ D \in SUBSET Graph!Ids /\ (o \notin s.dead => Takes(o, q))
  BY SplicesAre
<1>3. /\ left \in Seq(Graph!Ids)
      /\ \A x : Once(s.array, x) => Once(left, x)
      /\ (\A x : Graph!Contains(q, x) => Once(q, x) /\ Graph!Contains(s.array, x) /\ Once(s.array, x)) =>
           \A x : Graph!Contains(left, x) <=> Graph!Contains(s.array, x) /\ ~Graph!Contains(q, x)
  <2> HIDE DEF q
  <2> QED BY <1>1, <1>2, AllSpliced
<1>4. /\ r = [dead |-> s.dead \cup D, array |-> left, twice |-> s.twice \/ D \cap s.dead /= {},
              throws |-> o \in s.dead /\ objects[o].kind \in {"amplitude", "delay"}]
  BY DEF Graph!DisposedOf
<1>5. o \in D BY DEF Graph!DisposedWith
<1> HIDE DEF q, D, r, left
<1>6. /\ r.dead = s.dead \cup D /\ r.array = left /\ r.twice = (s.twice \/ D \cap s.dead /= {})
      /\ r \in PageStates
  BY <1>1, <1>2, <1>3, <1>4 DEF PageStates
<1>7. ASSUME ~r.twice PROVE Listed(objects, Graph!Ids, r.array, r.dead)
  <2>1. ~s.twice /\ D \cap s.dead = {} /\ Listed(objects, Graph!Ids, s.array, s.dead)
    BY <1>1, <1>6, <1>7
  <2>2. Takes(o, q) BY <1>2, <1>5, <2>1
  <2>3. \A x : Graph!Contains(q, x) => x \in Graph!Ids /\ x \notin s.dead /\ objects[x].kind \notin Synths
    BY <1>2, <2>1, <2>2 DEF Takes, D
  <2>4. \A x : Graph!Contains(q, x) => Once(q, x) /\ Graph!Contains(s.array, x) /\ Once(s.array, x)
    BY <2>1, <2>2, <2>3 DEF Listed, Takes
  <2>5. \A x : Graph!Contains(left, x) <=> Graph!Contains(s.array, x) /\ ~Graph!Contains(q, x)
    BY <1>3, <2>4
  <2>6. ASSUME NEW x \in Graph!Ids
        PROVE  /\ IF x \in r.dead THEN Graph!Contains(r.array, x) => objects[x].kind \in Synths
                  ELSE Graph!Contains(r.array, x)
               /\ objects[x].kind \notin Synths => Once(r.array, x)
    <3>1. /\ IF x \in s.dead THEN Graph!Contains(s.array, x) => objects[x].kind \in Synths
             ELSE Graph!Contains(s.array, x)
          /\ objects[x].kind \notin Synths => Once(s.array, x)
      BY <2>1 DEF Listed
    <3>2. Graph!Contains(q, x) <=> x \in D /\ objects[x].kind \notin Synths BY <2>2 DEF Takes, D
    <3> QED BY <1>3, <1>6, <2>5, <3>1, <3>2
  <2> QED BY <2>6 DEF Listed
<1> QED BY <1>6, <1>7 DEF InOrder, r

\* The state of the page before a dispose.
LEMMA PageInOrder == ASSUME GraphInv PROVE InOrder(Graph!Page)
BY DEF GraphInv, InOrder, PageStates, Graph!Page

\* The objects after a dispose are those before, some of them disposed of.
LEMMA StillBuilt ==
  ASSUME NEW f, NEW D, Built(f, D), NEW g \in [D -> Thing(D)],
         \A o \in D : /\ g[o].kind = f[o].kind /\ g[o].parts = f[o].parts /\ o \notin g[o].to
                      /\ g[o].kind /= "band" /\ ~g[o].disposed => Wired(g[o].kind, g[o].wires)
  PROVE  Built(g, D)
<1>1. \A p \in D : g[p].kind \notin Wholes => g[p].parts = <<>> BY DEF Built
<1>2. ASSUME NEW p \in D, NEW i \in DOMAIN g[p].parts
      PROVE  /\ g[p].parts[i] /= p
             /\ IF g[p].kind = "poly" THEN g[g[p].parts[i]].kind = "mono"
                ELSE g[g[p].parts[i]].kind \in PartKinds
  <2>1. f[p].parts \in Seq(D) BY DEF Built, Thing
  <2>2. f[p].parts[i] \in D BY <2>1
  <2>3. /\ f[p].parts[i] /= p
        /\ IF f[p].kind = "poly" THEN f[f[p].parts[i]].kind = "mono"
           ELSE f[f[p].parts[i]].kind \in PartKinds
    BY DEF Built
  <2> QED BY <2>2, <2>3
<1>3. \A p, q \in D : \A i \in DOMAIN g[p].parts, j \in DOMAIN g[q].parts :
        g[p].parts[i] = g[q].parts[j] => p = q /\ i = j
  BY DEF Built
<1>4. \A o \in D : g[o].kind = "band" => \E p \in D : Graph!Contains(g[p].parts, o) BY DEF Built
<1> QED BY <1>1, <1>2, <1>3, <1>4 DEF Built

\* A page in order is what the invariant asks for, with more disposed of than before.
LEMMA BecomesInOrder ==
  ASSUME GraphInv, NEW s, InOrder(s), Graph!Page.dead \subseteq s.dead, Graph!Becomes(s),
         gr_calls' \in 0..gr_MaxCalls, given' = given
  PROVE  GraphInv'
<1> DEFINE Gone(o) == [objects[o] EXCEPT !.disposed = TRUE, !.wires = {}, !.to = {}]
<1>0. /\ objects \in Seq(Thing(Graph!Ids)) /\ Len(objects) <= MaxObjects /\ Built(objects, Graph!Ids)
      /\ soundArray \in Seq(Graph!Ids) /\ metered \in SUBSET Graph!Ids /\ given \in BOOLEAN
      /\ ~given => {o \in Graph!Ids : objects[o].kind \in Graph!Meters /\ ~objects[o].disposed} \subseteq metered
  BY DEF GraphInv
<1>1. /\ s.dead \in SUBSET Graph!Ids /\ s.array \in Seq(Graph!Ids) /\ s.twice \in BOOLEAN
      /\ ~s.twice => Listed(objects, Graph!Ids, s.array, s.dead)
      /\ {o \in Graph!Ids : objects[o].disposed} \subseteq s.dead
  BY DEF InOrder, PageStates, Graph!Page
<1>2. /\ objects' = [o \in Graph!Ids |-> IF o \in s.dead THEN Gone(o) ELSE objects[o]]
      /\ soundArray' = s.array /\ metered' = metered \ s.dead /\ twice' = s.twice
  BY DEF Graph!Becomes
<1>3. \A o \in Graph!Ids : objects[o] \in Thing(Graph!Ids) /\ objects \in [Graph!Ids -> Thing(Graph!Ids)] BY <1>0 DEF Built
<1>4. ASSUME NEW o \in Graph!Ids
      PROVE  /\ Gone(o) \in Thing(Graph!Ids) /\ Gone(o).kind = objects[o].kind
             /\ Gone(o).parts = objects[o].parts /\ Gone(o).disposed = TRUE /\ Gone(o).to = {}
  BY <1>3 DEF Thing
<1> HIDE DEF Gone
<1>5. Graph!Ids = 1..Len(objects) /\ Len(objects) \in Nat BY <1>0, LenProperties DEF Graph!Ids
<1>6. /\ objects' \in [Graph!Ids -> Thing(Graph!Ids)] /\ Graph!Ids' = Graph!Ids
      /\ Len(objects') = Len(objects) /\ objects' \in Seq(Thing(Graph!Ids))
  <2>1. objects' \in [Graph!Ids -> Thing(Graph!Ids)] BY <1>2, <1>3, <1>4
  <2>2. Graph!Ids' = Graph!Ids BY <2>1 DEF Graph!Ids
  <2>3. objects' \in Seq(Thing(Graph!Ids)) BY <1>5, <2>1
  <2>4. DOMAIN objects' = 1..Len(objects') /\ Len(objects') \in Nat BY <2>3, LenProperties
  <2>5. Len(objects') = Len(objects) BY <1>5, <2>1, <2>4
  <2> QED BY <2>1, <2>2, <2>3, <2>5
<1>7. \A o \in Graph!Ids : /\ objects'[o].kind = objects[o].kind /\ objects'[o].parts = objects[o].parts
                           /\ objects'[o].disposed <=> o \in s.dead
                           /\ o \in s.dead => objects'[o].to = {}
                           /\ o \notin s.dead => objects'[o] = objects[o]
  <2> TAKE o \in Graph!Ids
  <2>1. objects'[o] = IF o \in s.dead THEN Gone(o) ELSE objects[o] BY <1>2
  <2>2. objects[o].disposed \in BOOLEAN /\ (objects[o].disposed => o \in s.dead)
    BY <1>1, <1>3 DEF Thing
  <2> QED BY <1>4, <2>1, <2>2
<1>8. Built(objects', Graph!Ids)
  <2>1. \A o \in Graph!Ids : /\ o \notin objects[o].to
                             /\ objects[o].kind /= "band" /\ ~objects[o].disposed
                                  => Wired(objects[o].kind, objects[o].wires)
    BY <1>0 DEF Built
  <2>2. \A o \in Graph!Ids :
           /\ objects'[o].kind = objects[o].kind /\ objects'[o].parts = objects[o].parts
           /\ o \notin objects'[o].to
           /\ objects'[o].kind /= "band" /\ ~objects'[o].disposed
                => Wired(objects'[o].kind, objects'[o].wires)
    BY <1>7, <2>1
  <2> QED BY <1>0, <1>6, <2>2, StillBuilt
<1>9. ~twice' => Listed(objects', Graph!Ids, soundArray', {o \in Graph!Ids : objects'[o].disposed})
  <2>1. {o \in Graph!Ids : objects'[o].disposed} = s.dead BY <1>1, <1>7
  <2>2. Listed(objects, Graph!Ids, s.array, s.dead) => Listed(objects', Graph!Ids, s.array, s.dead)
    BY <1>7 DEF Listed
  <2> QED BY <1>1, <1>2, <2>1, <2>2
<1>10. ~given' => {o \in Graph!Ids : objects'[o].kind \in Graph!Meters /\ ~objects'[o].disposed} \subseteq metered'
  BY <1>0, <1>2, <1>7
<1>11. Built(objects, Graph!Ids)' BY <1>6, <1>8
<1> QED BY <1>0, <1>1, <1>2, <1>6, <1>9, <1>10, <1>11 DEF GraphInv

\* Each step keeps the invariant: dispose,
LEMMA GraphDisposeKeeps == ASSUME GraphInv, NEW o \in Graph!Ids, Graph!Dispose(o) PROVE GraphInv'
<1>1. Built(objects, Graph!Ids) /\ gr_calls \in 0..gr_MaxCalls BY DEF GraphInv
<1>2. InOrder(Graph!Page) BY PageInOrder
<1> DEFINE s == Graph!DisposedOf(Graph!Page, o)
<1>3. InOrder(s) /\ Graph!Page.dead \subseteq s.dead BY <1>1, <1>2, DisposedInOrder
<1>4. Graph!Becomes(s) /\ given' = given /\ gr_calls < gr_MaxCalls /\ gr_calls' = gr_calls + 1
  BY DEF Graph!Dispose, Graph!Call
<1>5. gr_calls' \in 0..gr_MaxCalls BY <1>1, <1>4, GraphAssumption
<1> HIDE DEF s
<1> QED BY <1>3, <1>4, <1>5, BecomesInOrder

\* What the page's end makes of the page at an index of the array.
Passed(s, i) == IF s.throws \/ i > Len(s.array) THEN s ELSE Graph!DisposedOf(s, s.array[i])

\* One turn of the walk over the array at the page's end.
LEMMA PassedInOrder ==
  ASSUME Built(objects, Graph!Ids), NEW s, InOrder(s), NEW i \in Nat \ {0}
  PROVE  InOrder(Passed(s, i)) /\ s.dead \subseteq Passed(s, i).dead
<1>1. s.array \in Seq(Graph!Ids) BY DEF InOrder, PageStates
<1>2. CASE s.throws \/ i > Len(s.array) BY <1>2 DEF Passed
<1>3. CASE ~(s.throws \/ i > Len(s.array))
  <2>1. i \in 1..Len(s.array) BY <1>1, <1>3, LenProperties
  <2>2. s.array[i] \in Graph!Ids BY <1>1, <2>1, ElementOfSeq
  <2>3. Passed(s, i) = Graph!DisposedOf(s, s.array[i]) BY <1>3 DEF Passed
  <2> QED BY <2>2, <2>3, DisposedInOrder
<1> QED BY <1>2, <1>3

\* the walk over the array at the page's end, turn by turn,
LEMMA DisposeSoundKeeps == ASSUME GraphInv, Graph!DisposeSound PROVE GraphInv'
<1> DEFINE n == Len(soundArray)
           Def(f) == f = [i \in 0..n |-> IF i = 0 THEN Graph!Page ELSE Passed(f[i - 1], i)]
           at == CHOOSE f : Def(f)
           X == {s \in PageStates : InOrder(s)}
<1>1. /\ Built(objects, Graph!Ids) /\ gr_calls \in 0..gr_MaxCalls /\ n \in Nat
  BY LenProperties DEF GraphInv
<1>2. Graph!Becomes(at[n]) /\ given' = given /\ gr_calls < gr_MaxCalls /\ gr_calls' = gr_calls + 1
  BY DEF Graph!DisposeSound, Graph!Call, Passed
<1>3. gr_calls' \in 0..gr_MaxCalls BY <1>1, <1>2, GraphAssumption
<1>4. InOrder(Graph!Page) /\ Graph!Page \in X BY PageInOrder DEF InOrder
<1> HIDE DEF n
<1> DEFINE F == [i \in 1..n |-> [s \in X |-> Passed(s, i)]]
<1>5. F \in [1..n -> [X -> X]]
  <2>1. ASSUME NEW i \in 1..n, NEW s \in X PROVE Passed(s, i) \in X
    <3>1. i \in Nat \ {0} BY <1>1
    <3>2. InOrder(Passed(s, i)) BY <1>1, <3>1, PassedInOrder
    <3> QED BY <3>2 DEF InOrder
  <2> HIDE DEF X
  <2> QED BY <2>1
<1>6. \E f : Def(f)
  <2> HIDE DEF X
  <2>1. PICK f : Applied(f, X, n, Graph!Page, F)
    <3> HIDE DEF F
    <3> QED BY ONLY <1>1, <1>4, <1>5, Repeated
  <2>2. f \in [0..n -> X] /\ f[0] = Graph!Page /\ \A i \in 1..n : f[i] = F[i][f[i - 1]]
    BY <2>1 DEF Applied
  <2>3. ASSUME NEW i \in 0..n PROVE f[i] = IF i = 0 THEN Graph!Page ELSE Passed(f[i - 1], i)
    <3>1. CASE i = 0 BY <2>2, <3>1
    <3>2. CASE i /= 0
      <4>1. i \in 1..n /\ i - 1 \in 0..n BY <1>1, <3>2
      <4>2. f[i - 1] \in X BY <2>2, <4>1
      <4> QED BY <2>2, <3>2, <4>1, <4>2
    <3> QED BY <3>1, <3>2
  <2>4. f = [i \in 0..n |-> f[i]] BY <2>2
  <2> HIDE DEF F
  <2>5. Def(f) BY <2>3, <2>4
  <2> HIDE DEF Def
  <2> QED BY <2>5
<1>7. Def(at)
  <2> HIDE DEF Def
  <2> QED BY <1>6
<1> HIDE DEF at
<1>8. \A i \in 0..n : at[i] = IF i = 0 THEN Graph!Page ELSE Passed(at[i - 1], i)
  <2>1. at = [i \in 0..n |-> IF i = 0 THEN Graph!Page ELSE Passed(at[i - 1], i)] BY <1>7
  <2> QED BY <2>1
<1> HIDE DEF Def, F, X
<1> DEFINE S == {i \in 0..n : InOrder(at[i]) /\ Graph!Page.dead \subseteq at[i].dead}
<1>9. 0 \in S
  <2>1. 0 \in 0..n /\ at[0] = Graph!Page BY <1>1, <1>8
  <2> QED BY <1>4, <2>1
<1>10. ASSUME NEW i \in 0..(n - 1), i \in S PROVE i + 1 \in S
  <2>1. i + 1 \in 0..n /\ i + 1 /= 0 /\ (i + 1) - 1 = i /\ i + 1 \in Nat \ {0} BY <1>1
  <2>2. at[i + 1] = Passed(at[i], i + 1) BY <1>8, <2>1
  <2>3. InOrder(at[i]) /\ Graph!Page.dead \subseteq at[i].dead BY <1>10
  <2>4. InOrder(at[i + 1]) /\ at[i].dead \subseteq at[i + 1].dead
    <3> HIDE DEF S
    <3> QED BY ONLY <1>1, <2>1, <2>2, <2>3, PassedInOrder
  <2> QED BY <2>1, <2>3, <2>4
<1>11. n \in S
  <2> HIDE DEF S
  <2> QED BY <1>1, <1>9, <1>10, Climb
<1>12. InOrder(at[n]) /\ Graph!Page.dead \subseteq at[n].dead BY <1>11
<1> HIDE DEF S
<1> QED BY <1>2, <1>3, <1>12, BecomesInOrder

-----------------------------------------------------------------------------
(* What is done to one object. *)

\* One object is wired or connected anew.
LEMMA OneChanged ==
  ASSUME GraphInv, NEW o \in Graph!Ids, NEW t \in Thing(Graph!Ids), objects' = [objects EXCEPT ![o] = t],
         t.kind = objects[o].kind, t.parts = objects[o].parts, t.disposed = objects[o].disposed,
         o \notin t.to, t.kind /= "band" /\ ~t.disposed => Wired(t.kind, t.wires),
         Graph!Call, soundArray' = soundArray, metered' = metered, twice' = twice, given' = given
  PROVE  GraphInv'
<1>1. /\ objects \in Seq(Thing(Graph!Ids)) /\ Len(objects) <= MaxObjects /\ Built(objects, Graph!Ids)
      /\ soundArray \in Seq(Graph!Ids) /\ metered \in SUBSET Graph!Ids /\ given \in BOOLEAN /\ twice \in BOOLEAN
      /\ ~twice => Listed(objects, Graph!Ids, soundArray, {p \in Graph!Ids : objects[p].disposed})
      /\ ~given => {p \in Graph!Ids : objects[p].kind \in Graph!Meters /\ ~objects[p].disposed} \subseteq metered
      /\ gr_calls' \in 0..gr_MaxCalls
  BY GraphAssumption DEF GraphInv, Graph!Call
<1>2. objects \in [Graph!Ids -> Thing(Graph!Ids)] BY <1>1 DEF Built
<1>3. Graph!Ids = 1..Len(objects) /\ Len(objects) \in Nat BY <1>1, LenProperties DEF Graph!Ids
<1>4. objects' \in [Graph!Ids -> Thing(Graph!Ids)] /\ Graph!Ids' = Graph!Ids BY <1>2 DEF Graph!Ids
<1>5. objects' \in Seq(Thing(Graph!Ids)) /\ Len(objects') = Len(objects)
  <2>1. objects' \in Seq(Thing(Graph!Ids)) BY ONLY <1>3, <1>4
  <2>2. DOMAIN objects' = 1..Len(objects') /\ Len(objects') \in Nat BY <2>1, LenProperties
  <2> QED BY ONLY <1>3, <1>4, <2>1, <2>2
<1>6. \A p \in Graph!Ids : /\ objects'[p].kind = objects[p].kind /\ objects'[p].parts = objects[p].parts
                           /\ objects'[p].disposed = objects[p].disposed
                           /\ objects'[p] = objects[p] \/ (p = o /\ objects'[p] = t)
  <2>1. \A p \in Graph!Ids : objects'[p] = IF p = o THEN t ELSE objects[p]
    BY ONLY <1>2, objects' = [objects EXCEPT ![o] = t]
  <2>2. ASSUME NEW p \in Graph!Ids
        PROVE  /\ objects'[p].kind = objects[p].kind /\ objects'[p].parts = objects[p].parts
               /\ objects'[p].disposed = objects[p].disposed
               /\ objects'[p] = objects[p] \/ (p = o /\ objects'[p] = t)
    <3>1. objects'[p] = objects[p] \/ (p = o /\ objects'[p] = t) BY ONLY <2>1
    <3>2. t.kind = objects[o].kind /\ t.parts = objects[o].parts /\ t.disposed = objects[o].disposed
      OBVIOUS
    <3> QED BY ONLY <3>1, <3>2
  <2> QED BY ONLY <2>2
<1>7. Built(objects', Graph!Ids)
  <2>1. \A p \in Graph!Ids : /\ p \notin objects[p].to
                             /\ objects[p].kind /= "band" /\ ~objects[p].disposed
                                  => Wired(objects[p].kind, objects[p].wires)
    BY <1>1 DEF Built
  <2>2. \A p \in Graph!Ids :
           /\ objects'[p].kind = objects[p].kind /\ objects'[p].parts = objects[p].parts
           /\ p \notin objects'[p].to
           /\ objects'[p].kind /= "band" /\ ~objects'[p].disposed
                => Wired(objects'[p].kind, objects'[p].wires)
    BY <1>6, <2>1
  <2> QED BY <1>1, <1>4, <2>2, StillBuilt
<1>8. ~twice => Listed(objects', Graph!Ids, soundArray, {p \in Graph!Ids : objects'[p].disposed})
  <2>1. {p \in Graph!Ids : objects'[p].disposed} = {p \in Graph!Ids : objects[p].disposed} BY <1>6
  <2>2. \A dead : Listed(objects, Graph!Ids, soundArray, dead) => Listed(objects', Graph!Ids, soundArray, dead)
    BY <1>6 DEF Listed
  <2> QED BY <1>1, <2>1, <2>2
<1>9. {p \in Graph!Ids : objects'[p].kind \in Graph!Meters /\ ~objects'[p].disposed}
        = {p \in Graph!Ids : objects[p].kind \in Graph!Meters /\ ~objects[p].disposed}
  BY <1>6
<1>10. Built(objects, Graph!Ids)' BY <1>4, <1>7
<1> QED BY <1>1, <1>4, <1>5, <1>8, <1>9, <1>10 DEF GraphInv

\* What an object is.
LEMMA ThingOf ==
  ASSUME GraphInv, NEW o \in Graph!Ids
  PROVE  /\ objects[o] \in Thing(Graph!Ids) /\ o \notin objects[o].to
         /\ objects[o].kind /= "band" /\ ~objects[o].disposed
              => Wired(objects[o].kind, objects[o].wires)
BY DEF GraphInv, Built

\* connect, which adds no object to its own ends,
LEMMA ConnectKeeps ==
  ASSUME GraphInv, NEW o \in Graph!Ids, NEW u \in Graph!Ids \cup {gr_main}, Graph!Connect(o, u)
  PROVE  GraphInv'
<1> DEFINE t == [objects[o] EXCEPT !.to = @ \cup {u}]
<1>1. /\ objects' = [objects EXCEPT ![o] = t] /\ Graph!Call
      /\ soundArray' = soundArray /\ metered' = metered /\ twice' = twice /\ given' = given
  BY DEF Graph!Connect
<1>2. u /= o
  <2>1. o \in Nat BY LenProperties DEF GraphInv, Graph!Ids
  <2> QED BY <2>1, GraphAssumption DEF Graph!Connect
<1>3. /\ t \in Thing(Graph!Ids) /\ t.kind = objects[o].kind /\ t.parts = objects[o].parts
      /\ t.disposed = objects[o].disposed /\ t.wires = objects[o].wires /\ o \notin t.to
  BY <1>2, ThingOf DEF Thing
<1>4. t.kind /= "band" /\ ~t.disposed => Wired(t.kind, t.wires) BY <1>3, ThingOf
<1> HIDE DEF t
<1> QED BY <1>1, <1>3, <1>4, OneChanged

\* disconnect,
LEMMA DisconnectKeeps == ASSUME GraphInv, NEW o \in Graph!Ids, Graph!Disconnect(o) PROVE GraphInv'
<1> DEFINE t == [objects[o] EXCEPT !.to = {}]
<1>1. /\ objects' = [objects EXCEPT ![o] = t] /\ Graph!Call
      /\ soundArray' = soundArray /\ metered' = metered /\ twice' = twice /\ given' = given
  BY DEF Graph!Disconnect
<1>3. /\ t \in Thing(Graph!Ids) /\ t.kind = objects[o].kind /\ t.parts = objects[o].parts
      /\ t.disposed = objects[o].disposed /\ t.wires = objects[o].wires /\ o \notin t.to
  BY ThingOf DEF Thing
<1>4. t.kind /= "band" /\ ~t.disposed => Wired(t.kind, t.wires) BY <1>3, ThingOf
<1> HIDE DEF t
<1> QED BY <1>1, <1>3, <1>4, OneChanged

\* An object is wired anew.
LEMMA WiresChanged ==
  ASSUME GraphInv, NEW o \in Graph!Ids, NEW w \in SUBSET (Graph!AudioNodes \X Graph!AudioNodes), Wired(objects[o].kind, w),
         objects' = [objects EXCEPT ![o].wires = w],
         Graph!Call, soundArray' = soundArray, metered' = metered, twice' = twice, given' = given
  PROVE  GraphInv'
<1> DEFINE t == [objects[o] EXCEPT !.wires = w]
<1>1. objects' = [objects EXCEPT ![o] = t] OBVIOUS
<1>3. /\ t \in Thing(Graph!Ids) /\ t.kind = objects[o].kind /\ t.parts = objects[o].parts
      /\ t.disposed = objects[o].disposed /\ t.wires = w /\ o \notin t.to
  BY ThingOf DEF Thing
<1> HIDE DEF t
<1> QED BY <1>1, <1>3, OneChanged

\* setType of a delay, whose left side stays,
LEMMA SetTypeKeepsAll ==
  ASSUME GraphInv, NEW o \in Graph!Ids, NEW type \in {"default", "pingPong"}, Graph!SetType(o, type)
  PROVE  GraphInv'
<1> DEFINE w == Graph!Rewired(objects[o].wires, type)
<1>1. /\ objects' = [objects EXCEPT ![o].wires = w] /\ Graph!Call /\ objects[o].kind = "delay"
      /\ soundArray' = soundArray /\ metered' = metered /\ twice' = twice /\ given' = given
      /\ ~objects[o].disposed
  BY DEF Graph!SetType
<1>2. objects[o].wires \in SUBSET (Graph!AudioNodes \X Graph!AudioNodes) /\ Wired("delay", objects[o].wires)
  BY <1>1, ThingOf DEF Thing
<1>3. "delay" \in Graph!Effects \ {"band"} /\ "delay" \notin Graph!Sources
  BY DEF Graph!Effects, Graph!Sources
<1>4. Along(Way("delay"), objects[o].wires) BY <1>2, <1>3 DEF Wired
<1>5. w \in SUBSET (Graph!AudioNodes \X Graph!AudioNodes) /\ Along(Way("delay"), w)
  BY <1>2, <1>4, NineAlong, RewiredIs
<1>6. Wired("delay", w) BY <1>3, <1>5 DEF Wired
<1> HIDE DEF w
<1> QED BY <1>1, <1>5, <1>6, WiresChanged

\* A source is wired to its output, past a delay or not.
LEMMA SourceWired ==
  ASSUME NEW w, \/ <<"oscillator", "output">> \in w
                \/ <<"oscillator", "dNode">> \in w /\ <<"dNode", "output">> \in w
  PROVE  Wired("osc", w)
<1>1. "osc" \in Graph!Sources /\ "osc" \notin Graph!Effects BY DEF Graph!Effects, Graph!Sources
<1>2. CASE <<"oscillator", "output">> \in w
  <2> DEFINE p == <<"oscillator", "output">>
  <2>1. Len(p) = 2 /\ p[1] = "oscillator" /\ p[2] = "output" OBVIOUS
  <2> HIDE DEF p
  <2>2. Len(p) - 1 = 1 BY <2>1
  <2>3. \A i \in 1..1 : i = 1 /\ i + 1 = 2 OBVIOUS
  <2>4. Along(p, w) BY ONLY <1>2, <2>1, <2>2, <2>3 DEF Along
  <2> QED BY <1>1, <2>4 DEF Wired, p
<1>3. CASE <<"oscillator", "dNode">> \in w /\ <<"dNode", "output">> \in w
  <2> DEFINE p == <<"oscillator", "dNode", "output">>
  <2>1. Len(p) = 3 /\ p[1] = "oscillator" /\ p[2] = "dNode" /\ p[3] = "output" OBVIOUS
  <2> HIDE DEF p
  <2>2. Len(p) - 1 = 2 BY <2>1
  <2>3. \A i \in 1..2 : (i = 1 /\ i + 1 = 2) \/ (i = 2 /\ i + 1 = 3) OBVIOUS
  <2>4. Along(p, w) BY ONLY <1>3, <2>1, <2>2, <2>3 DEF Along
  <2> QED BY <1>1, <2>4 DEF Wired, p
<1> QED BY <1>2, <1>3

\* phase of an oscillator,
LEMMA PhaseKeepsAll == ASSUME GraphInv, NEW o \in Graph!Ids, Graph!Phase(o) PROVE GraphInv'
<1> DEFINE w == {v \in objects[o].wires : v[1] /= "oscillator"}
                  \cup {<<"oscillator", "dNode">>, <<"dNode", "output">>}
<1>1. /\ objects' = [objects EXCEPT ![o].wires = w] /\ Graph!Call /\ objects[o].kind = "osc"
      /\ soundArray' = soundArray /\ metered' = metered /\ twice' = twice /\ given' = given
  BY DEF Graph!Phase
<1>2. objects[o].wires \in SUBSET (Graph!AudioNodes \X Graph!AudioNodes) BY ThingOf DEF Thing
<1>3. w \in SUBSET (Graph!AudioNodes \X Graph!AudioNodes)
  <2>1. {"oscillator", "dNode", "output"} \subseteq Graph!AudioNodes BY DEF Graph!AudioNodes
  <2> QED BY <1>2, <2>1
<1>4. Wired("osc", w) BY SourceWired
<1> HIDE DEF w
<1> QED BY <1>1, <1>3, <1>4, WiresChanged

\* start of one,
LEMMA StartKeepsAll == ASSUME GraphInv, NEW o \in Graph!Ids, Graph!Start(o) PROVE GraphInv'
<1> DEFINE w == {v \in objects[o].wires : v[1] /= "oscillator"} \cup {<<"oscillator", "output">>}
<1>1. /\ objects' = [objects EXCEPT ![o].wires = w] /\ Graph!Call /\ objects[o].kind = "osc"
      /\ soundArray' = soundArray /\ metered' = metered /\ twice' = twice /\ given' = given
  BY DEF Graph!Start
<1>2. objects[o].wires \in SUBSET (Graph!AudioNodes \X Graph!AudioNodes) BY ThingOf DEF Thing
<1>3. w \in SUBSET (Graph!AudioNodes \X Graph!AudioNodes)
  <2>1. {"oscillator", "output"} \subseteq Graph!AudioNodes BY DEF Graph!AudioNodes
  <2> QED BY <1>2, <2>1
<1>4. Wired("osc", w) BY SourceWired
<1> HIDE DEF w
<1> QED BY <1>1, <1>3, <1>4, WiresChanged

\* The meters of main change once one is given an input.
LEMMA InputGiven ==
  ASSUME GraphInv, metered' \in SUBSET Graph!Ids, given' = TRUE, Graph!Call,
         objects' = objects, soundArray' = soundArray, twice' = twice
  PROVE  GraphInv'
<1>1. Graph!Ids' = Graph!Ids /\ gr_calls' \in 0..gr_MaxCalls
  BY GraphAssumption DEF GraphInv, Graph!Call, Graph!Ids
<1>2. Built(objects, Graph!Ids)' <=> Built(objects, Graph!Ids) BY <1>1
<1> QED BY <1>1, <1>2 DEF GraphInv

\* and setInput of a meter, after which meters are the sketch's business.
LEMMA InputsKeep ==
  ASSUME GraphInv, NEW o \in Graph!Ids, NEW b \in BOOLEAN, Graph!SetAmplitudeInput(o, b) \/ Graph!SetFFTInput(o, b)
  PROVE  GraphInv'
<1>1. metered \in SUBSET Graph!Ids BY DEF GraphInv
<1>2. CASE Graph!SetAmplitudeInput(o, b)
  <2>1. metered' \in SUBSET Graph!Ids BY <1>1, <1>2 DEF Graph!SetAmplitudeInput
  <2> QED BY <1>2, <2>1, InputGiven DEF Graph!SetAmplitudeInput
<1>3. CASE Graph!SetFFTInput(o, b)
  <2>1. metered' \in SUBSET Graph!Ids BY <1>1, <1>3 DEF Graph!SetFFTInput
  <2> QED BY <1>3, <2>1, InputGiven DEF Graph!SetFFTInput
<1> QED BY <1>2, <1>3

-----------------------------------------------------------------------------
(* What a constructor adds. *)

\* Objects made in one go, by the ids they are given from n on.
Numbered(m, n) == [x \in n..(n + Len(m) - 1) |-> m[x - n + 1]]

\* They are well built by themselves, and all put into the array.
Fits(m, q, n) ==
  LET D == n..(n + Len(m) - 1)
      g == Numbered(m, n)
  IN /\ m \in Seq(Thing(D)) /\ q \in Seq(D)
     /\ Built(g, D) /\ Listed(g, D, q, {}) /\ \A x \in D : g[x].disposed = FALSE

LEMMA SeqsOfMore == ASSUME NEW A, NEW B, A \subseteq B, NEW s \in Seq(A) PROVE s \in Seq(B)
<1>1. Len(s) \in Nat /\ DOMAIN s = 1..Len(s) /\ \A i \in 1..Len(s) : s[i] \in A
  BY LenProperties, ElementOfSeq
<1>2. \A i \in 1..Len(s) : s[i] \in B BY <1>1
<1>3. s \in [1..Len(s) -> B] BY <1>1, <1>2
<1> QED BY <1>1, <1>3

LEMMA ThingsOfMore == ASSUME NEW A, NEW B, A \subseteq B, NEW t \in Thing(A) PROVE t \in Thing(B)
<1>1. t.parts \in Seq(B) BY SeqsOfMore DEF Thing
<1> QED BY <1>1 DEF Thing

\* Objects that are well built stay so beside others that are.
LEMMA BuiltBeside ==
  ASSUME NEW A, NEW B, A \cap B = {}, NEW f, NEW g, Built(f, A), Built(g, B),
         NEW h, DOMAIN h = A \cup B, h = [x \in A \cup B |-> h[x]],
         \A x \in A : h[x] = f[x], \A x \in B : h[x] = g[x]
  PROVE  Built(h, A \cup B)
<1> DEFINE C == A \cup B
<1>1. \A x \in A : f[x] \in Thing(A) /\ f[x].parts \in Seq(A) BY DEF Built, Thing
<1>2. \A x \in B : g[x] \in Thing(B) /\ g[x].parts \in Seq(B) BY DEF Built, Thing
<1>3. h \in [C -> Thing(C)]
  <2>1. \A x \in A : h[x] \in Thing(C)
    <3>1. A \subseteq C OBVIOUS
    <3> HIDE DEF C
    <3> QED BY <1>1, <3>1, ThingsOfMore
  <2>2. \A x \in B : h[x] \in Thing(C)
    <3>1. B \subseteq C OBVIOUS
    <3> HIDE DEF C
    <3> QED BY <1>2, <3>1, ThingsOfMore
  <2>3. \A x \in C : h[x] \in Thing(C) BY <2>1, <2>2
  <2> QED BY <2>3
<1>4. \A x \in A : \A i \in DOMAIN f[x].parts : f[x].parts[i] \in A BY <1>1
<1>5. \A x \in B : \A i \in DOMAIN g[x].parts : g[x].parts[i] \in B BY <1>2
<1>6. \A p \in C : h[p].kind \notin Wholes => h[p].parts = <<>> BY DEF Built
<1>7. ASSUME NEW p \in C, NEW i \in DOMAIN h[p].parts
      PROVE  /\ h[p].parts[i] /= p
             /\ IF h[p].kind = "poly" THEN h[h[p].parts[i]].kind = "mono"
                ELSE h[h[p].parts[i]].kind \in PartKinds
  <2>1. CASE p \in A
    <3>1. h[p] = f[p] /\ f[p].parts[i] \in A BY <1>4, <1>7, <2>1
    <3>2. h[f[p].parts[i]] = f[f[p].parts[i]] BY <3>1
    <3>3. /\ f[p].parts[i] /= p
          /\ IF f[p].kind = "poly" THEN f[f[p].parts[i]].kind = "mono"
             ELSE f[f[p].parts[i]].kind \in PartKinds
      BY <1>7, <2>1, <3>1 DEF Built
    <3> QED BY ONLY <3>1, <3>2, <3>3
  <2>2. CASE p \in B
    <3>1. h[p] = g[p] /\ g[p].parts[i] \in B BY <1>5, <1>7, <2>2
    <3>2. h[g[p].parts[i]] = g[g[p].parts[i]] BY <3>1
    <3>3. /\ g[p].parts[i] /= p
          /\ IF g[p].kind = "poly" THEN g[g[p].parts[i]].kind = "mono"
             ELSE g[g[p].parts[i]].kind \in PartKinds
      BY <1>7, <2>2, <3>1 DEF Built
    <3> QED BY ONLY <3>1, <3>2, <3>3
  <2> QED BY <2>1, <2>2
<1>8. ASSUME NEW p \in C, NEW q \in C, NEW i \in DOMAIN h[p].parts, NEW j \in DOMAIN h[q].parts,
             h[p].parts[i] = h[q].parts[j]
      PROVE  p = q /\ i = j
  <2>1. CASE p \in A /\ q \in A
    <3>1. h[p] = f[p] /\ h[q] = f[q] BY <2>1
    <3> QED BY <1>8, <2>1, <3>1 DEF Built
  <2>2. CASE p \in B /\ q \in B
    <3>1. h[p] = g[p] /\ h[q] = g[q] BY <2>2
    <3> QED BY <1>8, <2>2, <3>1 DEF Built
  <2>3. CASE p \in A /\ q \in B
    <3>1. h[p] = f[p] /\ h[q] = g[q] BY <2>3
    <3>2. h[p].parts[i] \in A /\ h[q].parts[j] \in B BY <1>4, <1>5, <1>8, <2>3, <3>1
    <3> QED BY <1>8, <3>2
  <2>4. CASE p \in B /\ q \in A
    <3>1. h[p] = g[p] /\ h[q] = f[q] BY <2>4
    <3>2. h[p].parts[i] \in B /\ h[q].parts[j] \in A BY <1>4, <1>5, <1>8, <2>4, <3>1
    <3> QED BY <1>8, <3>2
  <2> QED BY <2>1, <2>2, <2>3, <2>4
<1>9. \A o \in C : h[o].kind = "band" => \E p \in C : Graph!Contains(h[p].parts, o)
  <2>1. \A o \in A : h[o].kind = "band" => \E p \in A : Graph!Contains(h[p].parts, o) BY DEF Built
  <2>2. \A o \in B : h[o].kind = "band" => \E p \in B : Graph!Contains(h[p].parts, o) BY DEF Built
  <2> QED BY <2>1, <2>2
<1>10. \A o \in C : /\ o \notin h[o].to
                    /\ h[o].kind /= "band" /\ ~h[o].disposed => Wired(h[o].kind, h[o].wires)
  BY DEF Built
<1> HIDE DEF C
<1>11. Built(h, C) BY ONLY <1>3, <1>6, <1>7, <1>8, <1>9, <1>10 DEF Built
<1> QED BY <1>11 DEF C

\* New objects, pushed at the end, leave the array in order.
LEMMA ListedBeside ==
  ASSUME NEW A, NEW B, A \cap B = {}, NEW f, NEW g, NEW s \in Seq(A), NEW q \in Seq(B),
         NEW dead \in SUBSET A, Listed(f, A, s, dead), Listed(g, B, q, {}),
         NEW h, \A x \in A : h[x] = f[x], \A x \in B : h[x] = g[x]
  PROVE  Listed(h, A \cup B, s \o q, dead) /\ s \o q \in Seq(A \cup B)
<1> DEFINE C == A \cup B
<1>1. s \in Seq(C) /\ q \in Seq(C)
  <2>1. A \subseteq C /\ B \subseteq C OBVIOUS
  <2> HIDE DEF C
  <2> QED BY <2>1, SeqsOfMore
<1>2. /\ s \o q \in Seq(C)
      /\ \A x : /\ Graph!Contains(s \o q, x) <=> Graph!Contains(s, x) \/ Graph!Contains(q, x)
                /\ Once(s, x) /\ Once(q, x) /\ ~(Graph!Contains(s, x) /\ Graph!Contains(q, x)) => Once(s \o q, x)
  <2> HIDE DEF C
  <2> QED BY <1>1, InARow
<1>3. \A x : /\ (Graph!Contains(s, x) => x \in A) /\ (~Graph!Contains(s, x) => Once(s, x))
             /\ (Graph!Contains(q, x) => x \in B) /\ (~Graph!Contains(q, x) => Once(q, x))
  <2>1. \A x : Graph!Contains(s, x) <=> \E i \in DOMAIN s : s[i] = x BY ContainsIs
  <2>2. \A x : Graph!Contains(q, x) <=> \E i \in DOMAIN q : q[i] = x BY ContainsIs
  <2>3. (\A i \in DOMAIN s : s[i] \in A) /\ (\A i \in DOMAIN q : q[i] \in B) OBVIOUS
  <2> QED BY <2>1, <2>2, <2>3 DEF Once
<1>4. ASSUME NEW x \in C
      PROVE  /\ IF x \in dead THEN Graph!Contains(s \o q, x) => h[x].kind \in Synths ELSE Graph!Contains(s \o q, x)
             /\ h[x].kind \notin Synths => Once(s \o q, x)
  <2>1. CASE x \in A
    <3>1. /\ IF x \in dead THEN Graph!Contains(s, x) => f[x].kind \in Synths ELSE Graph!Contains(s, x)
          /\ f[x].kind \notin Synths => Once(s, x)
      BY <2>1 DEF Listed
    <3>2. ~Graph!Contains(q, x) /\ Once(q, x) BY <1>3, <2>1
    <3> QED BY <1>2, <2>1, <3>1, <3>2
  <2>2. CASE x \in B
    <3>1. Graph!Contains(q, x) /\ (g[x].kind \notin Synths => Once(q, x)) BY <2>2 DEF Listed
    <3>2. ~Graph!Contains(s, x) /\ Once(s, x) /\ x \notin dead BY <1>3, <2>2
    <3> QED BY <1>2, <2>2, <3>1, <3>2
  <2> QED BY <2>1, <2>2
<1>5. Listed(h, C, s \o q, dead) BY ONLY <1>4 DEF Listed
<1> QED BY <1>2, <1>5

\* The objects made after those that there are, and their ids.
LEMMA ObjectsAfter ==
  ASSUME NEW T, NEW s \in Seq(T), NEW m \in Seq(T)
  PROVE  LET A == 1..Len(s)
             B == (Len(s) + 1)..(Len(s) + 1 + Len(m) - 1)
             h == s \o m
         IN /\ DOMAIN s = A /\ Len(s) \in Nat /\ A \cap B = {} /\ h \in Seq(T)
            /\ DOMAIN h = A \cup B /\ h = [x \in A \cup B |-> h[x]] /\ Len(h) = Len(s) + Len(m)
            /\ \A x \in A : h[x] = s[x]
            /\ \A x \in B : h[x] = m[x - (Len(s) + 1) + 1]
<1> DEFINE N == Len(s)
           L == Len(m)
           A == 1..N
           B == (N + 1)..(N + 1 + L - 1)
           h == s \o m
<1>1. N \in Nat /\ L \in Nat /\ DOMAIN s = A /\ DOMAIN m = 1..L BY LenProperties
<1>2. /\ h \in Seq(T) /\ Len(h) = N + L
      /\ \A i \in 1..(N + L) : h[i] = IF i <= N THEN s[i] ELSE m[i - N]
  BY ConcatProperties
<1> HIDE DEF N, L, h
<1>3. A \cup B = 1..(N + L) /\ A \cap B = {} BY <1>1
<1>4. DOMAIN h = A \cup B BY <1>2, <1>3, LenProperties
<1>5. \A x \in A : h[x] = s[x] BY <1>1, <1>2
<1>6. \A x \in B : h[x] = m[x - (N + 1) + 1]
  <2> TAKE x \in B
  <2>1. x - (N + 1) + 1 = x - N /\ x \in 1..(N + L) /\ ~(x <= N) BY <1>1
  <2> HIDE DEF B
  <2> QED BY <1>2, <2>1
<1> HIDE DEF A, B
<1>7. h = [x \in A \cup B |-> h[x]]
  <2>1. h = [x \in DOMAIN h |-> h[x]] BY <1>2
  <2> QED BY ONLY <1>4, <2>1
<1> QED BY ONLY <1>1, <1>2, <1>3, <1>4, <1>5, <1>6, <1>7 DEF A, B, N, L, h

\* An object made with parts that fit among themselves fits with those before.
LEMMA NewKeeps ==
  ASSUME GraphInv, NEW k, Graph!New(k), Fits(Graph!Made(k, Len(objects) + 1), Graph!Pushed(k, Len(objects) + 1),
                                       Len(objects) + 1)
  PROVE  GraphInv'
<1> DEFINE n == Len(objects) + 1
           m == Graph!Made(k, n)
           q == Graph!Pushed(k, n)
           A == 1..Len(objects)
           B == n..(n + Len(m) - 1)
           g == Numbered(m, n)
           h == objects \o m
           C == A \cup B
<1>1. /\ objects \in Seq(Thing(Graph!Ids)) /\ Len(objects) <= MaxObjects /\ Built(objects, Graph!Ids)
      /\ soundArray \in Seq(Graph!Ids) /\ metered \in SUBSET Graph!Ids /\ given \in BOOLEAN /\ twice \in BOOLEAN
      /\ ~twice => Listed(objects, Graph!Ids, soundArray, {o \in Graph!Ids : objects[o].disposed})
      /\ ~given => {o \in Graph!Ids : objects[o].kind \in Graph!Meters /\ ~objects[o].disposed} \subseteq metered
      /\ gr_calls \in 0..gr_MaxCalls
  BY DEF GraphInv
<1>2. /\ Len(objects) + Len(m) <= MaxObjects /\ objects' = h /\ soundArray' = soundArray \o q
      /\ metered' = metered \cup {n + i - 1 : i \in {j \in DOMAIN m : m[j].kind \in Graph!Meters}}
      /\ gr_calls' = gr_calls /\ twice' = twice /\ given' = given
  BY DEF Graph!New
<1>3. /\ m \in Seq(Thing(B)) /\ q \in Seq(B) /\ Built(g, B) /\ Listed(g, B, q, {})
      /\ \A x \in B : g[x].disposed = FALSE
  BY DEF Fits
<1>4. g = [x \in B |-> m[x - n + 1]] BY DEF Numbered
<1> HIDE DEF m, q, g
<1>5. /\ DOMAIN objects = A /\ Len(objects) \in Nat /\ A \cap B = {} /\ h \in Seq(Thing(C))
      /\ DOMAIN h = C /\ h = [x \in C |-> h[x]] /\ Len(h) = Len(objects) + Len(m)
      /\ \A x \in A : h[x] = objects[x]
      /\ \A x \in B : h[x] = m[x - n + 1]
  <2>1. A \subseteq C /\ B \subseteq C OBVIOUS
  <2>2. Graph!Ids = A BY <1>1, LenProperties DEF Graph!Ids
  <2> HIDE DEF A, B, C
  <2>3. Thing(A) \subseteq Thing(C) /\ Thing(B) \subseteq Thing(C) BY <2>1, ThingsOfMore
  <2>4. objects \in Seq(Thing(C)) /\ m \in Seq(Thing(C)) BY <1>1, <1>3, <2>2, <2>3, SeqsOfMore
  <2> QED BY <2>4, ObjectsAfter DEF A, B, C
<1>6. Graph!Ids = A /\ Graph!Ids' = C BY <1>2, <1>5 DEF Graph!Ids
<1>7. \A x \in B : h[x] = g[x] BY <1>4, <1>5
<1>8. Len(m) \in Nat /\ DOMAIN m = 1..Len(m) BY <1>3, LenProperties
<1>9. \A i \in DOMAIN m : n + i - 1 \in B /\ (n + i - 1) - n + 1 = i BY <1>5, <1>8
<1>10. \A x \in B : x - n + 1 \in DOMAIN m /\ n + (x - n + 1) - 1 = x BY <1>5, <1>8
<1> HIDE DEF n, A, B, h
<1>11. Built(h, C)
  <2>1. Built(objects, A) BY ONLY <1>1, <1>6
  <2>2. /\ A \cap B = {} /\ Built(g, B) /\ DOMAIN h = A \cup B /\ h = [x \in A \cup B |-> h[x]]
        /\ \A x \in A : h[x] = objects[x]
        /\ \A x \in B : h[x] = g[x]
    BY ONLY <1>3, <1>5, <1>7
  <2> QED BY ONLY <2>1, <2>2, BuiltBeside
<1>12. /\ soundArray \o q \in Seq(C)
       /\ ~twice => Listed(h, C, soundArray \o q, {o \in C : h[o].disposed})
  <2> DEFINE dead == {o \in A : objects[o].disposed}
  <2>1. {o \in C : h[o].disposed} = dead BY <1>3, <1>5, <1>7
  <2>2. dead \in SUBSET A OBVIOUS
  <2> HIDE DEF dead
  <2>3. soundArray \o q \in Seq(C)
    <3>1. A \subseteq C /\ B \subseteq C OBVIOUS
    <3> HIDE DEF C
    <3>2. soundArray \in Seq(C) /\ q \in Seq(C) BY <1>1, <1>3, <1>6, <3>1, SeqsOfMore
    <3> QED BY <3>2, ConcatProperties
  <2>4. ASSUME ~twice PROVE Listed(h, C, soundArray \o q, dead)
    <3>1. Listed(objects, A, soundArray, dead) BY <1>1, <1>6, <2>4 DEF dead
    <3>2. soundArray \in Seq(A) /\ q \in Seq(B) BY ONLY <1>1, <1>3, <1>6
    <3>3. /\ A \cap B = {} /\ Listed(g, B, q, {})
          /\ \A x \in A : h[x] = objects[x]
          /\ \A x \in B : h[x] = g[x]
      BY ONLY <1>3, <1>5, <1>7
    <3> QED BY ONLY <2>2, <3>1, <3>2, <3>3, ListedBeside
  <2> QED BY <2>1, <2>3, <2>4
<1> DEFINE N == {n + i - 1 : i \in {j \in DOMAIN m : m[j].kind \in Graph!Meters}}
<1>13. N \subseteq B BY <1>9
<1>14. \A x \in B : g[x].kind \in Graph!Meters => x \in N
  <2> TAKE x \in B
  <2> DEFINE i == x - n + 1
  <2>1. g[x] = m[i] /\ i \in DOMAIN m /\ n + i - 1 = x BY <1>4, <1>10
  <2> HIDE DEF i
  <2> QED BY <2>1
<1>15. metered \cup N \in SUBSET C BY <1>1, <1>6, <1>13
<1> HIDE DEF N
<1>16. ~given => {o \in C : h[o].kind \in Graph!Meters /\ ~h[o].disposed} \subseteq metered \cup N
  BY <1>1, <1>5, <1>6, <1>7, <1>14
<1>17. metered' = metered \cup N BY <1>2 DEF N
<1>18. Len(h) <= MaxObjects BY <1>2, <1>5
<1> HIDE DEF C
<1>19. /\ objects' \in Seq(Thing(Graph!Ids')) /\ Len(objects') <= MaxObjects /\ Built(objects, Graph!Ids)'
       /\ soundArray' \in Seq(Graph!Ids') /\ metered' \subseteq Graph!Ids' /\ gr_calls' \in 0..gr_MaxCalls
       /\ twice' \in BOOLEAN /\ given' \in BOOLEAN
  BY ONLY <1>1, <1>2, <1>5, <1>6, <1>11, <1>12, <1>15, <1>17, <1>18
<1>20. ~twice' => Listed(objects', Graph!Ids', soundArray', {o \in Graph!Ids' : objects'[o].disposed})
  BY ONLY <1>2, <1>6, <1>12
<1>21. ~given' => {o \in Graph!Ids' : objects'[o].kind \in Graph!Meters /\ ~objects'[o].disposed} \subseteq metered'
  BY ONLY <1>2, <1>6, <1>16, <1>17
<1> QED BY ONLY <1>19, <1>20, <1>21 DEF GraphInv

-----------------------------------------------------------------------------
(* What the constructors make fits. *)

LEMMA ObjectIs ==
  ASSUME NEW D, NEW k \in Graph!AllKinds, NEW to \in SUBSET (D \cup {gr_main}), NEW p \in Seq(D)
  PROVE  LET t == Graph!Object(k, to, p)
         IN /\ t \in Thing(D) /\ t.kind = k /\ t.to = to /\ t.parts = p /\ t.disposed = FALSE
            /\ Wired(t.kind, t.wires)
<1>1. Graph!Wires(k) \in SUBSET (Graph!AudioNodes \X Graph!AudioNodes) /\ Wired(k, Graph!Wires(k))
  BY WiresAre
<1> DEFINE w == Graph!Wires(k)
<1> HIDE DEF w
<1>2. Graph!Object(k, to, p) = [kind |-> k, wires |-> w, to |-> to, parts |-> p, disposed |-> FALSE]
  BY DEF Graph!Object, w
<1>3. w \in SUBSET (Graph!AudioNodes \X Graph!AudioNodes) /\ Wired(k, w) BY <1>1 DEF w
<1> QED BY <1>2, <1>3 DEF Thing

\* An object of its own, and those it makes for itself.
LEMMA OneWhole ==
  ASSUME NEW n \in Nat \ {0}, NEW m, Len(m) \in Nat \ {0}, m = [i \in 1..Len(m) |-> m[i]],
         NEW q \in Seq(n..(n + Len(m) - 1)),
         NEW k \in Graph!AllKinds \ {"band", "poly"}, NEW to \in SUBSET {gr_main},
         NEW p \in Seq((n + 1)..(n + Len(m) - 1)), m[1] = Graph!Object(k, to, p),
         k \notin Wholes => p = <<>>,
         \A i, j \in DOMAIN p : p[i] = p[j] => i = j,
         \A i \in 2..Len(m) : \E c \in PartKinds : m[i] = Graph!Object(c, {}, <<>>),
         \A x \in (n + 1)..(n + Len(m) - 1) : Graph!Contains(p, x),
         \A x \in n..(n + Len(m) - 1) : /\ Graph!Contains(q, x)
                                        /\ x /= n \/ k /= "mono" => Once(q, x)
  PROVE  Fits(m, q, n)
<1> DEFINE L == Len(m)
           B == n..(n + L - 1)
           E == (n + 1)..(n + L - 1)
           g == Numbered(m, n)
<1>1. g = [x \in B |-> m[x - n + 1]] BY DEF Numbered
<1> HIDE DEF g, L
<1>2. n \in B /\ E \subseteq B /\ n \notin E /\ \A x \in B : x = n \/ x \in E
  BY DEF L
<1>3. n - n + 1 = 1 /\ \A x \in E : x - n + 1 \in 2..L BY DEF L
<1>4. \A i \in 1..L : i + n - 1 \in B /\ (i + n - 1) - n + 1 = i BY DEF L
<1>5. p \in Seq(B) /\ p \in Seq(E)
  <2>1. p \in Seq(E) BY DEF L
  <2> HIDE DEF B, E
  <2> QED BY <1>2, <2>1, SeqsOfMore
<1>6. gr_main \notin B BY GraphAssumption
<1> HIDE DEF B, E
<1>7. g[n] = Graph!Object(k, to, p) BY <1>1, <1>2, <1>3
<1>8. \A x \in E : \E c \in PartKinds : g[x] = Graph!Object(c, {}, <<>>) BY <1>1, <1>2, <1>3 DEF L
<1>9. PartKinds \subseteq Graph!AllKinds /\ PartKinds \cap Wholes = {} /\ PartKinds \cap Synths = {}
  BY DEF PartKinds, Graph!AllKinds, Wholes, Synths, Graph!Effects, Graph!Sources, Graph!Meters
<1>10. /\ g[n] \in Thing(B) /\ g[n].kind = k /\ g[n].to = to /\ g[n].parts = p
       /\ g[n].disposed = FALSE /\ Wired(g[n].kind, g[n].wires)
  <2>1. to \in SUBSET (B \cup {gr_main}) OBVIOUS
  <2> DEFINE t == Graph!Object(k, to, p)
  <2>2. /\ t \in Thing(B) /\ t.kind = k /\ t.to = to /\ t.parts = p /\ t.disposed = FALSE
        /\ Wired(t.kind, t.wires)
    <3>1. k \in Graph!AllKinds OBVIOUS
    <3> QED BY ONLY <1>5, <2>1, <3>1, ObjectIs
  <2> HIDE DEF t
  <2>3. g[n] = t BY <1>7 DEF t
  <2> QED BY ONLY <2>2, <2>3
<1>11. ASSUME NEW x \in E
       PROVE  /\ g[x] \in Thing(B) /\ g[x].kind \in PartKinds /\ g[x].to = {} /\ g[x].parts = <<>>
              /\ g[x].disposed = FALSE /\ Wired(g[x].kind, g[x].wires)
  <2>1. PICK c \in PartKinds : g[x] = Graph!Object(c, {}, <<>>) BY <1>8
  <2>2. {} \in SUBSET (B \cup {gr_main}) /\ <<>> \in Seq(B) /\ c \in Graph!AllKinds BY <1>9
  <2> DEFINE t == Graph!Object(c, {}, <<>>)
  <2>3. /\ t \in Thing(B) /\ t.kind = c /\ t.to = {} /\ t.parts = <<>> /\ t.disposed = FALSE
        /\ Wired(t.kind, t.wires)
    BY ONLY <2>2, ObjectIs
  <2>4. g[x] = t /\ c \in PartKinds BY <2>1
  <2> HIDE DEF t
  <2> QED BY ONLY <2>3, <2>4
<1>12. \A x \in B : g[x] \in Thing(B) /\ g[x].disposed = FALSE /\ x \notin g[x].to
                    /\ Wired(g[x].kind, g[x].wires)
  <2>1. n \notin to BY <1>2, <1>6
  <2> QED BY <1>2, <1>10, <1>11, <2>1
<1>13. g \in [B -> Thing(B)] BY <1>1, <1>12
<1>14. \A x \in E : DOMAIN g[x].parts = {}
  <2>1. DOMAIN <<>> = {} OBVIOUS
  <2> QED BY ONLY <1>11, <2>1
<1>15. \A i \in DOMAIN p : p[i] \in E BY <1>5
<1>16. \A x \in B : g[x].kind \notin Wholes => g[x].parts = <<>> BY <1>2, <1>10, <1>11
<1>17. ASSUME NEW x \in B, NEW i \in DOMAIN g[x].parts
       PROVE  /\ g[x].parts[i] /= x
              /\ IF g[x].kind = "poly" THEN g[g[x].parts[i]].kind = "mono"
                 ELSE g[g[x].parts[i]].kind \in PartKinds
  <2>1. x = n BY <1>2, <1>14, <1>17
  <2>2. g[x].parts[i] = p[i] /\ p[i] \in E BY <1>10, <1>15, <1>17, <2>1
  <2> QED BY <1>2, <1>10, <1>11, <2>1, <2>2
<1>18. ASSUME NEW x \in B, NEW y \in B, NEW i \in DOMAIN g[x].parts, NEW j \in DOMAIN g[y].parts,
              g[x].parts[i] = g[y].parts[j]
       PROVE  x = y /\ i = j
  <2>1. x = n /\ y = n BY <1>2, <1>14, <1>18
  <2> QED BY <1>10, <1>18, <2>1
<1>19. \A x \in B : g[x].kind = "band" => \E y \in B : Graph!Contains(g[y].parts, x)
  BY <1>2, <1>10 DEF E, L
<1>20. Built(g, B) BY ONLY <1>12, <1>13, <1>16, <1>17, <1>18, <1>19 DEF Built
<1>21. Listed(g, B, q, {})
  <2>1. \A x \in B : Graph!Contains(q, x) /\ (x /= n \/ k /= "mono" => Once(q, x)) BY DEF B, L
  <2>2. \A x \in B : g[x].kind \notin Synths => x /= n \/ k /= "mono" BY <1>10 DEF Synths
  <2> QED BY <2>1, <2>2 DEF Listed
<1>22. m \in Seq(Thing(B))
  <2>1. \A i \in 1..L : m[i] = g[i + n - 1] /\ i + n - 1 \in B BY <1>1, <1>4
  <2>2. \A i \in 1..L : m[i] \in Thing(B) BY <1>12, <2>1
  <2>3. L \in Nat /\ m = [i \in 1..L |-> m[i]] BY DEF L
  <2>4. m \in [1..L -> Thing(B)] BY ONLY <2>2, <2>3
  <2> QED BY ONLY <2>3, <2>4
<1>23. q \in Seq(B) BY DEF B, L
<1>24. \A x \in B : g[x].disposed = FALSE BY <1>12
<1> QED BY ONLY <1>20, <1>21, <1>22, <1>23, <1>24 DEF Fits, B, L, g

\* They are put into the array in turn.
LEMMA InTurn ==
  ASSUME NEW n \in Nat \ {0}, NEW L \in Nat
  PROVE  LET q == [i \in 1..L |-> n + i - 1]
             B == n..(n + L - 1)
         IN q \in Seq(B) /\ \A x \in B : Graph!Contains(q, x) /\ Once(q, x)
<1> DEFINE q == [i \in 1..L |-> n + i - 1]
           B == n..(n + L - 1)
<1>1. DOMAIN q = 1..L /\ \A i \in 1..L : q[i] = n + i - 1 OBVIOUS
<1>2. \A i \in 1..L : n + i - 1 \in B OBVIOUS
<1>3. \A x \in B : x - n + 1 \in 1..L /\ n + (x - n + 1) - 1 = x OBVIOUS
<1>4. \A i, j \in 1..L : n + i - 1 = n + j - 1 => i = j OBVIOUS
<1>5. q \in Seq(B)
  <2> HIDE DEF B
  <2> QED BY <1>2
<1> HIDE DEF q, B
<1>6. ASSUME NEW x \in B PROVE Graph!Contains(q, x) /\ Once(q, x)
  <2>1. Graph!Contains(q, x) <=> \E i \in DOMAIN q : q[i] = x BY <1>5, ContainsIs
  <2>2. q[x - n + 1] = x /\ x - n + 1 \in DOMAIN q BY <1>1, <1>3
  <2> QED BY <1>1, <1>4, <2>1, <2>2 DEF Once
<1> QED BY ONLY <1>5, <1>6 DEF q, B

\* An object without parts fits.
LEMMA LoneFits ==
  ASSUME NEW n \in Nat \ {0}, NEW k \in Graph!AllKinds \ {"band", "poly"}
  PROVE  Fits(Graph!Lone(k), [i \in DOMAIN Graph!Lone(k) |-> n + i - 1], n)
<1> DEFINE m == Graph!Lone(k)
           q == [i \in DOMAIN m |-> n + i - 1]
<1>1. /\ Len(m) = 1 /\ DOMAIN m = 1..1 /\ m = [i \in 1..1 |-> m[i]]
      /\ m[1] = Graph!Object(k, Graph!ConnectedTo(k), <<>>)
  BY DEF Graph!Lone
<1>2. Graph!ConnectedTo(k) \in SUBSET {gr_main} BY DEF Graph!ConnectedTo
<1>3. q = [i \in 1..1 |-> n + i - 1] BY <1>1
<1> HIDE DEF m, q
<1>4. /\ q \in Seq(n..(n + Len(m) - 1))
      /\ \A x \in n..(n + Len(m) - 1) : Graph!Contains(q, x) /\ Once(q, x)
  <2>1. q \in Seq(n..(n + 1 - 1)) /\ \A x \in n..(n + 1 - 1) : Graph!Contains(q, x) /\ Once(q, x)
    BY <1>3, InTurn
  <2> QED BY ONLY <1>1, <2>1
<1>5. <<>> \in Seq((n + 1)..(n + Len(m) - 1)) /\ DOMAIN <<>> = {} OBVIOUS
<1>6. 2..Len(m) = {} /\ (n + 1)..(n + Len(m) - 1) = {} BY <1>1
<1>8. m = [i \in 1..Len(m) |-> m[i]] /\ Len(m) \in Nat \ {0} BY ONLY <1>1
<1>9. \A i, j \in DOMAIN <<>> : <<>>[i] = <<>>[j] => i = j BY <1>5
<1>7. Fits(m, q, n) BY <1>1, <1>2, <1>4, <1>5, <1>6, <1>8, <1>9, OneWhole
<1> QED BY <1>7 DEF m, q

\* So does one with parts of its own, side by side.
LEMMA PartsFit ==
  ASSUME NEW n \in Nat \ {0}, NEW count \in Nat \ {0}, NEW k \in Graph!AllKinds \ {"band", "poly"},
         k \in Wholes, NEW part \in PartKinds
  PROVE  LET m == Graph!WithParts(k, part, n, count)
         IN /\ Len(m) = count + 1 /\ DOMAIN m = 1..(count + 1)
            /\ \A q : /\ q \in Seq(n..(n + count))
                      /\ \A x \in n..(n + count) : Graph!Contains(q, x) /\ Once(q, x)
                      => Fits(m, q, n)
<1> DEFINE p == [i \in 1..count |-> n + i]
           a == Graph!Object(k, Graph!ConnectedTo(k), p)
           b == Graph!Object(part, {}, <<>>)
           s == [i \in 1..count |-> b]
           m == Graph!WithParts(k, part, n, count)
           T == {a, b}
<1>1. m = <<a>> \o s BY DEF Graph!WithParts
<1>2. s \in Seq(T) /\ Len(s) = count /\ \A i \in 1..count : s[i] = b OBVIOUS
<1>3. <<a>> \in Seq(T) /\ Len(<<a>>) = 1 /\ <<a>>[1] = a OBVIOUS
<1>4. p \in Seq((n + 1)..(n + count)) /\ DOMAIN p = 1..count /\ \A i \in 1..count : p[i] = n + i
  <2>1. \A i \in 1..count : n + i \in (n + 1)..(n + count) OBVIOUS
  <2> QED BY <2>1
<1> HIDE DEF a, b, s, m, p
<1>5. /\ m \in Seq(T) /\ Len(m) = count + 1 /\ m[1] = a
      /\ \A i \in 2..(count + 1) : m[i] = b
  <2>1. /\ <<a>> \o s \in Seq(T) /\ Len(<<a>> \o s) = 1 + count
        /\ \A i \in 1..(1 + count) : (<<a>> \o s)[i] = IF i <= 1 THEN <<a>>[i] ELSE s[i - 1]
    <3> HIDE DEF T
    <3> QED BY ONLY <1>2, <1>3, ConcatProperties
  <2>2. 1 \in 1..(1 + count) /\ 1 <= 1 OBVIOUS
  <2>3. \A i \in 2..(count + 1) : i \in 1..(1 + count) /\ ~(i <= 1) /\ i - 1 \in 1..count OBVIOUS
  <2>4. count + 1 = 1 + count OBVIOUS
  <2> HIDE DEF T
  <2> QED BY ONLY <1>1, <1>2, <1>3, <2>1, <2>2, <2>3, <2>4
<1> HIDE DEF T
<1>6. DOMAIN m = 1..(count + 1) /\ m = [i \in 1..Len(m) |-> m[i]] /\ Len(m) \in Nat \ {0}
  <2>1. DOMAIN m = 1..Len(m) BY <1>5, LenProperties
  <2>2. m = [i \in DOMAIN m |-> m[i]] BY <1>5
  <2>3. count + 1 \in Nat \ {0} OBVIOUS
  <2> QED BY ONLY <1>5, <2>1, <2>2, <2>3
<1>7. n + Len(m) - 1 = n + count BY <1>5
<1>8. p \in Seq((n + 1)..(n + Len(m) - 1)) BY ONLY <1>4, <1>7
<1>9. \A i, j \in DOMAIN p : p[i] = p[j] => i = j BY <1>4
<1>10. \A i \in 2..Len(m) : \E c \in PartKinds : m[i] = Graph!Object(c, {}, <<>>) BY <1>5 DEF b
<1>11. \A x \in (n + 1)..(n + Len(m) - 1) : Graph!Contains(p, x)
  <2> TAKE x \in (n + 1)..(n + Len(m) - 1)
  <2>1. x - n \in 1..count /\ n + (x - n) = x BY <1>7
  <2>2. Graph!Contains(p, x) <=> \E i \in DOMAIN p : p[i] = x BY <1>4, ContainsIs
  <2> QED BY <1>4, <2>1, <2>2
<1>12. Graph!ConnectedTo(k) \in SUBSET {gr_main} BY DEF Graph!ConnectedTo
<1>13. m[1] = Graph!Object(k, Graph!ConnectedTo(k), p) BY <1>5 DEF a
<1>14. ASSUME NEW q, q \in Seq(n..(n + count)), \A x \in n..(n + count) : Graph!Contains(q, x) /\ Once(q, x)
       PROVE  Fits(m, q, n)
  <2>1. /\ q \in Seq(n..(n + Len(m) - 1))
        /\ \A x \in n..(n + Len(m) - 1) : /\ Graph!Contains(q, x)
                                          /\ x /= n \/ k /= "mono" => Once(q, x)
    BY ONLY <1>7, <1>14
  <2>2. n \in Nat \ {0} /\ k \in Graph!AllKinds \ {"band", "poly"} /\ (k \notin Wholes => p = <<>>) OBVIOUS
  <2> QED BY ONLY <1>6, <1>8, <1>9, <1>10, <1>11, <1>12, <1>13, <2>1, <2>2, OneWhole
<1> QED BY ONLY <1>5, <1>6, <1>14 DEF m

\* So does a MonoSynth.
LEMMA SynthFits ==
  ASSUME NEW n \in Nat \ {0}
  PROVE  Fits(Graph!MonoSynth(n, {gr_main}), <<n, n + 1, n + 2, n>>, n)
<1> DEFINE p == <<n + 2, n + 1>>
           m == Graph!MonoSynth(n, {gr_main})
           q == <<n, n + 1, n + 2, n>>
<1>1. /\ Len(m) = 3 /\ m = [i \in 1..3 |-> m[i]] /\ m[1] = Graph!Object("mono", {gr_main}, p)
      /\ m[2] = Graph!Object("osc", {}, <<>>) /\ m[3] = Graph!Object("envelope", {}, <<>>)
  BY DEF Graph!MonoSynth
<1>2. /\ DOMAIN p = 1..2 /\ p[1] = n + 2 /\ p[2] = n + 1 /\ p \in Seq({n + 1, n + 2}) OBVIOUS
<1>3. /\ DOMAIN q = 1..4 /\ q[1] = n /\ q[2] = n + 1 /\ q[3] = n + 2 /\ q[4] = n
      /\ q \in Seq({n, n + 1, n + 2})
  OBVIOUS
<1> HIDE DEF m, p, q
<1>4. (n + 1)..(n + Len(m) - 1) = {n + 1, n + 2} /\ n..(n + Len(m) - 1) = {n, n + 1, n + 2}
  BY <1>1
<1>5. p \in Seq((n + 1)..(n + Len(m) - 1)) /\ q \in Seq(n..(n + Len(m) - 1))
  BY ONLY <1>2, <1>3, <1>4
<1>6. \A i, j \in DOMAIN p : p[i] = p[j] => i = j
  <2>1. \A i \in 1..2 : i = 1 \/ i = 2 OBVIOUS
  <2>2. n + 1 /= n + 2 OBVIOUS
  <2> QED BY <1>2, <2>1, <2>2
<1>7. \A i \in 2..Len(m) : \E c \in PartKinds : m[i] = Graph!Object(c, {}, <<>>)
  <2>1. \A i \in 2..3 : i = 2 \/ i = 3 OBVIOUS
  <2>2. "osc" \in PartKinds /\ "envelope" \in PartKinds BY DEF PartKinds
  <2> QED BY <1>1, <2>1, <2>2
<1>8. \A x \in (n + 1)..(n + Len(m) - 1) : Graph!Contains(p, x)
  <2>1. \A x : Graph!Contains(p, x) <=> \E i \in DOMAIN p : p[i] = x BY <1>2, ContainsIs
  <2>2. 1 \in 1..2 /\ 2 \in 1..2 OBVIOUS
  <2> QED BY <1>2, <1>4, <2>1, <2>2
<1>9. \A x \in n..(n + Len(m) - 1) : Graph!Contains(q, x) /\ (x /= n \/ "mono" /= "mono" => Once(q, x))
  <2>1. \A x : Graph!Contains(q, x) <=> \E i \in DOMAIN q : q[i] = x BY <1>3, ContainsIs
  <2>2. 1 \in 1..4 /\ 2 \in 1..4 /\ 3 \in 1..4 OBVIOUS
  <2>3. \A i \in 1..4 : i = 1 \/ i = 2 \/ i = 3 \/ i = 4 OBVIOUS
  <2>4. n + 1 /= n + 2 /\ n /= n + 1 /\ n /= n + 2 OBVIOUS
  <2>5. \A x \in {n, n + 1, n + 2} : Graph!Contains(q, x) BY ONLY <1>3, <2>1, <2>2
  <2>6. Once(q, n + 1) /\ Once(q, n + 2) BY ONLY <1>3, <2>3, <2>4 DEF Once
  <2> QED BY <1>4, <2>5, <2>6
<1>10. "mono" \in Graph!AllKinds \ {"band", "poly"} /\ "mono" \in Wholes /\ {gr_main} \in SUBSET {gr_main}
  BY DEF Graph!AllKinds, Graph!Sources, Wholes
<1>11. m = [i \in 1..Len(m) |-> m[i]] /\ Len(m) \in Nat \ {0} /\ n \in Nat \ {0} BY <1>1
<1>12. Fits(m, q, n)
  BY ONLY <1>1, <1>5, <1>6, <1>7, <1>8, <1>9, <1>10, <1>11, OneWhole
<1> QED BY <1>12 DEF m, q

-----------------------------------------------------------------------------
(* A Graph!PolySynth and its voices. *)

LEMMA ByThrees ==
  ASSUME NEW V \in Nat, NEW y \in 1..(3 * V)
  PROVE  \E i \in 1..V, j \in 1..3 : y = 3 * (i - 1) + j
<1> DEFINE S == {z \in Nat : z = 0 \/ \E i \in Nat \ {0}, j \in 1..3 : z = 3 * (i - 1) + j}
<1>1. ASSUME NEW z \in 0..(y - 1), z \in S PROVE z + 1 \in S
  <2>1. CASE z = 0
    <3>1. z + 1 = 3 * (1 - 1) + 1 /\ 1 \in Nat \ {0} /\ 1 \in 1..3 /\ z + 1 \in Nat BY <2>1
    <3> QED BY <3>1
  <2>2. ASSUME NEW i \in Nat \ {0}, NEW j \in 1..3, z = 3 * (i - 1) + j PROVE z + 1 \in S
    <3>1. CASE j /= 3
      <4>1. j + 1 \in 1..3 /\ z + 1 = 3 * (i - 1) + (j + 1) /\ z + 1 \in Nat BY <2>2, <3>1
      <4> QED BY <4>1
    <3>2. CASE j = 3
      <4>1. i + 1 \in Nat \ {0} /\ z + 1 = 3 * ((i + 1) - 1) + 1 /\ z + 1 \in Nat /\ 1 \in 1..3
        BY <2>2, <3>2
      <4> QED BY <4>1
    <3> QED BY <3>1, <3>2
  <2> QED BY <1>1, <2>1, <2>2
<1>2. y \in S
  <2>1. 0 \in S /\ y \in Nat OBVIOUS
  <2> HIDE DEF S
  <2> QED BY ONLY <1>1, <2>1, Climb
<1>3. PICK i \in Nat \ {0}, j \in 1..3 : y = 3 * (i - 1) + j BY <1>2
<1>4. i \in 1..V BY <1>3
<1> QED BY <1>3, <1>4

\* The objects of a PolySynth whose id is n.
Voices(g, n) ==
  LET B == n..(n + 3 * gr_maxVoices)
  IN /\ g = [x \in B |-> g[x]]
     /\ g[n] = Graph!Object("poly", {gr_main}, [i \in 1..gr_maxVoices |-> n + 3 * i - 2])
     /\ \A i \in 1..gr_maxVoices :
          /\ g[n + 3 * i - 2] = Graph!Object("mono", {n}, <<n + 3 * i, n + 3 * i - 1>>)
          /\ g[n + 3 * i - 1] = Graph!Object("osc", {}, <<>>)
          /\ g[n + 3 * i] = Graph!Object("envelope", {}, <<>>)

\* A PolySynth and its voices are where they were put.
LEMMA PolyMade ==
  ASSUME NEW n \in Nat \ {0}
  PROVE  LET m == Graph!PolySynth(n)
         IN /\ Len(m) = 3 * gr_maxVoices + 1 /\ DOMAIN m = 1..Len(m) /\ m = [i \in 1..Len(m) |-> m[i]]
            /\ Voices(Numbered(m, n), n)
<1> DEFINE V == gr_maxVoices
           a == Graph!Object("poly", {gr_main}, [i \in 1..V |-> n + 3 * i - 2])
           Mono(i) == Graph!Object("mono", {n}, <<n + 3 * i, n + 3 * i - 1>>)
           b == Graph!Object("osc", {}, <<>>)
           c == Graph!Object("envelope", {}, <<>>)
           q == [i \in 1..V |-> Graph!MonoSynth(n + 3 * i - 2, {n})]
           m == Graph!PolySynth(n)
           T == {a, b, c} \cup {Mono(i) : i \in 1..V}
           g == Numbered(m, n)
<1>0. V \in Nat BY GraphAssumption
<1>1. m = <<a>> \o Graph!FlattenSeq(q) BY DEF Graph!PolySynth
<1>2. \A i \in 1..V : q[i] = <<Mono(i), b, c>>
  <2> TAKE i \in 1..V
  <2>1. (n + 3 * i - 2) + 2 = n + 3 * i /\ (n + 3 * i - 2) + 1 = n + 3 * i - 1 BY <1>0
  <2>2. q[i] = Graph!MonoSynth(n + 3 * i - 2, {n}) OBVIOUS
  <2> HIDE DEF q
  <2> QED BY <2>1, <2>2 DEF Graph!MonoSynth
<1>3. q = [i \in 1..V |-> q[i]] OBVIOUS
<1> HIDE DEF a, b, c, q, m, Mono, V
<1>4. /\ q \in Seq(Seq(T)) /\ DOMAIN q = 1..V /\ Len(q) = V
      /\ \A i \in 1..V : Len(q[i]) = 3 /\ q[i][1] = Mono(i) /\ q[i][2] = b /\ q[i][3] = c
  <2>1. \A i \in 1..V : /\ q[i] \in Seq(T) /\ Len(q[i]) = 3
                        /\ q[i][1] = Mono(i) /\ q[i][2] = b /\ q[i][3] = c
    <3> TAKE i \in 1..V
    <3>1. Mono(i) \in T /\ b \in T /\ c \in T OBVIOUS
    <3> DEFINE d == Mono(i)
               r == <<d, b, c>>
    <3> HIDE DEF d, T
    <3>2. r \in Seq(T) /\ Len(r) = 3 /\ r[1] = d /\ r[2] = b /\ r[3] = c BY ONLY <3>1 DEF d
    <3>3. q[i] = r BY <1>2 DEF d
    <3> HIDE DEF r
    <3> QED BY ONLY <3>2, <3>3 DEF d
  <2> HIDE DEF T
  <2>2. q \in [1..V -> Seq(T)] BY ONLY <1>3, <2>1
  <2> QED BY <1>0, <2>1, <2>2
<1> HIDE DEF T
<1> DEFINE f == Graph!FlattenSeq(q)
<1>5. /\ f \in Seq(T) /\ Len(f) = 3 * V
      /\ \A i \in 1..V, j \in 1..3 : f[3 * (i - 1) + j] = q[i][j]
  <2>1. \A i \in DOMAIN q : Len(q[i]) = 3 BY ONLY <1>4
  <2>2. q \in Seq(Seq(T)) BY ONLY <1>4
  <2>3. f \in Seq(T) BY ONLY <2>2, FlattenedContains
  <2>4. Len(f) = 3 * Len(q) /\ \A i \in DOMAIN q, j \in 1..3 : f[3 * (i - 1) + j] = q[i][j]
    BY ONLY <2>1, <2>2, FlattenedThrees
  <2> HIDE DEF f
  <2> QED BY ONLY <1>4, <2>3, <2>4
<1> HIDE DEF f
<1>6. <<a>> \in Seq(T) /\ Len(<<a>>) = 1 /\ <<a>>[1] = a BY DEF T
<1>7. /\ m \in Seq(T) /\ Len(m) = 3 * V + 1 /\ m[1] = a
      /\ \A y \in 1..(3 * V) : m[y + 1] = f[y]
  <2>1. /\ <<a>> \o f \in Seq(T) /\ Len(<<a>> \o f) = 1 + 3 * V
        /\ \A i \in 1..(1 + 3 * V) : (<<a>> \o f)[i] = IF i <= 1 THEN <<a>>[i] ELSE f[i - 1]
    BY ONLY <1>5, <1>6, ConcatProperties
  <2>2. 1 \in 1..(1 + 3 * V) /\ 1 <= 1 /\ 1 + 3 * V = 3 * V + 1 BY <1>0
  <2>3. \A y \in 1..(3 * V) : y + 1 \in 1..(1 + 3 * V) /\ ~(y + 1 <= 1) /\ (y + 1) - 1 = y BY <1>0
  <2>4. m = <<a>> \o f BY <1>1 DEF f
  <2> QED BY ONLY <1>6, <2>1, <2>2, <2>3, <2>4
<1>8. DOMAIN m = 1..Len(m) /\ m = [i \in 1..Len(m) |-> m[i]]
  <2>1. DOMAIN m = 1..Len(m) BY <1>7, LenProperties
  <2>2. m = [i \in DOMAIN m |-> m[i]] BY <1>7
  <2> QED BY ONLY <2>1, <2>2
<1>9. n + Len(m) - 1 = n + 3 * V BY <1>0, <1>7
<1> DEFINE B == n..(n + 3 * V)
<1>10. g = [x \in B |-> m[x - n + 1]] BY <1>9 DEF Numbered
<1>11. g[n] = a
  <2>1. n \in B /\ n - n + 1 = 1 BY <1>0
  <2> HIDE DEF B
  <2> QED BY <1>7, <1>10, <2>1
<1>12. ASSUME NEW i \in 1..V, NEW j \in 1..3 PROVE g[n + (3 * (i - 1) + j)] = q[i][j]
  <2> DEFINE y == 3 * (i - 1) + j
  <2>1. y \in 1..(3 * V) /\ n + y \in B /\ (n + y) - n + 1 = y + 1 BY <1>0
  <2>2. f[y] = q[i][j] BY ONLY <1>5, i \in 1..V, j \in 1..3
  <2> HIDE DEF y, B, g
  <2>3. g[n + y] = m[y + 1] BY ONLY <1>10, <2>1
  <2>4. m[y + 1] = f[y] BY ONLY <1>7, <2>1
  <2> QED BY ONLY <2>2, <2>3, <2>4 DEF y
<1>13. ASSUME NEW i \in 1..V
       PROVE  g[n + 3 * i - 2] = Mono(i) /\ g[n + 3 * i - 1] = b /\ g[n + 3 * i] = c
  <2>1. /\ n + (3 * (i - 1) + 1) = n + 3 * i - 2 /\ n + (3 * (i - 1) + 2) = n + 3 * i - 1
        /\ n + (3 * (i - 1) + 3) = n + 3 * i /\ 1 \in 1..3 /\ 2 \in 1..3 /\ 3 \in 1..3
    BY <1>0
  <2>2. /\ g[n + (3 * (i - 1) + 1)] = q[i][1] /\ g[n + (3 * (i - 1) + 2)] = q[i][2]
        /\ g[n + (3 * (i - 1) + 3)] = q[i][3]
    BY ONLY <1>12, <2>1, i \in 1..V
  <2> HIDE DEF g
  <2> QED BY ONLY <1>4, <2>1, <2>2, i \in 1..V
<1>14. g = [x \in B |-> g[x]] BY ONLY <1>10
<1> HIDE DEF g
<1>15. Voices(g, n) BY ONLY <1>11, <1>13, <1>14 DEF Voices, V, a, b, c, Mono
<1> QED BY ONLY <1>7, <1>8, <1>15 DEF g, m, V

\* What an object of a PolySynth is: itself, a voice or a part of one.
LEMMA VoiceIs ==
  ASSUME NEW n \in Nat \ {0}, NEW g, Voices(g, n), NEW x \in n..(n + 3 * gr_maxVoices)
  PROVE  LET B == n..(n + 3 * gr_maxVoices)
         IN /\ g[x] \in Thing(B) /\ g[x].disposed = FALSE /\ x \notin g[x].to
            /\ Wired(g[x].kind, g[x].wires)
            /\ \/ /\ x = n /\ g[x].kind = "poly"
                  /\ g[x].parts = [i \in 1..gr_maxVoices |-> n + 3 * i - 2]
               \/ \E i \in 1..gr_maxVoices : /\ x = n + 3 * i - 2 /\ g[x].kind = "mono"
                                             /\ g[x].parts = <<n + 3 * i, n + 3 * i - 1>>
               \/ \E i \in 1..gr_maxVoices : /\ x \in {n + 3 * i - 1, n + 3 * i} /\ g[x].parts = <<>>
                                             /\ g[x].kind \in {"osc", "envelope"}
<1> DEFINE V == gr_maxVoices
           B == n..(n + 3 * V)
           parts == [i \in 1..V |-> n + 3 * i - 2]
<1>0. V \in Nat /\ gr_main \notin B BY GraphAssumption
<1>1. /\ g[n] = Graph!Object("poly", {gr_main}, parts)
      /\ \A i \in 1..V :
           /\ g[n + 3 * i - 2] = Graph!Object("mono", {n}, <<n + 3 * i, n + 3 * i - 1>>)
           /\ g[n + 3 * i - 1] = Graph!Object("osc", {}, <<>>)
           /\ g[n + 3 * i] = Graph!Object("envelope", {}, <<>>)
  BY DEF Voices
<1>2. n \in B BY <1>0
<1>3. \A i \in 1..V : /\ n + 3 * i - 2 \in B /\ n + 3 * i - 1 \in B /\ n + 3 * i \in B
                      /\ n + 3 * i - 2 /= n
  BY <1>0
<1>4. parts \in Seq(B)
  <2> HIDE DEF B
  <2> QED BY ONLY <1>0, <1>3
<1>5. {"poly", "mono", "osc", "envelope"} \subseteq Graph!AllKinds
  BY DEF Graph!AllKinds, Graph!Sources
<1> HIDE DEF parts
<1>6. x = n \/ \E i \in 1..V : x = n + 3 * i - 2 \/ x = n + 3 * i - 1 \/ x = n + 3 * i
  <2>1. SUFFICES ASSUME x /= n
                 PROVE  \E i \in 1..V : x = n + 3 * i - 2 \/ x = n + 3 * i - 1 \/ x = n + 3 * i
    OBVIOUS
  <2> DEFINE y == x - n
  <2>2. y \in 1..(3 * V) /\ x = n + y BY <1>0, <2>1
  <2> HIDE DEF y
  <2>3. PICK i \in 1..V, j \in 1..3 : y = 3 * (i - 1) + j BY ONLY <1>0, <2>2, ByThrees
  <2>4. j = 1 \/ j = 2 \/ j = 3 OBVIOUS
  <2>5. x = n + 3 * i - 2 \/ x = n + 3 * i - 1 \/ x = n + 3 * i
    BY ONLY <1>0, <2>2, <2>3, <2>4, i \in 1..V, n \in Nat \ {0}
  <2> QED BY ONLY <2>5, i \in 1..V
<1>7. CASE x = n
  <2> DEFINE t == Graph!Object("poly", {gr_main}, parts)
  <2>1. {gr_main} \in SUBSET (B \cup {gr_main}) OBVIOUS
  <2>2. /\ t \in Thing(B) /\ t.kind = "poly" /\ t.to = {gr_main} /\ t.parts = parts /\ t.disposed = FALSE
        /\ Wired(t.kind, t.wires)
    <3> HIDE DEF B
    <3> QED BY ONLY <1>4, <1>5, <2>1, ObjectIs
  <2>3. g[x] = t BY ONLY <1>1, <1>7
  <2> HIDE DEF t
  <2>4. x \notin {gr_main} BY <1>0, <1>2, <1>7
  <2> HIDE DEF B
  <2> QED BY ONLY <1>7, <2>2, <2>3, <2>4 DEF parts, B, V
<1>8. ASSUME NEW i \in 1..V, x = n + 3 * i - 2 PROVE
            /\ g[x] \in Thing(B) /\ g[x].disposed = FALSE /\ x \notin g[x].to
            /\ Wired(g[x].kind, g[x].wires) /\ g[x].kind = "mono"
            /\ g[x].parts = <<n + 3 * i, n + 3 * i - 1>>
  <2> DEFINE p == <<n + 3 * i, n + 3 * i - 1>>
             t == Graph!Object("mono", {n}, p)
  <2>1. {n} \in SUBSET (B \cup {gr_main}) BY <1>2
  <2>0. p \in Seq(B)
    <3>1. n + 3 * i \in B /\ n + 3 * i - 1 \in B BY <1>3
    <3> HIDE DEF B
    <3> QED BY ONLY <3>1
  <2>2. /\ t \in Thing(B) /\ t.kind = "mono" /\ t.to = {n} /\ t.parts = p /\ t.disposed = FALSE
        /\ Wired(t.kind, t.wires)
    <3> HIDE DEF B, p
    <3> QED BY ONLY <1>5, <2>0, <2>1, ObjectIs
  <2>3. g[x] = t BY ONLY <1>1, <1>8, i \in 1..V
  <2>4. x \notin {n} BY <1>3, <1>8
  <2> HIDE DEF t, p, B
  <2> QED BY ONLY <2>2, <2>3, <2>4 DEF p
<1>9. ASSUME NEW i \in 1..V, x \in {n + 3 * i - 1, n + 3 * i} PROVE
            /\ g[x] \in Thing(B) /\ g[x].disposed = FALSE /\ x \notin g[x].to
            /\ Wired(g[x].kind, g[x].wires) /\ g[x].kind \in {"osc", "envelope"}
            /\ g[x].parts = <<>>
  <2>1. PICK k \in {"osc", "envelope"} : g[x] = Graph!Object(k, {}, <<>>) BY <1>1, <1>9
  <2> DEFINE t == Graph!Object(k, {}, <<>>)
  <2>2. /\ t \in Thing(B) /\ t.kind = k /\ t.to = {} /\ t.parts = <<>> /\ t.disposed = FALSE
        /\ Wired(t.kind, t.wires)
    <3>1. {} \in SUBSET (B \cup {gr_main}) /\ <<>> \in Seq(B) /\ k \in Graph!AllKinds BY <1>5
    <3> HIDE DEF B
    <3> QED BY ONLY <3>1, ObjectIs
  <2>3. g[x] = t BY ONLY <2>1
  <2> HIDE DEF t, B
  <2> QED BY ONLY <2>2, <2>3, k \in {"osc", "envelope"}
<1> HIDE DEF B
<1>10. ASSUME NEW i \in 1..V, x = n + 3 * i - 2 \/ x = n + 3 * i - 1 \/ x = n + 3 * i
       PROVE  /\ g[x] \in Thing(B) /\ g[x].disposed = FALSE /\ x \notin g[x].to
              /\ Wired(g[x].kind, g[x].wires)
              /\ \/ \E l \in 1..V : /\ x = n + 3 * l - 2 /\ g[x].kind = "mono"
                                    /\ g[x].parts = <<n + 3 * l, n + 3 * l - 1>>
                 \/ \E l \in 1..V : /\ x \in {n + 3 * l - 1, n + 3 * l} /\ g[x].parts = <<>>
                                    /\ g[x].kind \in {"osc", "envelope"}
  <2>1. CASE x = n + 3 * i - 2 BY ONLY <1>8, <2>1, i \in 1..V
  <2>2. CASE x = n + 3 * i - 1 \/ x = n + 3 * i
    <3>1. x \in {n + 3 * i - 1, n + 3 * i} BY <2>2
    <3> QED BY ONLY <1>9, <3>1, i \in 1..V
  <2> QED BY <1>10, <2>1, <2>2
<1> QED BY ONLY <1>6, <1>7, <1>10 DEF B, V

\* Each of them is part of one other at most.
LEMMA PolyBuilt ==
  ASSUME NEW n \in Nat \ {0}, NEW g, Voices(g, n)
  PROVE  Built(g, n..(n + 3 * gr_maxVoices))
<1> DEFINE V == gr_maxVoices
           B == n..(n + 3 * V)
           IsPoly(x) == x = n /\ g[x].kind = "poly" /\ g[x].parts = [i \in 1..V |-> n + 3 * i - 2]
           IsMono(x) == \E i \in 1..V : /\ x = n + 3 * i - 2 /\ g[x].kind = "mono"
                                        /\ g[x].parts = <<n + 3 * i, n + 3 * i - 1>>
           IsPart(x) == \E i \in 1..V : /\ x \in {n + 3 * i - 1, n + 3 * i} /\ g[x].parts = <<>>
                                        /\ g[x].kind \in {"osc", "envelope"}
<1>0. V \in Nat BY GraphAssumption
<1>1. \A x \in B : /\ g[x] \in Thing(B) /\ x \notin g[x].to /\ Wired(g[x].kind, g[x].wires)
                   /\ IsPoly(x) \/ IsMono(x) \/ IsPart(x)
  BY VoiceIs
<1>2. g = [x \in B |-> g[x]] BY DEF Voices
<1>3. g \in [B -> Thing(B)] BY ONLY <1>1, <1>2
<1>4. \A i \in 1..V : n + 3 * i - 2 \in B /\ n + 3 * i - 1 \in B /\ n + 3 * i \in B BY <1>0
<1> HIDE DEF B
\* The places of the parts.
<1>5. ASSUME NEW x \in B, IsPoly(x), NEW j \in DOMAIN g[x].parts
      PROVE  j \in 1..V /\ g[x].parts[j] = n + 3 * j - 2
  BY <1>5
<1>6. ASSUME NEW x \in B, IsMono(x), NEW j \in DOMAIN g[x].parts
      PROVE  \E i \in 1..V : /\ x = n + 3 * i - 2
                             /\ \/ j = 1 /\ g[x].parts[j] = n + 3 * i
                                \/ j = 2 /\ g[x].parts[j] = n + 3 * i - 1
  <2>1. PICK i \in 1..V : x = n + 3 * i - 2 /\ g[x].parts = <<n + 3 * i, n + 3 * i - 1>> BY <1>6
  <2>2. j = 1 \/ j = 2 BY <1>6, <2>1
  <2> QED BY <2>1, <2>2
<1>7. \A x : IsPart(x) => DOMAIN g[x].parts = {}
  <2>1. DOMAIN <<>> = {} OBVIOUS
  <2> QED BY <2>1
<1>8. \A i \in 1..V : g[n + 3 * i - 2].kind = "mono" /\ g[n + 3 * i - 1].kind \in PartKinds
                      /\ g[n + 3 * i].kind \in PartKinds
  <2> TAKE i \in 1..V
  <2>1. n + 3 * i - 2 /= n /\ \A l \in 1..V : n + 3 * i - 2 \notin {n + 3 * l - 1, n + 3 * l}
    BY <1>0
  <2>2. /\ n + 3 * i - 1 /= n /\ \A l \in 1..V : n + 3 * i - 1 /= n + 3 * l - 2
        /\ n + 3 * i /= n /\ \A l \in 1..V : n + 3 * i /= n + 3 * l - 2
    BY <1>0
  <2>3. IsMono(n + 3 * i - 2) BY <1>1, <1>4, <2>1
  <2>4. IsPart(n + 3 * i - 1) /\ IsPart(n + 3 * i) BY <1>1, <1>4, <2>2
  <2> QED BY <2>3, <2>4 DEF PartKinds
<1>9. \A x \in B : g[x].kind \notin Wholes => g[x].parts = <<>> BY <1>1 DEF Wholes
<1>10. ASSUME NEW x \in B, NEW i \in DOMAIN g[x].parts
       PROVE  /\ g[x].parts[i] /= x
              /\ IF g[x].kind = "poly" THEN g[g[x].parts[i]].kind = "mono"
                 ELSE g[g[x].parts[i]].kind \in PartKinds
  <2>1. CASE IsPoly(x)
    <3>1. i \in 1..V /\ g[x].parts[i] = n + 3 * i - 2 /\ g[x].kind = "poly" /\ x = n
      BY <1>5, <1>10, <2>1
    <3>2. n + 3 * i - 2 /= n BY <1>0, <3>1
    <3> QED BY <1>8, <3>1, <3>2
  <2>2. CASE IsMono(x)
    <3>1. PICK l \in 1..V : /\ x = n + 3 * l - 2
                            /\ \/ g[x].parts[i] = n + 3 * l
                               \/ g[x].parts[i] = n + 3 * l - 1
      BY <1>6, <1>10, <2>2
    <3>2. n + 3 * l /= n + 3 * l - 2 /\ n + 3 * l - 1 /= n + 3 * l - 2 BY <1>0
    <3>3. g[x].kind /= "poly" BY <2>2
    <3> QED BY <1>8, <3>1, <3>2, <3>3
  <2>3. CASE IsPart(x) BY <1>7, <1>10, <2>3
  <2> QED BY <1>1, <2>1, <2>2, <2>3
<1>11. ASSUME NEW x \in B, NEW y \in B, NEW i \in DOMAIN g[x].parts, NEW j \in DOMAIN g[y].parts,
              g[x].parts[i] = g[y].parts[j]
       PROVE  x = y /\ i = j
  <2>1. IsPoly(x) \/ IsMono(x) BY <1>1, <1>7, <1>11
  <2>2. IsPoly(y) \/ IsMono(y) BY <1>1, <1>7, <1>11
  <2>3. CASE IsPoly(x) /\ IsPoly(y)
    <3>1. /\ i \in 1..V /\ g[x].parts[i] = n + 3 * i - 2
          /\ j \in 1..V /\ g[y].parts[j] = n + 3 * j - 2 /\ x = n /\ y = n
      BY <1>5, <1>11, <2>3
    <3>2. n + 3 * i - 2 = n + 3 * j - 2 BY <1>11, <3>1
    <3>3. i = j BY ONLY <1>0, <3>1, <3>2, n \in Nat \ {0}
    <3> QED BY <3>1, <3>3
  <2>4. CASE IsMono(x) /\ IsMono(y)
    <3>1. PICK l \in 1..V : /\ x = n + 3 * l - 2
                            /\ \/ i = 1 /\ g[x].parts[i] = n + 3 * l
                               \/ i = 2 /\ g[x].parts[i] = n + 3 * l - 1
      BY <1>6, <1>11, <2>4
    <3>2. PICK k \in 1..V : /\ y = n + 3 * k - 2
                            /\ \/ j = 1 /\ g[y].parts[j] = n + 3 * k
                               \/ j = 2 /\ g[y].parts[j] = n + 3 * k - 1
      BY <1>6, <1>11, <2>4
    <3>3. l = k /\ i = j
      <4>1. \/ i = 1 /\ j = 1 /\ n + 3 * l = n + 3 * k
            \/ i = 1 /\ j = 2 /\ n + 3 * l = n + 3 * k - 1
            \/ i = 2 /\ j = 1 /\ n + 3 * l - 1 = n + 3 * k
            \/ i = 2 /\ j = 2 /\ n + 3 * l - 1 = n + 3 * k - 1
        BY <1>11, <3>1, <3>2
      <4> QED BY ONLY <1>0, <4>1, l \in 1..V, k \in 1..V, n \in Nat \ {0}
    <3> QED BY <3>1, <3>2, <3>3
  <2>5. ASSUME NEW z \in B, NEW w \in B, NEW a \in DOMAIN g[z].parts, NEW c \in DOMAIN g[w].parts,
               IsPoly(z), IsMono(w), g[z].parts[a] = g[w].parts[c]
        PROVE  FALSE
    <3>1. a \in 1..V /\ g[z].parts[a] = n + 3 * a - 2 BY <1>5, <2>5
    <3>2. PICK k \in 1..V : g[w].parts[c] = n + 3 * k \/ g[w].parts[c] = n + 3 * k - 1
      BY <1>6, <2>5
    <3>3. n + 3 * a - 2 = n + 3 * k \/ n + 3 * a - 2 = n + 3 * k - 1 BY <2>5, <3>1, <3>2
    <3> QED BY ONLY <1>0, <3>1, <3>3, k \in 1..V, n \in Nat \ {0}
  <2> QED BY <1>11, <2>1, <2>2, <2>3, <2>4, <2>5
<1>12. \A x \in B : g[x].kind /= "band" BY <1>1
<1>13. Built(g, B) BY ONLY <1>1, <1>3, <1>9, <1>10, <1>11, <1>12 DEF Built
<1> QED BY ONLY <1>13 DEF B, V

\* What one voice puts into the array.
LEMMA VoicePushed ==
  ASSUME NEW a, NEW b, NEW c, NEW T, {a, b, c} \subseteq T, a /= b, b /= c, a /= c
  PROVE  /\ <<a, b, c, a>> \in Seq(T)
         /\ \A x : Graph!Contains(<<a, b, c, a>>, x) <=> x \in {a, b, c}
         /\ \A x : x /= a => Once(<<a, b, c, a>>, x)
<1> DEFINE q == <<a, b, c, a>>
<1>1. /\ q \in Seq(T) /\ DOMAIN q = 1..4 /\ q[1] = a /\ q[2] = b /\ q[3] = c /\ q[4] = a OBVIOUS
<1> HIDE DEF q
<1>2. \A i \in 1..4 : i = 1 \/ i = 2 \/ i = 3 \/ i = 4 OBVIOUS
<1>3. 1 \in 1..4 /\ 2 \in 1..4 /\ 3 \in 1..4 OBVIOUS
<1>4. \A x : Graph!Contains(q, x) <=> \E i \in DOMAIN q : q[i] = x BY ONLY <1>1, ContainsIs
<1>5. \A x : Graph!Contains(q, x) <=> x \in {a, b, c} BY <1>1, <1>2, <1>3, <1>4
<1>6. \A x : x /= a => Once(q, x) BY <1>1, <1>2 DEF Once
<1> QED BY ONLY <1>1, <1>5, <1>6 DEF q

\* Each is pushed: voices twice, their parts once.
LEMMA PolyListed ==
  ASSUME NEW n \in Nat \ {0}, NEW g, Voices(g, n)
  PROVE  LET B == n..(n + 3 * gr_maxVoices)
         IN Graph!Pushed("poly", n) \in Seq(B) /\ Listed(g, B, Graph!Pushed("poly", n), {})
<1> DEFINE V == gr_maxVoices
           B == n..(n + 3 * V)
           q == [i \in 1..V |-> <<n + 3 * i - 2, n + 3 * i - 1, n + 3 * i, n + 3 * i - 2>>]
           f == Graph!FlattenSeq(q)
           p == Graph!Pushed("poly", n)
<1>0. V \in Nat BY GraphAssumption
<1>1. p = f \o <<n>> BY DEF Graph!Pushed
<1>2. \A i \in 1..V : q[i] = <<n + 3 * i - 2, n + 3 * i - 1, n + 3 * i, n + 3 * i - 2>> OBVIOUS
<1>3. q = [i \in 1..V |-> q[i]] /\ DOMAIN q = 1..V OBVIOUS
<1>4. \A i \in 1..V : {n + 3 * i - 2, n + 3 * i - 1, n + 3 * i} \subseteq B BY <1>0
<1>5. n \in B BY <1>0
<1> HIDE DEF q, p, B
<1>6. ASSUME NEW i \in 1..V
      PROVE  /\ q[i] \in Seq(B)
             /\ \A x : Graph!Contains(q[i], x) <=> x \in {n + 3 * i - 2, n + 3 * i - 1, n + 3 * i}
             /\ \A x : x /= n + 3 * i - 2 => Once(q[i], x)
  <2> DEFINE a == n + 3 * i - 2
             b == n + 3 * i - 1
             c == n + 3 * i
  <2>1. a /= b /\ b /= c /\ a /= c BY <1>0
  <2>2. {a, b, c} \subseteq B /\ q[i] = <<a, b, c, a>> BY <1>2, <1>4
  <2> HIDE DEF a, b, c
  <2>3. /\ <<a, b, c, a>> \in Seq(B)
        /\ \A x : Graph!Contains(<<a, b, c, a>>, x) <=> x \in {a, b, c}
        /\ \A x : x /= a => Once(<<a, b, c, a>>, x)
    BY ONLY <2>1, <2>2, VoicePushed
  <2> QED BY ONLY <2>2, <2>3 DEF a, b, c
<1>7. q \in Seq(Seq(B))
  <2>1. q \in [1..V -> Seq(B)] BY ONLY <1>3, <1>6
  <2> QED BY ONLY <1>0, <2>1
<1> HIDE DEF f
<1>8. /\ f \in Seq(B)
      /\ \A x : Graph!Contains(f, x) <=> \E i \in DOMAIN q : Graph!Contains(q[i], x)
      /\ \A x : /\ \A i \in DOMAIN q : Once(q[i], x)
                /\ \A i, j \in DOMAIN q : Graph!Contains(q[i], x) /\ Graph!Contains(q[j], x) => i = j
                => Once(f, x)
  BY ONLY <1>7, FlattenedContains DEF f
<1>9. <<n>> \in Seq(B) /\ (\A x : Graph!Contains(<<n>>, x) <=> x = n) /\ \A x : Once(<<n>>, x)
  <2>1. <<n>> \in Seq(B) /\ DOMAIN <<n>> = {1} /\ <<n>>[1] = n BY ONLY <1>5
  <2>2. \A x : Graph!Contains(<<n>>, x) <=> x = n BY ONLY <2>1, ContainsIs
  <2> QED BY ONLY <2>1, <2>2 DEF Once
<1>10. /\ p \in Seq(B)
       /\ \A x : /\ Graph!Contains(p, x) <=> Graph!Contains(f, x) \/ Graph!Contains(<<n>>, x)
                 /\ Once(f, x) /\ Once(<<n>>, x) /\ ~(Graph!Contains(f, x) /\ Graph!Contains(<<n>>, x)) => Once(p, x)
  BY ONLY <1>1, <1>8, <1>9, InARow
<1>11. ASSUME NEW x \in B
       PROVE  Graph!Contains(p, x) /\ (g[x].kind \notin Synths => Once(p, x))
  <2>1. \/ x = n /\ g[x].kind = "poly"
        \/ \E i \in 1..V : x = n + 3 * i - 2 /\ g[x].kind = "mono"
        \/ \E i \in 1..V : x \in {n + 3 * i - 1, n + 3 * i}
    BY VoiceIs DEF B
  <2>2. CASE x = n /\ g[x].kind = "poly" BY <1>9, <1>10, <2>2 DEF Synths
  <2>3. ASSUME NEW i \in 1..V, x = n + 3 * i - 2, g[x].kind = "mono"
        PROVE  Graph!Contains(p, x) /\ (g[x].kind \notin Synths => Once(p, x))
    <3>1. Graph!Contains(q[i], x) BY <1>6, <2>3
    <3> QED BY <1>3, <1>8, <1>10, <2>3, <3>1 DEF Synths
  <2>4. ASSUME NEW i \in 1..V, x \in {n + 3 * i - 1, n + 3 * i}
        PROVE  Graph!Contains(p, x) /\ Once(p, x)
    <3>1. Graph!Contains(q[i], x) BY <1>6, <2>4
    <3>2. x /= n /\ \A j \in 1..V : x /= n + 3 * j - 2 BY <1>0, <2>4
    <3>3. \A j \in 1..V : x \in {n + 3 * j - 2, n + 3 * j - 1, n + 3 * j} => j = i BY <1>0, <2>4
    <3>4. \A j \in DOMAIN q : Once(q[j], x) BY ONLY <1>3, <1>6, <3>2
    <3>5. \A j, l \in DOMAIN q : Graph!Contains(q[j], x) /\ Graph!Contains(q[l], x) => j = l
      BY ONLY <1>3, <1>6, <3>3
    <3>6. Once(f, x) BY ONLY <1>8, <3>4, <3>5
    <3>7. Graph!Contains(f, x) BY <1>3, <1>8, <3>1
    <3> QED BY ONLY <1>9, <1>10, <3>2, <3>6, <3>7
  <2> QED BY <2>1, <2>2, <2>3, <2>4
<1>12. Listed(g, B, p, {}) BY ONLY <1>11 DEF Listed
<1> QED BY ONLY <1>10, <1>12 DEF B, p, V

\* A PolySynth fits.
LEMMA PolyFits == ASSUME NEW n \in Nat \ {0} PROVE Fits(Graph!PolySynth(n), Graph!Pushed("poly", n), n)
<1> DEFINE m == Graph!PolySynth(n)
           q == Graph!Pushed("poly", n)
           g == Numbered(m, n)
           B == n..(n + 3 * gr_maxVoices)
<1>0. gr_maxVoices \in Nat BY GraphAssumption
<1>1. /\ Len(m) = 3 * gr_maxVoices + 1 /\ DOMAIN m = 1..Len(m) /\ m = [i \in 1..Len(m) |-> m[i]]
      /\ Voices(g, n)
  BY ONLY n \in Nat \ {0}, PolyMade
<1>2. g = [x \in n..(n + Len(m) - 1) |-> m[x - n + 1]] BY DEF Numbered
<1> HIDE DEF g, m, q
<1>3. n..(n + Len(m) - 1) = B BY <1>0, <1>1
<1>4. Built(g, B) BY ONLY <1>1, PolyBuilt, n \in Nat \ {0}
<1>5. q \in Seq(B) /\ Listed(g, B, q, {}) BY ONLY <1>1, PolyListed, n \in Nat \ {0} DEF q
<1>6. \A x \in B : g[x] \in Thing(B) /\ g[x].disposed = FALSE
  <2>1. Voices(g, n) BY ONLY <1>1
  <2> QED BY ONLY <2>1, VoiceIs, n \in Nat \ {0} DEF B
<1>7. m \in Seq(Thing(B))
  <2>1. \A i \in 1..Len(m) : i + n - 1 \in B /\ (i + n - 1) - n + 1 = i BY <1>0, <1>1
  <2>2. Len(m) \in Nat BY <1>0, <1>1
  <2> HIDE DEF B
  <2>3. \A i \in 1..Len(m) : m[i] = g[i + n - 1] BY ONLY <1>2, <1>3, <2>1
  <2>4. \A i \in 1..Len(m) : m[i] \in Thing(B) BY ONLY <1>6, <2>1, <2>3
  <2>5. m \in [1..Len(m) -> Thing(B)] BY ONLY <1>1, <2>4
  <2> QED BY ONLY <2>2, <2>5
<1> HIDE DEF B
<1>8. Fits(m, q, n) BY ONLY <1>3, <1>4, <1>5, <1>6, <1>7 DEF Fits, g
<1> QED BY ONLY <1>8 DEF m, q

\* What each constructor makes fits.
LEMMA MadeFits ==
  ASSUME NEW n \in Nat \ {0}, NEW k \in Graph!AllKinds \ {"band"}
  PROVE  Fits(Graph!Made(k, n), Graph!Pushed(k, n), n)
<1>1. CASE k = "poly"
  <2>1. Graph!Made(k, n) = Graph!PolySynth(n) BY <1>1 DEF Graph!Made
  <2> QED BY ONLY <1>1, <2>1, PolyFits, n \in Nat \ {0}
<1>2. CASE k = "mono"
  <2>1. Graph!Made(k, n) = Graph!MonoSynth(n, {gr_main}) /\ Graph!Pushed(k, n) = <<n, n + 1, n + 2, n>>
    BY <1>2 DEF Graph!Made, Graph!Pushed
  <2> QED BY ONLY <2>1, SynthFits, n \in Nat \ {0}
<1>3. CASE k \in {"delay", "eq", "pulse", "audioin"}
  <2>0. k \in Graph!AllKinds \ {"band", "poly"} /\ k \in Wholes BY <1>3 DEF Wholes
  <2>1. ASSUME NEW part \in PartKinds, NEW count \in Nat \ {0},
               Graph!Made(k, n) = Graph!WithParts(k, part, n, count),
               \/ Graph!Pushed(k, n) = [i \in DOMAIN Graph!Made(k, n) |-> n + i - 1]
               \/ count = 1 /\ Graph!Pushed(k, n) = <<n + 1, n>>
        PROVE  Fits(Graph!Made(k, n), Graph!Pushed(k, n), n)
    <3> DEFINE m == Graph!Made(k, n)
               q == Graph!Pushed(k, n)
    <3> HIDE DEF m, q
    <3>1. /\ DOMAIN m = 1..(count + 1)
          /\ \A r : /\ r \in Seq(n..(n + count))
                    /\ \A x \in n..(n + count) : Graph!Contains(r, x) /\ Once(r, x)
                    => Fits(m, r, n)
      <4> DEFINE w == Graph!WithParts(k, part, n, count)
      <4>1. /\ DOMAIN w = 1..(count + 1)
            /\ \A r : /\ r \in Seq(n..(n + count))
                      /\ \A x \in n..(n + count) : Graph!Contains(r, x) /\ Once(r, x)
                      => Fits(w, r, n)
        BY <2>0, PartsFit
      <4>2. m = w BY <2>1 DEF m
      <4> HIDE DEF w
      <4> QED BY ONLY <4>1, <4>2
    <3>2. q \in Seq(n..(n + count)) /\ \A x \in n..(n + count) : Graph!Contains(q, x) /\ Once(q, x)
      <4>1. CASE q = [i \in DOMAIN m |-> n + i - 1]
        <5>1. q = [i \in 1..(count + 1) |-> n + i - 1] BY ONLY <3>1, <4>1
        <5>2. n + (count + 1) - 1 = n + count /\ count + 1 \in Nat OBVIOUS
        <5>3. q \in Seq(n..(n + (count + 1) - 1))
              /\ \A x \in n..(n + (count + 1) - 1) : Graph!Contains(q, x) /\ Once(q, x)
          BY ONLY <5>1, <5>2, InTurn, n \in Nat \ {0}
        <5> QED BY ONLY <5>2, <5>3
      <4>2. CASE count = 1 /\ q = <<n + 1, n>>
        <5>1. n..(n + count) = {n, n + 1} BY <4>2
        <5>2. /\ q \in Seq({n, n + 1}) /\ DOMAIN q = 1..2 /\ q[1] = n + 1 /\ q[2] = n BY <4>2
        <5>3. n /= n + 1 /\ 1 \in 1..2 /\ 2 \in 1..2 /\ \A i \in 1..2 : i = 1 \/ i = 2 OBVIOUS
        <5>4. \A x : Graph!Contains(q, x) <=> \E i \in DOMAIN q : q[i] = x BY ONLY <5>2, ContainsIs
        <5>5. \A x \in {n, n + 1} : Graph!Contains(q, x) BY ONLY <5>2, <5>3, <5>4
        <5>6. \A x \in {n, n + 1} : Once(q, x) BY ONLY <5>2, <5>3 DEF Once
        <5> QED BY ONLY <5>1, <5>2, <5>5, <5>6
      <4> QED BY ONLY <2>1, <4>1, <4>2 DEF m, q
    <3>3. Fits(m, q, n) BY ONLY <3>1, <3>2
    <3> QED BY ONLY <3>3 DEF m, q
  <2>2. {"filter", "band", "osc", "amplitude"} \subseteq PartKinds BY DEF PartKinds
  <2>3. EQBands \in Nat \ {0} /\ 1 \in Nat \ {0} /\ 2 \in Nat \ {0} BY GraphAssumption
  <2>4. CASE k = "delay"
    <3>1. Graph!Made(k, n) = Graph!WithParts(k, "filter", n, 2) BY <2>4 DEF Graph!Made
    <3>2. Graph!Pushed(k, n) = [i \in DOMAIN Graph!Made(k, n) |-> n + i - 1]
      BY <2>4 DEF Graph!Pushed
    <3> QED BY ONLY <2>1, <2>2, <2>3, <3>1, <3>2
  <2>5. CASE k = "eq"
    <3>1. Graph!Made(k, n) = Graph!WithParts(k, "band", n, EQBands) BY <2>5 DEF Graph!Made
    <3>2. Graph!Pushed(k, n) = [i \in DOMAIN Graph!Made(k, n) |-> n + i - 1]
      BY <2>5 DEF Graph!Pushed
    <3> QED BY ONLY <2>1, <2>2, <2>3, <3>1, <3>2
  <2>6. CASE k = "pulse"
    <3>1. Graph!Made(k, n) = Graph!WithParts(k, "osc", n, 1) BY <2>6 DEF Graph!Made
    <3>2. Graph!Pushed(k, n) = [i \in DOMAIN Graph!Made(k, n) |-> n + i - 1]
      BY <2>6 DEF Graph!Pushed
    <3> QED BY ONLY <2>1, <2>2, <2>3, <3>1, <3>2
  <2>7. CASE k = "audioin"
    <3>1. Graph!Made(k, n) = Graph!WithParts(k, "amplitude", n, 1) BY <2>7 DEF Graph!Made
    <3>2. Graph!Pushed(k, n) = <<n + 1, n>> BY <2>7 DEF Graph!Pushed
    <3>3. 1 = 1 OBVIOUS
    <3> QED BY ONLY <2>1, <2>2, <2>3, <3>1, <3>2, <3>3
  <2> QED BY <1>3, <2>4, <2>5, <2>6, <2>7
<1>4. CASE k \notin {"delay", "eq", "pulse", "audioin", "mono", "poly"}
  <2>1. Graph!Made(k, n) = Graph!Lone(k) BY <1>4 DEF Graph!Made
  <2>2. Graph!Pushed(k, n) = [i \in DOMAIN Graph!Made(k, n) |-> n + i - 1] BY <1>4 DEF Graph!Pushed
  <2>3. k \in Graph!AllKinds \ {"band", "poly"} BY <1>4
  <2> QED BY ONLY <2>1, <2>2, <2>3, LoneFits, n \in Nat \ {0}
<1> QED BY <1>1, <1>2, <1>3, <1>4

-----------------------------------------------------------------------------
(* The invariant, and what follows from it. *)

\* The invariant holds at first,
LEMMA GraphInit == Graph!Init => GraphInv
<1> SUFFICES ASSUME Graph!Init PROVE GraphInv OBVIOUS
<1>1. /\ objects = <<>> /\ soundArray = <<>> /\ metered = {} /\ gr_calls = 0 /\ twice = FALSE
      /\ given = FALSE
  BY DEF Graph!Init
<1>2. Graph!Ids = {} /\ Len(objects) = 0 /\ objects \in Seq(Thing(Graph!Ids)) /\ objects \in [Graph!Ids -> Thing(Graph!Ids)]
  BY <1>1 DEF Graph!Ids
<1>3. Built(objects, Graph!Ids) BY <1>2 DEF Built
<1>4. Listed(objects, Graph!Ids, soundArray, {o \in Graph!Ids : objects[o].disposed})
  BY <1>2 DEF Listed
<1>5. 0 <= MaxObjects /\ gr_calls \in 0..gr_MaxCalls /\ soundArray \in Seq(Graph!Ids)
  BY <1>1, GraphAssumption
<1> QED BY <1>1, <1>2, <1>3, <1>4, <1>5 DEF GraphInv

\* every step keeps it,
LEMMA GraphNext == GraphInv /\ [Graph!Next]_(Graph!vars) => GraphInv'
<1> SUFFICES ASSUME GraphInv, [Graph!Next]_(Graph!vars) PROVE GraphInv' OBVIOUS
<1>1. ASSUME NEW k \in gr_Kinds, Graph!New(k) PROVE GraphInv'
  <2> DEFINE n == Len(objects) + 1
  <2>1. n \in Nat \ {0} BY LenProperties DEF GraphInv
  <2>2. k \in Graph!AllKinds \ {"band"} BY GraphAssumption
  <2>3. Fits(Graph!Made(k, n), Graph!Pushed(k, n), n)
    <3> HIDE DEF n
    <3> QED BY ONLY <2>1, <2>2, MadeFits
  <2> QED BY <1>1, <2>3, NewKeeps
<1>2. ASSUME NEW o \in Graph!Ids, NEW u \in Graph!Ids \cup {gr_main}, Graph!Connect(o, u)
      PROVE GraphInv'
  BY <1>2, ConnectKeeps
<1>3. ASSUME NEW o \in Graph!Ids, Graph!Disconnect(o) PROVE GraphInv' BY <1>3, DisconnectKeeps
<1>4. ASSUME NEW o \in Graph!Ids, Graph!Phase(o) PROVE GraphInv' BY <1>4, PhaseKeepsAll
<1>5. ASSUME NEW o \in Graph!Ids, Graph!Start(o) PROVE GraphInv' BY <1>5, StartKeepsAll
<1>6. ASSUME NEW o \in Graph!Ids, Graph!Dispose(o) PROVE GraphInv' BY <1>6, GraphDisposeKeeps
<1>7. ASSUME NEW o \in Graph!Ids, NEW type \in {"default", "pingPong"}, Graph!SetType(o, type)
      PROVE GraphInv'
  BY <1>7, SetTypeKeepsAll
<1>8. ASSUME NEW o \in Graph!Ids, NEW b \in BOOLEAN, Graph!SetAmplitudeInput(o, b) \/ Graph!SetFFTInput(o, b)
      PROVE  GraphInv'
  BY <1>8, InputsKeep
<1>9. CASE Graph!DisposeSound BY <1>9, DisposeSoundKeeps
<1>10. CASE UNCHANGED Graph!vars
  <2>1. /\ objects' = objects /\ soundArray' = soundArray /\ metered' = metered /\ gr_calls' = gr_calls
        /\ twice' = twice /\ given' = given
    BY <1>10 DEF Graph!vars
  <2>2. Graph!Ids' = Graph!Ids BY <2>1 DEF Graph!Ids
  <2>3. Built(objects, Graph!Ids)' <=> Built(objects, Graph!Ids) BY <2>1, <2>2
  <2> QED BY <2>1, <2>2, <2>3 DEF GraphInv
<1> QED BY <1>1, <1>2, <1>3, <1>4, <1>5, <1>6, <1>7, <1>8, <1>9, <1>10 DEF Graph!Next

\* and it says that what is not disposed of is found and heard.
LEMMA GraphSafe == GraphInv => Graph!Registered /\ Graph!Audible /\ Graph!TypeOK
<1> SUFFICES ASSUME GraphInv PROVE Graph!Registered /\ Graph!Audible /\ Graph!TypeOK OBVIOUS
<1>1. /\ objects \in Seq(Thing(Graph!Ids)) /\ Len(objects) <= MaxObjects /\ Built(objects, Graph!Ids)
      /\ soundArray \in Seq(Graph!Ids) /\ metered \in SUBSET Graph!Ids /\ given \in BOOLEAN /\ twice \in BOOLEAN
      /\ ~twice => Listed(objects, Graph!Ids, soundArray, {o \in Graph!Ids : objects[o].disposed})
      /\ ~given => {o \in Graph!Ids : objects[o].kind \in Graph!Meters /\ ~objects[o].disposed} \subseteq metered
      /\ gr_calls \in 0..gr_MaxCalls
  BY DEF GraphInv
<1>2. \A o \in Graph!Ids : /\ objects[o] \in Thing(Graph!Ids) /\ o \notin objects[o].to
                           /\ objects[o].kind /= "band" /\ ~objects[o].disposed
                                => Wired(objects[o].kind, objects[o].wires)
  BY ThingOf
<1>3. Graph!Registered
  <2>1. ASSUME ~twice, NEW o \in Graph!Ids
        PROVE  IF objects[o].disposed THEN Graph!Contains(soundArray, o) => objects[o].kind \in {"mono", "poly"}
               ELSE Graph!Contains(soundArray, o)
    <3>1. IF objects[o].disposed THEN Graph!Contains(soundArray, o) => objects[o].kind \in Synths
          ELSE Graph!Contains(soundArray, o)
      BY <1>1, <2>1 DEF Listed
    <3> QED BY <3>1 DEF Synths
  <2> QED BY <2>1 DEF Graph!Registered
<1>4. Graph!AllCarryWhenMade
  <2>1. ASSUME NEW k \in Graph!AllKinds \ {"band"} PROVE Graph!Carries(k, Graph!Wires(k))
    <3>1. Graph!Wires(k) \in SUBSET (Graph!AudioNodes \X Graph!AudioNodes) /\ Wired(k, Graph!Wires(k)) BY WiresAre
    <3> QED BY ONLY <3>1, WiredCarries, k \in Graph!AllKinds \ {"band"}
  <2> QED BY <2>1 DEF Graph!AllCarryWhenMade
<1>5. ASSUME NEW o \in Graph!Held, ~objects[o].disposed
      PROVE Graph!Carries(objects[o].kind, objects[o].wires)
  <2>1. o \in Graph!Ids /\ \A p \in Graph!Ids : ~Graph!Contains(objects[p].parts, o)
    BY DEF Graph!Held
  <2>2. objects[o].kind /= "band" BY <1>1, <2>1 DEF Built
  <2>3. /\ objects[o].kind \in Graph!AllKinds /\ objects[o].wires \in SUBSET (Graph!AudioNodes \X Graph!AudioNodes)
        /\ Wired(objects[o].kind, objects[o].wires)
    BY <1>2, <1>5, <2>1, <2>2 DEF Thing
  <2> QED BY ONLY <2>2, <2>3, WiredCarries
<1>6. Graph!Audible BY <1>1, <1>4, <1>5 DEF Graph!Audible
<1>8. \A o \in Graph!Ids : /\ objects[o].kind \in Graph!AllKinds
                           /\ objects[o].wires \subseteq Graph!AudioNodes \X Graph!AudioNodes
                           /\ objects[o].to \subseteq (Graph!Ids \cup {gr_main}) \ {o}
                           /\ objects[o].parts \in Seq(Graph!Ids)
                           /\ objects[o].disposed \in BOOLEAN
  <2> TAKE o \in Graph!Ids
  <2>1. objects[o] \in Thing(Graph!Ids) /\ o \notin objects[o].to BY <1>2
  <2> QED BY <2>1 DEF Thing
<1>9. Graph!TypeOK BY <1>1, <1>8 DEF Graph!TypeOK
<1> QED BY <1>3, <1>6, <1>9

\* Whatever is made, in whatever order it is disposed of, and at the page's end: until something is
\* disposed of twice, the array has every object that was not disposed of, parts included, and of
\* those that were, none but synths.
THEOREM ArrayKeepsAll == Graph!Spec => []Registered
<1>1. GraphInv => Registered BY GraphSafe DEF Registered
<1> QED BY <1>1, GraphInit, GraphNext, PTL DEF Graph!Spec

\* Every kind is made with a way for its sound, and connecting, retyping, restarting and disposing
\* of objects leave one to each that the sketch holds; and live meters hear the page until one is
\* given an input.
THEOREM AlwaysAudible == Graph!Spec => []Audible
<1>1. GraphInv => Audible BY GraphSafe DEF Audible
<1> QED BY <1>1, GraphInit, GraphNext, PTL DEF Graph!Spec
=============================================================================
