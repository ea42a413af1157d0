------------------------------- MODULE Looper -------------------------------
(* The sequencer of p5.sound: a part has a metronome of its own, whose ticks   *)
(* advance the part and play a step of each of its phrases; a score is to play *)
(* parts one after the other.                                                  *)
(*                                                                             *)
(* The calls are made for now: what a clock does with the times it is given is *)
(* in SoundLoop.  A stop is only written down: what ticks were due before it    *)
(* the clock still makes, however late, and then it halts.  A tick the          *)
(* metronome drops for coming too early changes nothing.  Phrase.looping is     *)
(* never set, so a phrase plays on every tick.                                  *)
EXTENDS Naturals, Sequences, SequencesExt

CONSTANTS N,         \* the number of parts
          Names,     \* the names of phrases
          Lengths,   \* the lengths of their sequences
          Wrap,      \* a common multiple of the lengths: metroTicks is kept modulo it
          MaxPhrases, MaxCalls,
          MaxLate,   \* bound: how many ticks come when a part does not play
          NaN, array \* values of JavaScript

VARIABLES
  part,         \* the parts, each with its metronome; late: history, ticks that came as it didn't play
  scored,       \* how many of the parts, from the first, were given to a score; or none
  currentPart,  \* of the score: a Number, NaN, or the array its constructor leaves there
  scoreLooping,
  calls,        \* how many calls the sketch made
  straight      \* history: the parts that were never cut short, looped or lengthened

vars == <<part, scored, currentPart, scoreLooping, calls, straight>>

Parts == 0..(N - 1)

Init == /\ scored \in 0..N
        /\ \E n \in {0} \cup Lengths :
             part = [p \in Parts |->
                      [isPlaying |-> FALSE, looping |-> FALSE, partStep |-> 0, length |-> n,
                       phrases |-> <<>>, running |-> FALSE, metroTicks |-> 0, late |-> 0,
                       onended |-> IF p < scored THEN "score" ELSE "stop"]]
        /\ currentPart = array /\ scoreLooping = FALSE
        /\ calls = 0 /\ straight = Parts

-----------------------------------------------------------------------------
(* The methods of a part.                                                     *)

Started(r) == IF r.isPlaying THEN r ELSE [r EXCEPT !.isPlaying = TRUE, !.running = TRUE]

\* Mutant: a pause goes back to the first step.
MutantPaused(r) == [r EXCEPT !.isPlaying = FALSE, !.partStep = 0]

\* The clock runs until its turn comes to the stop (Halt).
Paused(r)  == [r EXCEPT !.isPlaying = FALSE]
Stopped(r) == Paused([r EXCEPT !.partStep = 0])
Looped(r)  == Started([r EXCEPT !.looping = TRUE, !.onended = "reset"])
NotLooped(r) == [r EXCEPT !.looping = FALSE, !.onended = "stop"]

Call == calls < MaxCalls /\ calls' = calls + 1

\* The parts that stay straight when the parts become `new': not one stopped in mid-course.
Straight(new) == {p \in straight : new[p].partStep = 0 => part[p].partStep = 0}

Start(p) == /\ part' = [part EXCEPT ![p] = Started(@)]
            /\ Call /\ UNCHANGED <<scored, currentPart, scoreLooping, straight>>

Stop(p) == /\ part' = [part EXCEPT ![p] = Stopped(@)]
           /\ straight' = Straight(part')
           /\ Call /\ UNCHANGED <<scored, currentPart, scoreLooping>>

Pause(p) == /\ part' = [part EXCEPT ![p] = Paused(@)]
            /\ Call /\ UNCHANGED <<scored, currentPart, scoreLooping, straight>>

Loop(p) == /\ part' = [part EXCEPT ![p] = Looped(@)]
           /\ straight' = straight \ {p}
           /\ Call /\ UNCHANGED <<scored, currentPart, scoreLooping>>

NoLoop(p) == /\ part' = [part EXCEPT ![p] = NotLooped(@)]
             /\ Call /\ UNCHANGED <<scored, currentPart, scoreLooping, straight>>

AddPhrase(p, name, n) ==
  /\ Len(part[p].phrases) < MaxPhrases
  /\ part' = [part EXCEPT ![p].phrases = Append(@, [name |-> name, length |-> n]),
                          ![p].length = IF n > @ THEN n ELSE @]
  /\ straight' = IF n > part[p].length /\ (part[p].metroTicks > 0 \/ part[p].late > 0)
                 THEN straight \ {p} ELSE straight
  /\ Call /\ UNCHANGED <<scored, currentPart, scoreLooping>>

\* removePhrase takes phrases out of the array it goes through: the one after each is not looked at.
Without(phrases, name) ==
  FoldLeft(LAMBDA acc, ph :
             IF ~acc.skip /\ ph.name = name THEN [acc EXCEPT !.skip = TRUE]
             ELSE [kept |-> Append(acc.kept, ph), skip |-> FALSE],
           [kept |-> <<>>, skip |-> FALSE], phrases).kept

RemovePhrase(p, name) ==
  /\ part' = [part EXCEPT ![p].phrases = Without(@, name)]
  /\ Call /\ UNCHANGED <<scored, currentPart, scoreLooping, straight>>

\* replaceSequence leaves the length of the part as it is.
ReplaceSequence(p, name, n) ==
  /\ part' = [part EXCEPT ![p].phrases =
               [i \in DOMAIN @ |-> IF @[i].name = name THEN [@[i] EXCEPT !.length = n] ELSE @[i]]]
  /\ Call /\ UNCHANGED <<scored, currentPart, scoreLooping, straight>>

-----------------------------------------------------------------------------
(* The score.  An index that is no part of it is undefined, and to call a      *)
(* method of that throws.                                                      *)

IsPart(i) == i \in 0..(scored - 1)

ScoreStart == /\ scored > 0
              /\ IsPart(currentPart)
              /\ part' = [part EXCEPT ![currentPart] = Started(@)]
              /\ Call /\ UNCHANGED <<scored, currentPart, scoreLooping, straight>>

ScoreLoop == /\ scored > 0
             /\ scoreLooping' = TRUE
             /\ part' = IF IsPart(currentPart) THEN [part EXCEPT ![currentPart] = Started(@)]
                        ELSE part
             /\ Call /\ UNCHANGED <<scored, currentPart, straight>>

ScoreNoLoop == /\ scored > 0
               /\ scoreLooping' = FALSE
               /\ Call /\ UNCHANGED <<part, scored, currentPart, straight>>

\* pause stops the part, too.
ScorePause == /\ scored > 0
              /\ IsPart(currentPart)
              /\ part' = [part EXCEPT ![currentPart] = Stopped(@)]
              /\ straight' = Straight(part')
              /\ Call /\ UNCHANGED <<scored, currentPart, scoreLooping>>

ScoreStop == /\ scored > 0
             /\ IsPart(currentPart)
             /\ part' = [part EXCEPT ![currentPart] = Stopped(@)]
             /\ straight' = Straight(part')
             /\ currentPart' = 0
             /\ Call /\ UNCHANGED <<scored, scoreLooping>>

\* currentPart++: an array of one empty place is 0 as a Number, of more it is NaN.
NextPart == IF currentPart = array THEN IF scored = 1 THEN 1 ELSE NaN
            ELSE IF currentPart = NaN THEN NaN ELSE currentPart + 1

last == scored - 1

\* Score.onended
ScoreEnded(ps) == IF scoreLooping THEN [ps EXCEPT ![0] = Started(@)]
                  ELSE [ps EXCEPT ![last].onended = "last"]

\* What the onended of part p makes of the parts and of currentPart, and whether it throws.  The
\* functions the constructor makes for the parts of a score share one i: each resets the last part.
\* What Score.onended puts in their place calls a method that parts don't have.
Ended(p, ps) ==
  LET reset == [ps EXCEPT ![last] = Stopped(@)] IN
    CASE ps[p].onended = "stop"  -> [ps |-> [ps EXCEPT ![p] = Stopped(@)], at |-> currentPart,
                                     throws |-> FALSE]
      [] ps[p].onended = "last"  -> [ps |-> [ps EXCEPT ![p] = Stopped(@)], at |-> currentPart,
                                     throws |-> TRUE]
      [] ps[p].onended = "score" ->
           IF NextPart = NaN THEN [ps |-> reset, at |-> NaN, throws |-> TRUE]
           ELSE IF NextPart >= scored THEN [ps |-> ScoreEnded(reset), at |-> 0, throws |-> FALSE]
           ELSE [ps |-> [reset EXCEPT ![NextPart - 1] = Stopped(@), ![NextPart] = Started(@)],
                 at |-> NextPart, throws |-> FALSE]

\* Mutant: the end is looked for one step late.
MutantAtLastStep(r) == r.partStep = r.length

AtLastStep(r) == r.partStep + 1 = r.length

\* Part.incrementStep
Incremented(p, ps) ==
  IF ps[p].partStep + 1 < ps[p].length
  THEN [ps |-> [ps EXCEPT ![p].partStep = @ + 1], at |-> currentPart, throws |-> FALSE]
  ELSE IF ~ps[p].looping /\ AtLastStep(ps[p])
       THEN Ended(p, ps)
       ELSE [ps |-> ps, at |-> currentPart, throws |-> FALSE]

\* Metro.ontick, of the metronome of part p.  What throws leaves metroTicks where it was.
Tick(p) ==
  LET step == Incremented(p, part)
  IN /\ part[p].running /\ part[p].isPlaying
     /\ part' = IF step.throws THEN step.ps
                ELSE [step.ps EXCEPT ![p].metroTicks = (@ + 1) % Wrap]
     /\ currentPart' = step.at
     /\ straight' = {q \in straight : q /= p => q \in Straight(part')}
                      \ (IF step.throws \/ part[p].looping THEN {p} ELSE {})
     /\ UNCHANGED <<scored, scoreLooping, calls>>

\* The same of a tick that was due before the part was stopped: no part is there to advance.
LateTick(p) ==
  /\ part[p].running /\ ~part[p].isPlaying /\ part[p].late < MaxLate
  /\ part' = [part EXCEPT ![p].metroTicks = (@ + 1) % Wrap, ![p].late = @ + 1]
  /\ UNCHANGED <<scored, currentPart, scoreLooping, calls, straight>>

\* The clock of part p comes to the time it was stopped at.
Halt(p) == /\ part[p].running /\ ~part[p].isPlaying
           /\ part' = [part EXCEPT ![p].running = FALSE]
           /\ UNCHANGED <<scored, currentPart, scoreLooping, calls, straight>>

Next == \/ \E p \in Parts : Start(p) \/ Stop(p) \/ Pause(p) \/ Loop(p) \/ NoLoop(p)
        \/ \E p \in Parts, name \in Names, n \in Lengths :
             AddPhrase(p, name, n) \/ ReplaceSequence(p, name, n)
        \/ \E p \in Parts, name \in Names : RemovePhrase(p, name)
        \/ ScoreStart \/ ScoreLoop \/ ScoreNoLoop \/ ScorePause \/ ScoreStop
        \/ \E p \in Parts : Tick(p) \/ LateTick(p) \/ Halt(p)

\* The clock of a part that plays ticks.
Fairness == \A p \in Parts : WF_vars(Tick(p))

Spec == Init /\ [][Next]_vars /\ Fairness
-----------------------------------------------------------------------------
\* The variables have the types the methods give them.
TypeOK ==
  /\ part \in [Parts -> [isPlaying : BOOLEAN, looping : BOOLEAN, partStep : Nat, length : Nat,
                         phrases : Seq([name : Names, length : Nat]), running : BOOLEAN,
                         metroTicks : 0..(Wrap - 1), late : 0..MaxLate,
                         onended : {"stop", "reset", "score", "last"}]]
  /\ scored \in 0..N /\ scoreLooping \in BOOLEAN
  /\ currentPart \in Parts \cup {NaN, array}
  /\ calls \in Nat /\ straight \subseteq Parts

\* The step that a phrase of n steps plays on a tick, by the metronome's count and by the part's.
StepPlayed(p, n) == part[p].metroTicks % n
StepDue(p, n) == (part[p].partStep + part[p].late) % n

\* In a part that is only paused and left to end, a phrase that fits into it a number of times is
\* at the step the part is at, but for the ticks that came late after a pause or an end: each of
\* these, and nothing else, puts it one step ahead for good.
PhrasesInStep ==
  \A p \in straight, n \in Lengths \ {0} :
    part[p].length > 0 /\ part[p].length % n = 0 => StepPlayed(p, n) = StepDue(p, n)

\* A part that has steps, does not loop and is not in a score ends.
PartEnds ==
  \A p \in Parts :
    (part[p].isPlaying /\ ~part[p].looping /\ part[p].onended = "stop"
       /\ part[p].length > 0)
      ~> (~part[p].isPlaying \/ part[p].looping)
=============================================================================
