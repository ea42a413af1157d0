------------------------------ MODULE Music ------------------------------
(* The parts of the library that play in time: loops, parts and scores, voices    *)
(* and envelopes.                                                                 *)
EXTENDS Integers, Sequences, FiniteSets

CONSTANTS
  Loops, maxIterations, Ahead, lp_Delays, Intervals, Tempos, lp_MaxTime, lp_MaxCalls,
  N, lo_Names, Lengths, Wrap, MaxPhrases, lo_MaxCalls, MaxLate,
  Notes, ps_maxVoices, ps_Delays, ps_MaxTime, ps_MaxCalls,
  en_Times, dTime, rTime, en_Delays, Sustains, en_MaxTime, en_MaxCalls,
  Second, Memory, NaN, array

\* A metronome's count is kept modulo a common multiple of the lengths, and the values
\* of JavaScript that are no numbers are none here.
ASSUME LoopersAssumption ==
  /\ N \in Nat /\ Lengths \subseteq Nat /\ Wrap \in Nat \ {0} /\ MaxLate \in Nat
  /\ \A n \in Lengths \ {0} : Wrap % n = 0
  /\ NaN \notin Nat /\ array \notin Nat /\ NaN /= array

\* A signal remembers a value at least, and a call is not for before now.
ASSUME SynthAssumption == /\ ps_maxVoices \in Nat /\ Memory \in Nat \ {0}
                          /\ ps_Delays \subseteq Nat /\ ps_MaxTime \in Nat

\* Times are whole, and none for a leg that takes no time, as a release by default; a signal
\* remembers an event at least.
ASSUME EnvelopeAssumption ==
  /\ en_Times \subseteq Nat /\ dTime \in Nat /\ rTime \in Nat
  /\ Second \in Nat \ {0} /\ Memory \in Nat \ {0}
  /\ en_Delays \subseteq Nat /\ Sustains \subseteq Nat

VARIABLES
  lp_now, timeline, nextTick, lastState, ticks, period, isPlaying, sketchCalls, lp_calls,
  delayed, quietFrom, syncedTo,
  part, scored, currentPart, scoreLooping, lo_calls, straight,
  ps_now, ps_notes, ps_voicesInUse, sounding, ps_calls, lastTime, ps_orderly,
  en_now, control, aTime, wasTriggered, en_calls, last, en_plays, en_orderly

Loop == INSTANCE SoundLoop WITH
  Delays <- lp_Delays, MaxTime <- lp_MaxTime, MaxCalls <- lp_MaxCalls, now <- lp_now,
  calls <- lp_calls

Loopers == INSTANCE Looper WITH
  Names <- lo_Names, MaxCalls <- lo_MaxCalls, calls <- lo_calls

Synth == INSTANCE PolySynth WITH
  maxVoices <- ps_maxVoices, Delays <- ps_Delays, MaxTime <- ps_MaxTime,
  MaxCalls <- ps_MaxCalls, now <- ps_now, notes <- ps_notes, _voicesInUse <- ps_voicesInUse,
  calls <- ps_calls, orderly <- ps_orderly

Env == INSTANCE Envelope WITH
  Times <- en_Times, Delays <- en_Delays, MaxTime <- en_MaxTime, MaxCalls <- en_MaxCalls,
  now <- en_now, calls <- en_calls, plays <- en_plays, orderly <- en_orderly

LoopVars == <<lp_now, timeline, nextTick, lastState, ticks, period, isPlaying, sketchCalls,
              lp_calls, delayed, quietFrom, syncedTo>>
LoopersVars == <<part, scored, currentPart, scoreLooping, lo_calls, straight>>
SynthVars == <<ps_now, ps_notes, ps_voicesInUse, sounding, ps_calls, lastTime, ps_orderly>>
EnvVars == <<en_now, control, aTime, wasTriggered, en_calls, last, en_plays, en_orderly>>

\* Times are whole numbers, no loop is the absence of one, and what a loop is given makes a turn last.
ASSUME LoopAssumption ==
  /\ "alone" \notin Loops
  /\ maxIterations \in Nat /\ Ahead \in Nat /\ lp_MaxTime \in Nat /\ lp_Delays \subseteq Nat
  /\ Second \in Nat \ {0}
  /\ \A i \in Intervals, b \in Tempos, s \in {3, 4} : Loop!Period(i, b, s) \in Nat \ {0}
-----------------------------------------------------------------------------
\* A loop started at once calls its callback maxIterations times at most (SoundLoop).
CallsLimited == Loop!CallsLimited

\* After stop(t) no call is scheduled for t or later before the next start (SoundLoop).
StoppedIsQuiet == Loop!StoppedIsQuiet

\* A loop started in step with another ticks when it does (SoundLoop.syncedStart).
SyncedTogether == Loop!SyncedTogether

\* In a part only paused and left to end a phrase drifts by the ticks that come late alone (Metro).
PhrasesInStep == Loopers!PhrasesInStep

\* A part that has steps, does not loop and is not in a score ends (Part.incrementStep).
PartEnds == Loopers!PartEnds

\* Each note held has a voice of its own when calls come in order of time (PolySynth).
OwnVoices == Synth!OwnVoices

\* A play keeps its shape when each call is for after all that was scheduled (Envelope).
PlaysKeepShape == Env!PlaysKeepShape
=============================================================================
