------------------------------ MODULE Sources ------------------------------
(* The parts of the library that sound: files and their cues, oscillators and     *)
(* noise.                                                                         *)
EXTENDS Integers, Sequences, FiniteSets

CONSTANTS
  sf_MaxNodes, sf_MaxCalls,
  Duration, MaxCues, MaxPlays,
  ge_Kinds, ge_Delays, Mods, Types, ge_MaxTime, ge_MaxCalls,
  null

\* The absence of a node is no number.
ASSUME FileAssumption == null \notin Nat

\* Positions are numbers, and so are the identifiers of cues.
ASSUME CueAssumption == Duration \in Nat /\ MaxCues \in Nat

\* What Generator takes for never, 99, is later than any time it is told.
ASSUME SoundingAssumption ==
  /\ ge_Kinds \subseteq {"osc", "noise", "pulse"} /\ ge_MaxTime \in Nat
  /\ ge_MaxTime + ge_MaxTime < 99
  /\ ge_Delays \subseteq Nat /\ \A d \in ge_Delays : ge_MaxTime + ge_MaxTime + d < 99

VARIABLES
  sf_buffer, sf_output, mode, looping, playing, paused, reversed, playbackRate, bufferSourceNode,
  bufferSourceNodes, sf_node, sf_calls, overlap, modes, failed,
  cues, cueIDCounter, prevUpdateTime, position, cu_plays, began, first, heard, since, fired,
  disturbed,
  ge_now, kind, ge_nodes, started, mathOps, dNode, _freqMods, disposed, ge_calls, due, threw

File == INSTANCE SoundFile WITH
  MaxNodes <- sf_MaxNodes, MaxCalls <- sf_MaxCalls, buffer <- sf_buffer, output <- sf_output,
  node <- sf_node, calls <- sf_calls

Cueing == INSTANCE Cues WITH
  plays <- cu_plays

Sounding == INSTANCE Generator WITH
  Kinds <- ge_Kinds, Delays <- ge_Delays, MaxTime <- ge_MaxTime, MaxCalls <- ge_MaxCalls,
  now <- ge_now, nodes <- ge_nodes, calls <- ge_calls

FileVars == <<sf_buffer, sf_output, mode, looping, playing, paused, reversed, playbackRate,
              bufferSourceNode, bufferSourceNodes, sf_node, sf_calls, overlap, modes, failed>>
CueingVars == <<cues, cueIDCounter, prevUpdateTime, position, cu_plays, began, first, heard,
                since, fired, disturbed>>
SoundingVars == <<ge_now, kind, ge_nodes, started, mathOps, dNode, _freqMods, disposed,
                  ge_calls, due, threw>>
-----------------------------------------------------------------------------
\* A file that says it is playing has a node whose `ended' is still to come (SoundFile).
PlayingHasNode == File!PlayingHasNode

\* A file played in one mode, restart or untildone, has one voice (SoundFile.play).
OneVoice == File!OneVoice

\* A file whose plays did not overlap is silent when it says it is not playing (SoundFile).
SilentWhenNotPlaying == File!SilentWhenNotPlaying

\* Such a file stops playing unless it loops (SoundFile, _clearOnEnd).
Finishes == File!Finishes

\* No cue is missed from the first report on, in order and without a throw (SoundFile._onTimeUpdate).
NoCueMissed == Cueing!NoCueMissed

\* A source plays while it is started, and nothing of it does after the stops (Oscillator, Noise,
\* Pulse).
SoundsAsTold == Sounding!SoundsAsTold
=============================================================================
