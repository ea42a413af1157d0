------------------------------ MODULE Inputs ------------------------------
(* The parts of the library that hear, record and load: each waits for answers of *)
(* the browser, or for timers, and is told nothing of the others.                 *)
EXTENDS Integers, Sequences, FiniteSets

CONSTANTS
  Devices, Default, MaxStreams, ai_MaxCalls,
  Energies, threshold, framesPerPeak, sensitivity, Unit,
  Units, Durations, MaxBuffers, re_MaxCalls,
  cv_Names, cv_MaxNodes, cv_MaxLoads, cv_MaxCalls,
  ld_Given, Formats, Supported, Dotted, ld_MaxLoads,
  Files, none, main, samples, computed

\* The absence of a stream is no number of one, and the bounds are numbers.
ASSUME InputAssumption == none \notin Nat /\ MaxStreams \in Nat /\ ai_MaxCalls \in Nat

\* The parameters are natural numbers, and the absence of a timer is none.
ASSUME DetectAssumption ==
           /\ Energies \subseteq Nat /\ threshold \in Nat /\ framesPerPeak \in Nat
           /\ sensitivity \in Nat /\ Unit \in Nat \ {0} /\ none \notin Nat

\* The absence of a node is no number of one, and the bounds are numbers; the constructor may load.
ASSUME ReverbAssumption ==
  none \notin Nat /\ cv_MaxLoads \in Nat \ {0} /\ cv_MaxCalls \in Nat

\* No file is the absence of one, the page can be recorded, and a duration is a number.
ASSUME RecorderAssumption == none \notin Files /\ main \in Units /\ Durations \subseteq Nat

VARIABLES
  inputSources, currentSource, stream, ai_output, ai_requests, listing, streams, asked,
  ai_calls, on, crossings,
  cutoff, framesSinceLastPeak, penergy, peakDetected, onsetDetected, timer, peak, sincePeak,
  sinceOnset,
  _callback, input, files, toProcessor, toPage, recording, sampleLimit, leftBuffers, re_calls,
  takes, take, re_orderly,
  set, cv_nodes, convolverNode, impulses, ac, cv_requests, cv_loads, cv_calls, wanted, latest,
  ordered,
  extensions, url, ld_buffer, panner, ld_requests, preloads, setup, ld_loads, told, hopeless

Input == INSTANCE AudioIn WITH
  MaxCalls <- ai_MaxCalls, output <- ai_output, requests <- ai_requests, calls <- ai_calls

Detect == INSTANCE Detectors

Recorder == INSTANCE SoundRecorder WITH
  MaxCalls <- re_MaxCalls, calls <- re_calls, orderly <- re_orderly

Reverbs == INSTANCE Convolver WITH
  Names <- cv_Names, MaxNodes <- cv_MaxNodes, MaxLoads <- cv_MaxLoads, MaxCalls <- cv_MaxCalls,
  nodes <- cv_nodes, requests <- cv_requests, loads <- cv_loads, calls <- cv_calls

Loading == INSTANCE SoundLoad WITH
  Given <- ld_Given, MaxLoads <- ld_MaxLoads, buffer <- ld_buffer, requests <- ld_requests,
  loads <- ld_loads

InputVars == <<inputSources, currentSource, stream, ai_output, ai_requests, listing, streams,
               asked, ai_calls, on, crossings>>
DetectVars == <<cutoff, framesSinceLastPeak, penergy, peakDetected, onsetDetected, timer, peak,
                sincePeak, sinceOnset>>
RecorderVars == <<_callback, input, files, toProcessor, toPage, recording, sampleLimit,
                  leftBuffers, re_calls, takes, take, re_orderly>>
ReverbsVars == <<set, cv_nodes, convolverNode, impulses, ac, cv_requests, cv_loads, cv_calls,
                 wanted, latest, ordered>>
LoadingVars == <<extensions, url, ld_buffer, panner, ld_requests, preloads, setup, ld_loads,
                 told, hopeless>>
-----------------------------------------------------------------------------
\* Each call that crosses a request leaves one microphone on at most (AudioIn).
NoneLeftOn == Input!NoneLeftOn

\* Peaks soon after another are much louder, onsets are apart (PeakDetect, OnsetDetect).
DetectionsApart == Detect!DetectionsApart

\* A file holds a recording made for it, when each was waited for (SoundRecorder).
OwnRecording == Recorder!OwnRecording

\* Only the node that counts is connected and has the impulse asked for last, unless it failed or an
\* earlier one came late (Convolver).
OneImpulse == Reverbs!OneImpulse

\* A file that was disposed of gets no buffer from a load (SoundFile.load, dispose).
QuietAfterDispose == Loading!QuietAfterDispose
=============================================================================
