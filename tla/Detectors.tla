----------------------------- MODULE Detectors -----------------------------
(* A sketch that updates a p5.PeakDetect and a p5.OnsetDetect in every frame it *)
(* draws, with the energy of the spectrum.  The cutoff of the one follows the   *)
(* peaks and decays; the other waits for a timer after each onset.              *)
EXTENDS Integers

CONSTANTS Energies,       \* of a frame, natural numbers
          threshold,      \* of both
          framesPerPeak,
          sensitivity,    \* of the OnsetDetect, in frames
          Unit,           \* the cutoff is kept in parts of an energy
          none

VARIABLES
  cutoff, framesSinceLastPeak, penergy, peakDetected,   \* PeakDetect
  onsetDetected, timer,                                 \* OnsetDetect; its penergy is the same
  peak,           \* history: the energy of the last peak, 0 before the first
  sincePeak,      \* history: the frames without one since, at most framesPerPeak + 2
  sinceOnset      \* history: the frames since the last onset, at most sensitivity

peakVars == <<cutoff, framesSinceLastPeak, peakDetected, peak, sincePeak>>
onsetVars == <<onsetDetected, timer, sinceOnset>>
vars == <<peakVars, onsetVars, penergy>>

Least(m, n) == IF m < n THEN m ELSE n
Largest(m, n) == IF m < n THEN n ELSE m
-----------------------------------------------------------------------------
PeakInit == /\ cutoff = 0 /\ framesSinceLastPeak = 0 /\ peakDetected = FALSE
            /\ peak = 0 /\ sincePeak = framesPerPeak + 2

OnsetInit == onsetDetected = FALSE /\ timer = none /\ sinceOnset = sensitivity

Init == PeakInit /\ OnsetInit /\ penergy = 0

\* A peak is louder than the cutoff, the threshold and the frame before, and sets the cutoff.
Peak(nrg) == /\ Unit * nrg > cutoff /\ nrg > threshold /\ nrg > penergy
             /\ peakDetected' = TRUE
             /\ cutoff' = (Unit * nrg * 3) \div 2
             /\ framesSinceLastPeak' = 0
             /\ peak' = nrg /\ sincePeak' = 0

\* Mutant: the frames are counted up to framesPerPeak only.
MutantNoPeak(nrg) ==
  /\ ~(Unit * nrg > cutoff /\ nrg > threshold /\ nrg > penergy)
  /\ peakDetected' = FALSE
  /\ IF framesSinceLastPeak < framesPerPeak
     THEN framesSinceLastPeak' = framesSinceLastPeak + 1 /\ UNCHANGED cutoff
     ELSE /\ cutoff' = Largest((cutoff * 95) \div 100, Unit * threshold)
          /\ UNCHANGED framesSinceLastPeak
  /\ sincePeak' = Least(sincePeak + 1, framesPerPeak + 2) /\ UNCHANGED peak

\* No peak: the frames are counted, and after those the cutoff decays, down to the threshold.
NoPeak(nrg) ==
  /\ ~(Unit * nrg > cutoff /\ nrg > threshold /\ nrg > penergy)
  /\ peakDetected' = FALSE
  /\ IF framesSinceLastPeak <= framesPerPeak
     THEN framesSinceLastPeak' = framesSinceLastPeak + 1 /\ UNCHANGED cutoff
     ELSE /\ cutoff' = Largest((cutoff * 95) \div 100, Unit * threshold)
          /\ UNCHANGED framesSinceLastPeak
  /\ sincePeak' = Least(sincePeak + 1, framesPerPeak + 2) /\ UNCHANGED peak

\* OnsetDetect.update: an onset is a rise by more than the threshold, when none is still detected.
Onset(nrg) ==
  IF ~onsetDetected /\ nrg - penergy > threshold
  THEN onsetDetected' = TRUE /\ timer' = sensitivity /\ sinceOnset' = 0
  ELSE /\ timer' = IF timer \in 1..sensitivity THEN timer - 1 ELSE timer
       /\ sinceOnset' = Least(sinceOnset + 1, sensitivity)
       /\ UNCHANGED onsetDetected

\* A frame is drawn: both are updated.
Draw(nrg) == /\ Peak(nrg) \/ NoPeak(nrg)
             /\ Onset(nrg)
             /\ penergy' = nrg

\* The browser fires the timer, in its time or later.
Timeout == /\ timer = 0 /\ timer' = none
           /\ onsetDetected' = FALSE
           /\ UNCHANGED <<peakVars, sinceOnset, penergy>>

Next == (\E nrg \in Energies : Draw(nrg)) \/ Timeout

Spec == Init /\ [][Next]_vars
-----------------------------------------------------------------------------
\* The variables have the types the updates give them.
TypeOK ==
  /\ cutoff \in Nat /\ framesSinceLastPeak \in 0..(framesPerPeak + 1)
  /\ {penergy, peak} \subseteq Energies \cup {0}
  /\ {peakDetected, onsetDetected} \subseteq BOOLEAN
  /\ timer \in 0..sensitivity \cup {none}
  /\ sincePeak \in 0..(framesPerPeak + 2) /\ sinceOnset \in 0..sensitivity

\* What the code keeps: a peak after framesPerPeak + 1 other frames or fewer is more than half as
\* loud again as the one before, and two onsets are no closer than the sensitivity, whatever the
\* energies and however late the timers.
DetectionsApart ==
  [][/\ \A nrg \in Energies : Peak(nrg) /\ sincePeak <= framesPerPeak + 1 => 2 * nrg > 3 * peak
     /\ onsetDetected' /\ ~onsetDetected => sinceOnset >= sensitivity]_vars

\* What the documentation of PeakDetect says: framesPerPeak "determines how many loops must pass
\* before another peak can be detected", however loud it is.
FramesBetweenPeaks ==
  [][\A nrg \in Energies : Peak(nrg) => sincePeak + 1 >= framesPerPeak]_vars
=============================================================================
