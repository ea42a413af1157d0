CONSTANTS
  Energies = {0, 1, 2, 3, 4}
  threshold = 1
  framesPerPeak = 2
  sensitivity = 2
  Unit = 100
  none = none
SPECIFICATION Spec
PROPERTY FramesBetweenPeaks
CHECK_DEADLOCK FALSE
