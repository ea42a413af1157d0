CONSTANTS
  Targets = {t1, t2}
  Repeats = 1
  MaxExtra = 1
  MaxReports = 3
  gap = gap
  off = off
  undefined = undefined
  Loops = {l1, l2}
  maxIterations = 2
  Ahead = 2
  lp_Delays = {0, 2}
  Intervals <- LoopIntervals
  Tempos = {60}
  Second = 2
  lp_MaxTime = 2
  lp_MaxCalls = 3
  N = 2
  lo_Names = {a}
  Lengths = {1, 2, 3}
  Wrap = 6
  MaxPhrases = 2
  lo_MaxCalls = 2
  MaxLate = 1
  sf_MaxNodes = 3
  sf_MaxCalls = 2
  Duration = 3
  MaxCues = 2
  MaxPlays = 2
  Files = {f1, f2}
  ld_Given <- FilesGiven
  Formats <- FormatsGiven
  Supported = {"ogg"}
  Dotted = {b}
  ld_MaxLoads = 2
  Notes = {a, b, z}
  ps_maxVoices = 2
  Memory = 3
  ps_Delays = {0, 1}
  ps_MaxTime = 1
  ps_MaxCalls = 4
  en_Times = {0, 2}
  dTime = 1
  rTime = 0
  en_Delays = {0, 4}
  Sustains = {1, 3}
  en_MaxTime = 1
  en_MaxCalls = 3
  gr_Kinds <- GraphKinds
  MaxObjects = 5
  gr_MaxCalls = 2
  EQBands = 3
  gr_maxVoices = 1
  ge_Kinds = {"osc", "noise", "pulse"}
  ge_Delays = {0, 2}
  Mods = {a}
  Types = {"add", "mult"}
  ge_MaxTime = 2
  ge_MaxCalls = 4
  Units = {main, a}
  Durations = {1}
  MaxBuffers = 2
  re_MaxCalls = 3
  Devices = {a, b}
  Default = z
  MaxStreams = 3
  ai_MaxCalls = 2
  Energies = {0, 1, 2, 3, 4}
  threshold = 1
  framesPerPeak = 2
  sensitivity = 2
  Unit = 100
  cv_Names = {a, b}
  cv_MaxNodes = 7
  cv_MaxLoads = 3
  cv_MaxCalls = 2
  a = a
  b = b
  none = none
  main = main
  samples = samples
  computed = computed
  NaN = NaN
  array = array
  null = none
  gr_main = main
SPECIFICATION PageSpec
INVARIANTS
  PageTypeOK EveryTrialOnce ResultsOfATest
  CallsLimited SyncedTogether PhrasesInStep
  PlayingHasNode OneVoice SilentWhenNotPlaying NoCueMissed
  OwnVoices  Registered Audible SoundsAsTold OwnRecording NoneLeftOn OneImpulse
PROPERTIES
  StoppedIsQuiet DetectionsApart QuietAfterDispose PartEnds Finishes SketchStarts
CHECK_DEADLOCK FALSE
