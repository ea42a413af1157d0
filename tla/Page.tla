-------------------------------- MODULE Page --------------------------------
(* Pages that use the experiment or one part of the sound library.  The parts    *)
(* share no variable, so one run checks them side by side: a page uses one of    *)
(* them, and the others stay as they are.                                        *)
EXTENDS Bakeoff, Connections, Inputs, Sources, Music

VARIABLE page    \* the part of the library, or the experiment, that this page uses

pageVars == <<page, vars, LoopVars, LoopersVars, FileVars, CueingVars, LoadingVars, SynthVars,
              EnvVars, GraphVars, SoundingVars, RecorderVars, InputVars, DetectVars, ReverbsVars>>

Pages == {"bakeoff", "loop", "looper", "file", "cues", "load", "synth", "envelope", "graph",
          "source", "recorder", "input", "detectors", "reverb"}

PageInit == /\ page \in Pages
            /\ Init /\ Loop!Init /\ Loopers!Init /\ File!Init /\ Cueing!Init
            /\ Loading!Init /\ Synth!Init /\ Env!Init /\ Graph!Init
            /\ Sounding!Init /\ Recorder!Init /\ Input!Init /\ Detect!Init /\ Reverbs!Init
            \* A part the page does not use starts in one way only.
            /\ page /= "bakeoff" => portrait = FALSE /\ trials = CHOOSE s \in Orders : TRUE
            /\ page /= "looper" => scored = 0 /\ part[0].length = 0
            /\ page /= "envelope" => aTime = CHOOSE t \in en_Times : TRUE
            /\ page /= "reverb" => wanted = computed /\ ~set
            /\ page /= "source" => kind = CHOOSE k \in ge_Kinds : TRUE

PageNext == \/ /\ page = "bakeoff" /\ Next
               /\ UNCHANGED <<page, LoopVars, LoopersVars, FileVars, CueingVars, LoadingVars,
                              SynthVars, EnvVars, GraphVars, SoundingVars, RecorderVars,
                              InputVars, DetectVars, ReverbsVars>>
            \/ /\ page = "loop" /\ Loop!Next
               /\ UNCHANGED <<page, vars, LoopersVars, FileVars, CueingVars, LoadingVars,
                              SynthVars, EnvVars, GraphVars, SoundingVars, RecorderVars,
                              InputVars, DetectVars, ReverbsVars>>
            \/ /\ page = "looper" /\ Loopers!Next
               /\ UNCHANGED <<page, vars, LoopVars, FileVars, CueingVars, LoadingVars,
                              SynthVars, EnvVars, GraphVars, SoundingVars, RecorderVars,
                              InputVars, DetectVars, ReverbsVars>>
            \/ /\ page = "file" /\ File!Next
               /\ UNCHANGED <<page, vars, LoopVars, LoopersVars, CueingVars, LoadingVars,
                              SynthVars, EnvVars, GraphVars, SoundingVars, RecorderVars,
                              InputVars, DetectVars, ReverbsVars>>
            \/ /\ page = "cues" /\ Cueing!Next
               /\ UNCHANGED <<page, vars, LoopVars, LoopersVars, FileVars, LoadingVars,
                              SynthVars, EnvVars, GraphVars, SoundingVars, RecorderVars,
                              InputVars, DetectVars, ReverbsVars>>
            \/ /\ page = "load" /\ Loading!Next
               /\ UNCHANGED <<page, vars, LoopVars, LoopersVars, FileVars, CueingVars,
                              SynthVars, EnvVars, GraphVars, SoundingVars, RecorderVars,
                              InputVars, DetectVars, ReverbsVars>>
            \/ /\ page = "synth" /\ Synth!Next
               /\ UNCHANGED <<page, vars, LoopVars, LoopersVars, FileVars, CueingVars,
                              LoadingVars, EnvVars, GraphVars, SoundingVars, RecorderVars,
                              InputVars, DetectVars, ReverbsVars>>
            \/ /\ page = "envelope" /\ Env!Next
               /\ UNCHANGED <<page, vars, LoopVars, LoopersVars, FileVars, CueingVars,
                              LoadingVars, SynthVars, GraphVars, SoundingVars, RecorderVars,
                              InputVars, DetectVars, ReverbsVars>>
            \/ /\ page = "graph" /\ Graph!Next
               /\ UNCHANGED <<page, vars, LoopVars, LoopersVars, FileVars, CueingVars,
                              LoadingVars, SynthVars, EnvVars, SoundingVars, RecorderVars,
                              InputVars, DetectVars, ReverbsVars>>
            \/ /\ page = "source" /\ Sounding!Next
               /\ UNCHANGED <<page, vars, LoopVars, LoopersVars, FileVars, CueingVars,
                              LoadingVars, SynthVars, EnvVars, GraphVars, RecorderVars,
                              InputVars, DetectVars, ReverbsVars>>
            \/ /\ page = "recorder" /\ Recorder!Next
               /\ UNCHANGED <<page, vars, LoopVars, LoopersVars, FileVars, CueingVars,
                              LoadingVars, SynthVars, EnvVars, GraphVars, SoundingVars,
                              InputVars, DetectVars, ReverbsVars>>
            \/ /\ page = "input" /\ Input!Next
               /\ UNCHANGED <<page, vars, LoopVars, LoopersVars, FileVars, CueingVars,
                              LoadingVars, SynthVars, EnvVars, GraphVars, SoundingVars,
                              RecorderVars, DetectVars, ReverbsVars>>
            \/ /\ page = "detectors" /\ Detect!Next
               /\ UNCHANGED <<page, vars, LoopVars, LoopersVars, FileVars, CueingVars,
                              LoadingVars, SynthVars, EnvVars, GraphVars, SoundingVars,
                              RecorderVars, InputVars, ReverbsVars>>
            \/ /\ page = "reverb" /\ Reverbs!Next
               /\ UNCHANGED <<page, vars, LoopVars, LoopersVars, FileVars, CueingVars,
                              LoadingVars, SynthVars, EnvVars, GraphVars, SoundingVars,
                              RecorderVars, InputVars, DetectVars>>

\* The browser ends its nodes and answers its requests, and the metronomes tick.
PageFairness == /\ Loopers!Fairness
                /\ File!Fairness
                /\ \A f \in Files :
                     WF_LoadingVars(ld_requests[f] /= <<>> /\ Loading!Ends(f, 1))
                /\ WF_LoadingVars(page = "load" /\ Loading!Setup)

PageSpec == PageInit /\ [][PageNext]_pageVars /\ PageFairness
-----------------------------------------------------------------------------
\* The variables of the part in use have the types its code gives them, and the values in time of a
\* PolySynth are in order of time (see InOrderOfTime there).
PageTypeOK ==
  CASE page = "bakeoff" -> TypeOK
    [] page = "loop" -> Loop!TypeOK
    [] page = "looper" -> Loopers!TypeOK
    [] page = "file" -> File!TypeOK
    [] page = "cues" -> Cueing!TypeOK
    [] page = "load" -> Loading!TypeOK
    [] page = "synth" -> Synth!TypeOK /\ Synth!InOrderOfTime
    [] page = "envelope" -> Env!TypeOK
    [] page = "graph" -> Graph!TypeOK
    [] page = "source" -> Sounding!TypeOK
    [] page = "recorder" -> Recorder!TypeOK
    [] page = "input" -> Input!TypeOK
    [] page = "detectors" -> Detect!TypeOK
    [] page = "reverb" -> Reverbs!TypeOK

\* The sketch starts unless a load fails or a file is disposed of (loadSound).
SketchStarts == page = "load" => Loading!SketchStarts
=============================================================================
