----------------------------- MODULE SoundGraph -----------------------------
(* The objects of p5.sound: how each is wired when it is made, what it is      *)
(* connected to, and what is left of it when it is disposed of.  All are kept  *)
(* in one array, soundArray, from which the page's end disposes of them.       *)
EXTENDS Naturals, Sequences, SequencesExt, FiniteSets

CONSTANTS Kinds,        \* the kinds of object the sketch makes
          MaxObjects,   \* bound on the objects, their parts among them
          MaxCalls,     \* bound on the other calls of the sketch
          EQBands,      \* 3 or 8
          maxVoices,    \* of a PolySynth
          main          \* the output of the page

VARIABLES
  objects,      \* by id: [kind, wires, to, parts, disposed]
  soundArray,   \* ids
  metered,      \* the meters that main.meter and main.fftMeter are connected to
  calls,
  twice,        \* history: something was disposed of twice
  given         \* history: a meter was given an input, its own or main again

vars == <<objects, soundArray, metered, calls, twice, given>>

Ids == DOMAIN objects
Effects == {"filter", "band", "eq", "panner3d", "delay", "reverb", "compressor", "distortion"}
Sources == {"osc", "noise", "pulse", "mono"}
Meters  == {"amplitude", "fft"}
AllKinds == Effects \cup Sources \cup Meters
              \cup {"gain", "envelope", "soundfile", "recorder", "audioin", "poly"}

-----------------------------------------------------------------------------
\* The wires each constructor makes inside the object.
EffectWires == {<<"input", "drywet">>, <<"wet", "drywet">>, <<"drywet", "output">>}

FilterWires == EffectWires \cup {<<"input", "biquad">>, <<"biquad", "wet">>}

\* A band of an EQ is disconnected, which for a band is what its biquad is connected to.
BandWires == {w \in FilterWires : w[1] /= "biquad"}

Band(i) == <<"band1", "band2", "band3", "band4", "band5", "band6", "band7", "band8">>[i]

\* The bands of an EQ are chained from its input to its output, past the dry-wet fade.
EQWires == EffectWires \cup {<<"input", Band(1)>>, <<Band(EQBands), "output">>}
             \cup {<<Band(i), Band(i + 1)>> : i \in 1..(EQBands - 1)}

Panner3DWires == EffectWires \cup {<<"input", "panner">>, <<"panner", "output">>}
CompressorWires == EffectWires \cup {<<"input", "compressor">>, <<"compressor", "wet">>}
DistortionWires == EffectWires \cup {<<"input", "waveShaperNode">>, <<"waveShaperNode", "wet">>}
ReverbWires == EffectWires \cup {<<"input", "convolverNode">>, <<"convolverNode", "wet">>}

\* Mutant: the filters are not merged again.
MutantRewired(wires, type) ==
  {w \in wires : w[1] \notin {"split", "leftFilter", "rightFilter"}}
    \cup {<<"split", "leftDelay">>, <<"split", "rightDelay">>}
    \cup IF type = "pingPong" THEN {<<"leftFilter", "rightDelay">>, <<"rightFilter", "leftDelay">>}
         ELSE {<<"leftFilter", "leftDelay">>, <<"rightFilter", "rightDelay">>}

\* setType of a Delay: what its splitter and its filters feed is wired anew.
Rewired(wires, type) ==
  {w \in wires : w[1] \notin {"split", "leftFilter", "rightFilter"}}
    \cup {<<"split", "leftDelay">>, <<"split", "rightDelay">>,
          <<"leftFilter", "merge">>, <<"rightFilter", "merge">>}
    \cup IF type = "pingPong" THEN {<<"leftFilter", "rightDelay">>, <<"rightFilter", "leftDelay">>}
         ELSE {<<"leftFilter", "leftDelay">>, <<"rightFilter", "rightDelay">>}

DelayWires ==
  Rewired(EffectWires \cup {<<"input", "split">>, <<"leftDelay", "leftGain">>,
                            <<"rightDelay", "rightGain">>, <<"leftGain", "leftFilter">>,
                            <<"rightGain", "rightFilter">>, <<"merge", "wet">>}, "default")

OscillatorWires == {<<"oscillator", "output">>, <<"output", "panner">>}
NoiseWires == OscillatorWires
PulseWires == OscillatorWires \cup {<<"osc2", "dNode">>, <<"dNode", "output">>,
                                    <<"dcGain", "output">>}
MonoSynthWires == {<<"oscillator", "output">>}
GainWires == {<<"input", "output">>}
EnvelopeWires == {<<"control", "output">>}
SoundFileWires == {<<"output", "panner">>}
AmplitudeWires == {<<"input", "output">>}
RecorderWires == {<<"input", "workletNode">>, <<"input", "output">>}

Wires(k) == CASE k = "filter" -> FilterWires
              [] k = "band" -> BandWires
              [] k = "eq" -> EQWires
              [] k = "panner3d" -> Panner3DWires
              [] k = "delay" -> DelayWires
              [] k = "reverb" -> ReverbWires
              [] k = "compressor" -> CompressorWires
              [] k = "distortion" -> DistortionWires
              [] k = "osc" -> OscillatorWires
              [] k = "noise" -> NoiseWires
              [] k = "pulse" -> PulseWires
              [] k = "mono" -> MonoSynthWires
              [] k = "gain" -> GainWires
              [] k = "envelope" -> EnvelopeWires
              [] k = "soundfile" -> SoundFileWires
              [] k = "amplitude" -> AmplitudeWires
              [] k = "recorder" -> RecorderWires
              [] OTHER -> {}

\* Where each is connected to when it is made: the output of the page, or nowhere yet.
ConnectedTo(k) == IF k \in (Effects \ {"band"}) \cup Sources \cup {"soundfile", "poly"}
                  THEN {main} ELSE {}

-----------------------------------------------------------------------------
\* Objects made by one constructor, those it makes for itself among them, the first with id n.
Object(k, to, parts) == [kind |-> k, wires |-> Wires(k), to |-> to, parts |-> parts,
                         disposed |-> FALSE]

Lone(k) == <<Object(k, ConnectedTo(k), <<>>)>>

\* The filters of a Delay and the other oscillator of a Pulse feed only what they are part of.
WithParts(k, part, n, count) ==
  <<Object(k, ConnectedTo(k), [i \in 1..count |-> n + i])>>
    \o [i \in 1..count |-> Object(part, {}, <<>>)]

MonoSynth(n, to) == <<Object("mono", to, <<n + 2, n + 1>>),
                      Object("osc", {}, <<>>), Object("envelope", {}, <<>>)>>

\* _allocateVoices: the voices are taken off the page's output and connected to the synth's.
PolySynth(n) == <<Object("poly", {main}, [i \in 1..maxVoices |-> n + 3 * i - 2])>>
                  \o FlattenSeq([i \in 1..maxVoices |-> MonoSynth(n + 3 * i - 2, {n})])

Made(k, n) == CASE k = "delay" -> WithParts(k, "filter", n, 2)
                [] k = "eq" -> WithParts(k, "band", n, EQBands)
                [] k = "pulse" -> WithParts(k, "osc", n, 1)
                [] k = "audioin" -> WithParts(k, "amplitude", n, 1)
                [] k = "mono" -> MonoSynth(n, {main})
                [] k = "poly" -> PolySynth(n)
                [] OTHER -> Lone(k)

\* The order they are put into the array in.  A MonoSynth is put there twice, by AudioVoice and
\* itself; an AudioIn after its Amplitude.
Pushed(k, n) ==
  CASE k = "mono" -> <<n, n + 1, n + 2, n>>
    [] k = "poly" -> FlattenSeq([i \in 1..maxVoices |-> <<n + 3 * i - 2, n + 3 * i - 1, n + 3 * i,
                                                          n + 3 * i - 2>>]) \o <<n>>
    [] k = "audioin" -> <<n + 1, n>>
    [] OTHER -> [i \in DOMAIN Made(k, n) |-> n + i - 1]

New(k) ==
  LET n == Len(objects) + 1
      made == Made(k, n)
  IN /\ Len(objects) + Len(made) <= MaxObjects
     /\ objects' = objects \o made
     /\ soundArray' = soundArray \o Pushed(k, n)
     /\ metered' = metered \cup {n + i - 1 : i \in {j \in DOMAIN made : made[j].kind \in Meters}}
     /\ UNCHANGED <<calls, twice, given>>

\* The sketch has hold of what it made, not of their parts.
Held == {o \in Ids : \A p \in Ids : ~Contains(objects[p].parts, o)}

Call == calls < MaxCalls /\ calls' = calls + 1

\* connect of each kind: to an object its input, or the page's output.
Connect(o, u) ==
  /\ o \in Held /\ ~objects[o].disposed /\ objects[o].kind \notin {"fft", "recorder"}
  /\ u = main \/ (u \in Held \ {o} /\ ~objects[u].disposed
                      /\ objects[u].kind \in (Effects \cup {"gain", "recorder"}))
  /\ objects' = [objects EXCEPT ![o].to = @ \cup {u}]
  /\ Call
  /\ UNCHANGED <<soundArray, metered, twice, given>>

\* disconnect: an Oscillator connects its output to its panner again, an AudioIn its to its Amplitude.
Disconnect(o) ==
  /\ o \in Held /\ ~objects[o].disposed /\ objects[o].to /= {}
  /\ objects' = [objects EXCEPT ![o].to = {}]
  /\ Call
  /\ UNCHANGED <<soundArray, metered, twice, given>>

\* setType of a Delay.
SetType(o, type) ==
  /\ o \in Held /\ objects[o].kind = "delay" /\ ~objects[o].disposed
  /\ objects' = [objects EXCEPT ![o].wires = Rewired(@, type)]
  /\ Call
  /\ UNCHANGED <<soundArray, metered, twice, given>>

\* phase of an Oscillator: it now goes through a delay, dNode.
Phase(o) ==
  /\ o \in Held /\ objects[o].kind = "osc" /\ ~objects[o].disposed
  /\ objects' = [objects EXCEPT ![o].wires = {w \in @ : w[1] /= "oscillator"}
                                   \cup {<<"oscillator", "dNode">>, <<"dNode", "output">>}]
  /\ Call
  /\ UNCHANGED <<soundArray, metered, twice, given>>

\* start of an Oscillator: a new one is wired to the output, past the delay of its phase.
Start(o) ==
  /\ o \in Held /\ objects[o].kind = "osc" /\ ~objects[o].disposed
  /\ objects' = [objects EXCEPT ![o].wires = {w \in @ : w[1] /= "oscillator"}
                                   \cup {<<"oscillator", "output">>}]
  /\ Call
  /\ UNCHANGED <<soundArray, metered, twice, given>>

\* setInput of an Amplitude: main.meter is taken off every meter there is.
SetAmplitudeInput(o, toMain) ==
  /\ o \in Held /\ objects[o].kind = "amplitude" /\ ~objects[o].disposed
  /\ metered' = {m \in metered : objects[m].kind = "fft"} \cup IF toMain THEN {o} ELSE {}
  /\ given' = TRUE
  /\ Call
  /\ UNCHANGED <<objects, soundArray, twice>>

\* setInput of an FFT: main.fftMeter is taken off every FFT when this one gets another source.
SetFFTInput(o, toMain) ==
  /\ o \in Held /\ objects[o].kind = "fft" /\ ~objects[o].disposed
  /\ metered' = IF toMain THEN metered \cup {o} ELSE {m \in metered : objects[m].kind /= "fft"}
  /\ given' = TRUE
  /\ Call
  /\ UNCHANGED <<objects, soundArray, twice>>

-----------------------------------------------------------------------------
\* splice(indexOf(o), 1): what is not in the array is at -1, the last place.
Spliced(array, o) == IF Contains(array, o) THEN RemoveFirst(array, o)
                     ELSE IF array = <<>> THEN <<>> ELSE Front(array)

\* What the dispose of o splices out of the array, in order, when those of dead were disposed of.
\* A MonoSynth and a PolySynth leave themselves there, an AudioIn its Amplitude; a Delay's filters
\* and an EQ's bands are gone the second time.
MonoSynthSplices(o) == objects[o].parts

\* Mutant: of the voices the parts are left.
MutantPolySynthSplices(o) == objects[o].parts

PolySynthSplices(o) ==
  LET voices == objects[o].parts IN FlattenSeq([i \in DOMAIN voices |-> MonoSynthSplices(voices[i])])
Splices(o, dead) ==
  LET k == objects[o].kind
      parts == objects[o].parts
  IN CASE k = "mono" -> MonoSynthSplices(o)
       [] k = "poly" -> PolySynthSplices(o)
       [] k = "eq" -> <<o>> \o IF o \in dead THEN <<>> ELSE Reverse(parts)
       [] k = "delay" -> <<o>> \o IF o \in dead THEN <<>> ELSE parts
       [] k = "pulse" -> <<o>> \o parts
       [] OTHER -> <<o>>

\* The objects that the dispose of o disposes of.
DisposedWith(o) ==
  LET parts == Range(objects[o].parts)
  IN {o} \cup CASE objects[o].kind = "poly" -> parts \cup UNION {Range(objects[v].parts) : v \in parts}
                [] objects[o].kind = "audioin" -> {}
                [] OTHER -> parts

\* The page's state, for what disposes of several objects.
Page == [dead |-> {o \in Ids : objects[o].disposed}, array |-> soundArray, twice |-> twice,
         throws |-> FALSE]

\* An Amplitude's node and a Delay's are gone the second time, which throws.
DisposedOf(s, o) ==
  [dead |-> s.dead \cup DisposedWith(o),
   array |-> FoldLeft(Spliced, s.array, Splices(o, s.dead)),
   twice |-> s.twice \/ DisposedWith(o) \cap s.dead /= {},
   throws |-> o \in s.dead /\ objects[o].kind \in {"amplitude", "delay"}]

\* What is disconnected is no longer wired to anything; what stays wired feeds nothing.
Becomes(s) == /\ objects' = [o \in Ids |-> IF o \in s.dead
                                           THEN [objects[o] EXCEPT !.disposed = TRUE, !.wires = {},
                                                                   !.to = {}]
                                           ELSE objects[o]]
              /\ soundArray' = s.array
              /\ metered' = metered \ s.dead
              /\ twice' = s.twice

Dispose(o) == /\ o \in Held
              /\ Becomes(DisposedOf(Page, o))
              /\ Call
              /\ UNCHANGED given

\* disposeSound, at the page's end: the array is gone through by index while each dispose takes out
\* of it, which passes over the one that follows.
DisposeSound ==
  LET length == Len(soundArray)
      at[i \in 0..length] ==
        IF i = 0 THEN Page
        ELSE LET s == at[i - 1] IN
          IF s.throws \/ i > Len(s.array) THEN s ELSE DisposedOf(s, s.array[i])
  IN /\ soundArray /= <<>>
     /\ Becomes(at[length])
     /\ Call
     /\ UNCHANGED given

Next == \/ \E k \in Kinds : New(k)
        \/ \E o \in Ids, u \in Ids \cup {main} : Connect(o, u)
        \/ \E o \in Ids : Disconnect(o) \/ Phase(o) \/ Start(o) \/ Dispose(o)
        \/ \E o \in Ids, type \in {"default", "pingPong"} : SetType(o, type)
        \/ \E o \in Ids, b \in BOOLEAN : SetAmplitudeInput(o, b) \/ SetFFTInput(o, b)
        \/ DisposeSound

Init == /\ objects = <<>> /\ soundArray = <<>> /\ metered = {}
        /\ calls = 0 /\ twice = FALSE /\ given = FALSE

Spec == Init /\ [][Next]_vars
-----------------------------------------------------------------------------
\* The nodes that b is reached from.
Reaching(wires, b) ==
  LET nodes == {w[1] : w \in wires} \cup {w[2] : w \in wires}
      R[i \in 0..Cardinality(nodes)] ==
        IF i = 0 THEN {b} ELSE LET r == R[i - 1] IN r \cup {w[1] : w \in {v \in wires : v[2] \in r}}
  IN R[Cardinality(nodes)]

\* Wires that carry sound: of a source to its output, of an effect from its input other than by the
\* dry half of its fade.
Carries(k, wires) ==
  CASE k \in Sources -> "oscillator" \in Reaching(wires, "output")
    [] k \in Effects -> "input" \in Reaching(wires \ {<<"input", "drywet">>}, "output")
    [] OTHER -> TRUE

AllCarryWhenMade == \A k \in AllKinds \ {"band"} : Carries(k, Wires(k))

\* The audio nodes that the wires are between.
AudioNodes == {"input", "drywet", "wet", "output", "biquad"}
  \cup {"band1", "band2", "band3", "band4", "band5"}
  \cup {"band6", "band7", "band8", "panner", "compressor"}
  \cup {"waveShaperNode", "convolverNode", "split", "leftDelay", "rightDelay"}
  \cup {"leftGain", "rightGain", "leftFilter", "rightFilter", "merge"}
  \cup {"oscillator", "osc2", "dNode", "dcGain", "control"} \cup {"workletNode"}

\* The variables have the types the constructors and methods give them.
TypeOK ==
  /\ \A o \in Ids : /\ objects[o].kind \in AllKinds
                    /\ objects[o].wires \subseteq AudioNodes \X AudioNodes
                    /\ objects[o].to \subseteq (Ids \cup {main}) \ {o}
                    /\ objects[o].parts \in Seq(Ids)
                    /\ objects[o].disposed \in BOOLEAN
  /\ Len(objects) <= MaxObjects /\ soundArray \in Seq(Ids) /\ metered \subseteq Ids
  /\ calls \in 0..MaxCalls /\ {twice, given} \subseteq BOOLEAN

\* As long as nothing was disposed of twice, the page's end finds in the array every object that was
\* not disposed of, parts included, and nothing of what was but the synths, which never leave it.
Registered ==
  ~twice => \A o \in Ids : IF objects[o].disposed
                           THEN Contains(soundArray, o) => objects[o].kind \in {"mono", "poly"}
                           ELSE Contains(soundArray, o)

\* Every kind carries sound when it is made, and whatever was done to it, one that the sketch holds
\* does as long as it is not disposed of; and every live meter hears the page until one of them is
\* given an input.
Audible ==
  /\ AllCarryWhenMade
  /\ \A o \in Held : ~objects[o].disposed => Carries(objects[o].kind, objects[o].wires)
  /\ ~given => {o \in Ids : objects[o].kind \in Meters /\ ~objects[o].disposed} \subseteq metered
=============================================================================
