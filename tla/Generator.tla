----------------------------- MODULE Generator -----------------------------
(* An Oscillator, a Noise or a Pulse of p5.sound as a source that is started  *)
(* and stopped: the nodes of the browser it makes for that, how long each     *)
(* sounds and whether it is still wired to the output.  Frequencies, widths   *)
(* and levels are left out, and so is the direct current a Pulse adds.        *)
EXTENDS Naturals, Sequences, SequencesExt, FiniteSets

CONSTANTS Kinds,      \* among "osc", "noise" and "pulse"
          Delays,     \* the delays a call may ask for
          Mods,       \* what a frequency can be modulated by
          Types,      \* of arithmetic: add, mult, scale
          MaxTime,    \* bound on the time of the audio context
          MaxCalls    \* bound on the calls of the sketch

VARIABLES
  now,
  kind,
  nodes,       \* in the order they were made: [voice, from, until, to, mods]
  started,
  mathOps,     \* the types of the arithmetic between the oscillator and the output
  dNode,       \* there is a delay for the phase (of a Pulse, for the width)
  _freqMods,   \* what an Oscillator is modulated by; of a Pulse freqMod, the latest
  disposed,
  calls,
  due,         \* history: when what was stopped is to be silent
  threw        \* history: a call of add, mult or scale threw

vars == <<now, kind, nodes, started, mathOps, dNode, _freqMods, disposed, calls, due, threw>>

Never == 99    \* later than any time here

Node(voice, from, mods) == [voice |-> voice, from |-> from, until |-> Never, to |-> "output",
                            mods |-> mods]

\* this.oscillator or this.noise, and of a Pulse osc2.oscillator too: the latest made of each voice.
Current(s) == {i \in DOMAIN s : \A j \in DOMAIN s : s[j].voice = s[i].voice => j <= i}

EndedAt(s, t) == [i \in DOMAIN s |->
                    IF i \in Current(s) /\ t < s[i].until THEN [s[i] EXCEPT !.until = t] ELSE s[i]]

\* The object's own oscillator is disconnected, and connected to what is given.
Wired(s, to) == [i \in DOMAIN s |->
                   IF i \in Current(s) /\ s[i].voice = "own" THEN [s[i] EXCEPT !.to = to] ELSE s[i]]

\* The constructors: oscillators are made that start never starts.
Init == /\ now = 0 /\ kind \in Kinds
        /\ nodes = CASE kind = "osc" -> <<Node("own", Never, {})>>
                     [] kind = "noise" -> <<>>
                     [] kind = "pulse" -> <<Node("own", Never, {}), Node("osc2", Never, {})>>
        /\ started = FALSE /\ mathOps = <<>> /\ dNode = (kind = "pulse") /\ _freqMods = {}
        /\ disposed = FALSE /\ calls = 0 /\ due = 0 /\ threw = FALSE

Call == ~disposed /\ calls < MaxCalls /\ calls' = calls + 1

-----------------------------------------------------------------------------
\* Mutant: the oscillator stopped for the new one stays connected.
MutantOscillatorStarted(d) ==
  Append(IF started THEN EndedAt(nodes, now + now) ELSE nodes, Node("own", now + d, _freqMods))

\* Oscillator.start: one that was started is stopped at twice the present time, but disconnected at
\* once; the new one is connected to the output, past any delay and arithmetic.
OscillatorStarted(d) ==
  Append(Wired(IF started THEN EndedAt(nodes, now + now) ELSE nodes, "none"),
         Node("own", now + d, _freqMods))

\* Noise.start, whatever delay it is given.
NoiseStarted == Append(IF started THEN EndedAt(nodes, now) ELSE nodes, Node("own", now, {}))

\* Pulse.start: the second oscillator is given the time of the context as a delay.
PulseStarted(d) == nodes \o <<Node("own", now + d, {}), Node("osc2", now + d + now, {})>>

Start(d) ==
  /\ kind = "pulse" => ~started
  /\ nodes' = CASE kind = "osc" -> OscillatorStarted(d)
                [] kind = "noise" -> NoiseStarted
                [] kind = "pulse" -> PulseStarted(d)
  /\ started' = TRUE
  /\ due' = IF kind = "noise" THEN now ELSE due
  /\ Call
  /\ UNCHANGED <<now, kind, mathOps, dNode, _freqMods, disposed, threw>>

\* Oscillator.stop; of a Pulse, of both its oscillators.
Stop(d) ==
  /\ kind /= "noise" /\ started
  /\ nodes' = EndedAt(nodes, now + d)
  /\ started' = FALSE
  /\ due' = IF kind = "pulse" /\ now + d < due THEN due ELSE now + d
  /\ Call
  /\ UNCHANGED <<now, kind, mathOps, dNode, _freqMods, disposed, threw>>

\* Noise.stop, whatever delay it is given.
StopNoise ==
  /\ kind = "noise" /\ nodes /= <<>>
  /\ nodes' = EndedAt(nodes, now)
  /\ started' = FALSE /\ due' = now
  /\ Call
  /\ UNCHANGED <<now, kind, mathOps, dNode, _freqMods, disposed, threw>>

\* Noise.setType: one that was started is stopped and started again.
SetType ==
  /\ kind = "noise" /\ started
  /\ nodes' = NoiseStarted /\ due' = now
  /\ Call
  /\ UNCHANGED <<now, kind, started, mathOps, dNode, _freqMods, disposed, threw>>

\* freq of a modulator: an Oscillator keeps it for the oscillators to come, a Pulse does not, but
\* takes it off what it modulated.
Modulate(m) ==
  /\ kind /= "noise"
  /\ nodes' = [i \in DOMAIN nodes |->
                 [nodes[i] EXCEPT !.mods = IF i \in Current(nodes) THEN @ \cup {m}
                                           ELSE IF kind = "pulse" THEN @ \ {m} ELSE @]]
  /\ _freqMods' = IF kind = "osc" THEN _freqMods \cup {m} ELSE {m}
  /\ Call
  /\ UNCHANGED <<now, kind, started, mathOps, dNode, disposed, due, threw>>

\* freq of a number takes the modulator off a Pulse.
SetFreq ==
  /\ kind = "pulse"
  /\ nodes' = [i \in DOMAIN nodes |-> [nodes[i] EXCEPT !.mods = @ \ _freqMods]]
  /\ _freqMods' = {}
  /\ Call
  /\ UNCHANGED <<now, kind, started, mathOps, dNode, disposed, due, threw>>

Phase ==
  /\ kind /= "noise"
  /\ nodes' = IF dNode THEN nodes ELSE Wired(nodes, "dNode")
  /\ dNode' = TRUE
  /\ Call
  /\ UNCHANGED <<now, kind, started, mathOps, _freqMods, disposed, due, threw>>

\* sigChain: the oscillator goes through the first operation, the last one through the new one.  For
\* one of a type there is already it throws, once the oscillator is disconnected: the last is no
\* longer there to be connected, or the next is looked up at a string.  (After that the chain is
\* not touched again here.)
Arithmetic(type) ==
  LET again == Contains(mathOps, type)
  IN /\ kind /= "noise" /\ ~threw
     /\ nodes' = IF again THEN Wired(nodes, "none")
                 ELSE IF mathOps = <<>> THEN Wired(nodes, "ops") ELSE nodes
     /\ mathOps' = IF again THEN mathOps ELSE Append(mathOps, type)
     /\ threw' = again
     /\ Call
     /\ UNCHANGED <<now, kind, started, dNode, _freqMods, disposed, due>>

\* dispose: an oscillator is stopped at twice the present time, but its panner disconnected at once.
Dispose ==
  /\ nodes' = LET t == IF kind = "noise" THEN now ELSE now + now
                  ended == IF started THEN EndedAt(nodes, t) ELSE nodes
              IN [i \in DOMAIN nodes |-> [ended[i] EXCEPT !.to = "none"]]
  /\ started' = FALSE /\ disposed' = TRUE
  /\ Call
  /\ UNCHANGED <<now, kind, mathOps, dNode, _freqMods, due, threw>>

Advance == /\ now < MaxTime
           /\ now' = now + 1
           /\ UNCHANGED <<kind, nodes, started, mathOps, dNode, _freqMods, disposed, calls, due,
                          threw>>

Next == \/ \E d \in Delays : Start(d) \/ Stop(d)
        \/ StopNoise \/ SetType \/ SetFreq \/ Phase \/ Dispose
        \/ \E m \in Mods : Modulate(m)
        \/ \E type \in Types : Arithmetic(type)
        \/ Advance

Spec == Init /\ [][Next]_vars
-----------------------------------------------------------------------------
\* The variables have the types the methods give them.
TypeOK ==
  /\ now \in 0..MaxTime /\ kind \in Kinds /\ calls \in 0..MaxCalls /\ due \in 0..Never
  /\ nodes \in Seq([voice : {"own", "osc2"}, from : 0..Never, until : 0..Never,
                    to : {"output", "dNode", "ops", "none"}, mods : SUBSET Mods])
  /\ mathOps \in Seq(Types) /\ _freqMods \subseteq Mods
  /\ {started, dNode, disposed, threw} \subseteq BOOLEAN

\* However its calls, their delays and the changes of its wiring follow each other, unless one
\* threw: a source that is started has just its latest oscillators (the one noise) playing on
\* without end, and one that is not has none; whatever else is still wired is silent when the stops asked for it
\* (of a Pulse, whose old oscillators stay connected, the latest of them); and an Oscillator's is
\* modulated by all that it was told to be.
SoundsAsTold ==
  LET wired == {i \in DOMAIN nodes : nodes[i].from /= Never /\ nodes[i].to /= "none"}
      unended == {i \in wired : nodes[i].until = Never}
  IN /\ ~threw => unended = IF started THEN Current(nodes) ELSE {}
     /\ \A i \in wired \ unended : nodes[i].until <= due
     /\ kind = "osc" => \A i \in Current(nodes) : nodes[i].mods = _freqMods
     /\ disposed => wired = {}
=============================================================================
