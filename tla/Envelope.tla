------------------------------ MODULE Envelope ------------------------------
(* A p5.Envelope: attack, decay, sustain and release of a level, scheduled as  *)
(* ramps of a Tone.TimelineSignal.  Of the level only what it is told to be is *)
(* kept: at rest, the peak of the attack, the level it is sustained at, or in  *)
(* between.  The signal remembers its latest events, to read the level from;   *)
(* what is heard is told by the AudioParam, which it tells the same.  A leg may *)
(* take no time, and then its level is jumped over.  The ramps are the linear   *)
(* ones: setExp, which makes them exponential, is left out.                     *)
EXTENDS Integers, Sequences, SequencesExt

CONSTANTS Times,      \* the attack times that may be set
          dTime, rTime,
          Second,     \* how many units of time make a second
          Delays,     \* the delays a call may ask for
          Sustains,   \* the times of sustain
          Memory,     \* the events that a Tone.TimelineSignal remembers
          MaxTime,    \* bound on the time of the audio context
          MaxCalls    \* bound on the calls of the sketch

VARIABLES
  now,
  control,        \* [events, param]: the events remembered, and those of the AudioParam; each
                  \* [time, kind, level], in order of time
  aTime,
  wasTriggered,
  calls,
  last,           \* history: the time of the latest event of a call
  plays,          \* history: [peak, sustain, release], when each play is to get there
  orderly         \* history: every call was for after all events of those before, or for the
                  \* very time of the last, with a first leg that takes time

vars == <<now, control, aTime, wasTriggered, calls, last, plays, orderly>>

Levels == {"rest", "sustain", "peak", "between"}
Rank(level) == CASE level = "rest" -> 0 [] level = "sustain" -> 1 [] level = "peak" -> 2

-----------------------------------------------------------------------------
\* Timeline: how many events are not after t (_search), an event added after those of its time, all
\* from t cancelled (times are whole), and the oldest forgotten.
Before(s, t) == CHOOSE k \in 0..Len(s) : /\ k < Len(s) => t < s[k + 1].time
                                         /\ k > 0 => s[k].time <= t
Add(s, t, kind, level) ==
  InsertAt(s, Before(s, t) + 1, [time |-> t, kind |-> kind, level |-> level])
Cancel(s, t) == SubSeq(s, 1, Before(s, t - 1))
Remembered(s) == IF Len(s) > Memory THEN Tail(s) ELSE s

\* TimelineSignal: linearRampToValueAtTime or setTargetAtTime, and cancelScheduledValues.
Told(c, t, kind, level) == [events |-> Remembered(Add(c.events, t, kind, level)),
                            param  |-> Add(c.param, t, kind, level)]
Cancelled(c, t) == [events |-> Cancel(c.events, t), param |-> Cancel(c.param, t)]

\* getValueAtTime: a target is approached from its time on; a ramp comes from the event before it.
ValueAt(s, t) ==
  LET i == Before(s, t) IN
    IF i = 0 THEN "rest"
    ELSE IF s[i].kind = "target"
         THEN LET from == IF i = 1 THEN "rest" ELSE s[i - 1].level
              IN IF from = s[i].level \/ s[i].time = t THEN from ELSE "between"
    ELSE IF i < Len(s) /\ s[i + 1].kind = "ramp" /\ s[i].time < t /\ s[i].level /= s[i + 1].level
         THEN "between"
    ELSE s[i].level

\* One leg of an attack or a release: ramp to the level at t, which cancels what is from t on.
Leg(c, t, level) ==
  LET ramped == Told(c, t, "ramp", level)
  IN Told(Cancelled(ramped, t), t, "ramp", ValueAt(ramped.events, t))

\* The level at t is held.
Held(c, t) == Told(c, t, "ramp", ValueAt(c.events, t))

\* Mutant: the decay is counted from the trigger.
MutantAttacked(c, t) == Leg(Leg(Held(c, t), t + aTime, "peak"), t + dTime, "sustain")

\* triggerAttack at t.
Attacked(c, t) == Leg(Leg(Held(c, t), t + aTime, "peak"), t + aTime + dTime, "sustain")

\* triggerRelease at t.
Released(c, t) == Leg(Held(c, t), t + rTime, "rest")

\* _init
Init == /\ now = 0 /\ aTime \in Times
        /\ control = Told([events |-> <<>>, param |-> <<>>], 0, "target", "rest")
        /\ wasTriggered = FALSE
        /\ calls = 0 /\ last = 0 /\ plays = {} /\ orderly = TRUE

\* A call for events from t to end, in order when ok holds.
Called(ok, end) == /\ calls < MaxCalls /\ calls' = calls + 1
                   /\ orderly' = (orderly /\ ok)
                   /\ last' = IF last < end THEN end ELSE last
                   /\ UNCHANGED now

\* A call for t, the first leg of which takes the time given, is for after all events.
InOrder(t, leg) == last < t \/ (last = t /\ leg > 0)

TriggerAttack(d) == /\ control' = Attacked(control, now + d)
                    /\ wasTriggered' = TRUE
                    /\ Called(InOrder(now + d, aTime), now + d + aTime + dTime)
                    /\ UNCHANGED <<aTime, plays>>

TriggerRelease(d) == /\ wasTriggered
                     /\ control' = Released(control, now + d)
                     /\ wasTriggered' = FALSE
                     /\ Called(InOrder(now + d, rTime), now + d + rTime)
                     /\ UNCHANGED <<aTime, plays>>

\* play: the time of sustain loses its fraction of a second.
Play(d, susTime) ==
  LET t == now + d
      release == t + aTime + dTime + Second * (susTime \div Second)
  IN /\ control' = Released(Attacked(control, t), release)
     /\ wasTriggered' = FALSE
     /\ plays' = plays \cup {[peak |-> t + aTime, sustain |-> t + aTime + dTime,
                              release |-> release + rTime]}
     /\ Called(InOrder(t, aTime), release + rTime)
     /\ UNCHANGED aTime

\* Where the level may be when a ramp to v begins: above v, at it, or below.
Ways(c, t, v) ==
  LET from == ValueAt(c.events, t) IN
    {w \in {"over", "at", "under"} :
       from /= "between" => w = IF from = v THEN "at" ELSE IF Rank(from) > Rank(v) THEN "over"
                                ELSE "under"}

\* The leg of a ramp to v, and when it gets there; nothing is cancelled.
RampedTo(c, t, v, w) == IF w = "at" THEN c ELSE Told(c, t, "target", v)
RampEnd(t, w) == CASE w = "at" -> t [] w = "over" -> t + dTime [] w = "under" -> t + aTime

\* ramp to v1, then to v2; one that is v1, or none, changes nothing more.
Ramp(d, v1, v2) ==
  LET t == now + d IN
    \E w \in Ways(control, t, v1) :
      LET first == RampedTo(control, t, v1, w)
          end   == RampEnd(t, w)
      IN /\ control' = IF v1 /= v2 THEN Told(first, end, "target", v2) ELSE first
         /\ Called(last < t, end)
         /\ UNCHANGED <<aTime, wasTriggered, plays>>

\* MonoSynth.triggerAttack and triggerRelease at t: its envelope ramps to the velocity, or to none.
MonoSynthAttacked(c, t, w) == RampedTo(c, t, "peak", w)
MonoSynthReleased(c, t, w) == RampedTo(c, t, "rest", w)

\* MonoSynth.play: both, after a delay that loses its fraction of a second.
MonoSynthPlay(d, susTime) ==
  LET t == now + Second * (d \div Second)
      release == t + susTime
  IN \E w \in Ways(control, t, "peak") :
       LET attacked == MonoSynthAttacked(control, t, w) IN
         \E v \in Ways(attacked, release, "rest") :
           /\ control' = MonoSynthReleased(attacked, release, v)
           /\ Called(last < t, RampEnd(release, v))
           /\ UNCHANGED <<aTime, wasTriggered, plays>>

\* set and setADSR, of which the time of the attack stands for all.
SetADSR(a) == /\ aTime' = a
              /\ calls < MaxCalls /\ calls' = calls + 1
              /\ UNCHANGED <<now, control, wasTriggered, last, plays, orderly>>

Advance == /\ now < MaxTime
           /\ now' = now + 1
           /\ UNCHANGED <<control, aTime, wasTriggered, calls, last, plays, orderly>>

Next == \/ \E d \in Delays : TriggerAttack(d) \/ TriggerRelease(d)
        \/ \E d \in Delays, susTime \in Sustains : Play(d, susTime) \/ MonoSynthPlay(d, susTime)
        \/ \E d \in Delays, v1, v2 \in {"rest", "peak"} : Ramp(d, v1, v2)
        \/ \E a \in Times : SetADSR(a)
        \/ Advance

Spec == Init /\ [][Next]_vars
-----------------------------------------------------------------------------
\* The variables have the types the methods give them.
TypeOK ==
  /\ now \in 0..MaxTime /\ aTime \in Times /\ calls \in 0..MaxCalls /\ last \in Nat
  /\ {control.events, control.param}
       \subseteq Seq([time : Nat, kind : {"ramp", "target"}, level : Levels])
  /\ Len(control.events) <= Memory
  /\ plays \subseteq [peak : Nat, sustain : Nat, release : Nat]
  /\ {wasTriggered, orderly} \subseteq BOOLEAN

\* When each call is for after all that was scheduled, every play is heard with its shape, whatever
\* is scheduled after it and forgotten: the level is the peak at the end of its attack, if a decay
\* follows; the sustain level at the end of its decay, if it is not at rest by then; and at rest at
\* the end of its release.
PlaysKeepShape ==
  orderly =>
    \A p \in plays : /\ p.peak < p.sustain => ValueAt(control.param, p.peak) = "peak"
                     /\ p.sustain < p.release => ValueAt(control.param, p.sustain) = "sustain"
                     /\ ValueAt(control.param, p.release) = "rest"
=============================================================================
