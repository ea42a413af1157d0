----------------------------- MODULE PolySynth -----------------------------
(* A p5.PolySynth gives each note it plays one of its voices.  How many voices *)
(* are in use is kept as values in time: a note that is scheduled for later    *)
(* counts from then on.  What a voice does with its note is left out.          *)
EXTENDS Integers, Sequences, SequencesExt, FiniteSets

CONSTANTS Notes,
          maxVoices,
          Memory,     \* the values in time that a Tone.TimelineSignal remembers
          Delays,     \* the delays a call may ask for
          MaxTime,    \* bound on the time of the audio context
          MaxCalls    \* bound on the calls of the sketch

VARIABLES
  now,
  notes,          \* of each note held its voice and the time it begins at
  _voicesInUse,   \* [time, value], in order of time
  sounding,       \* external: the notes each voice was told to attack, not yet to release
  calls,
  lastTime,       \* history: the latest time a call was for
  orderly         \* history: calls came in order of time, and a note was released when alone

vars == <<now, notes, _voicesInUse, sounding, calls, lastTime, orderly>>

Voices == 0..(maxVoices - 1)

Init == /\ now = 0
        /\ notes = [n \in {} |-> 0] /\ _voicesInUse = <<>>
        /\ sounding = [v \in Voices |-> {}]
        /\ calls = 0 /\ lastTime = 0 /\ orderly = TRUE

-----------------------------------------------------------------------------
\* Timeline._search: how many values are for t or before.
Before(s, t) == Cardinality({i \in DOMAIN s : s[i].time <= t})

\* getValueAtTime: the initial value is 0.
ValueAt(s, t) == IF Before(s, t) = 0 THEN 0 ELSE s[Before(s, t)].value

\* Mutant: the new value goes to the end.
MutantInserted(s, t, v) == Append(s, [time |-> t, value |-> v])
\* Mutant: the new value goes before those of its time.
MutantInsertedFirst(s, t, v) ==
  InsertAt(s, Cardinality({i \in DOMAIN s : s[i].time < t}) + 1, [time |-> t, value |-> v])

Inserted(s, t, v) == InsertAt(s, Before(s, t) + 1, [time |-> t, value |-> v])

\* setValueAtTime: the oldest value goes when there are too many.
SetValue(s, t, v) ==
  LET added == Inserted(s, t, v)
  IN IF Len(added) > Memory THEN Tail(added) ELSE added

\* _updateAfter: of the values for one and the same time the first is changed.
UpdateAfter(s, t, d) ==
  [i \in DOMAIN s |-> IF s[i].time > t /\ (i = 1 \/ s[i - 1].time < s[i].time)
                      THEN [s[i] EXCEPT !.value = @ + d] ELSE s[i]]

\* The synth's state, for the methods that call each other.
Synth == [notes |-> notes, uses |-> _voicesInUse, sounding |-> sounding]

\* noteRelease of one note.  The count read before is of a number's property and never there: the
\* count becomes 0.
ReleasedNote(s, n, t) ==
  IF n \notin DOMAIN s.notes THEN s
  ELSE LET voice == IF s.notes[n].time <= t THEN s.notes[n].voice ELSE 0
       IN [notes |-> [m \in DOMAIN s.notes \ {n} |-> s.notes[m]],
           uses  |-> UpdateAfter(SetValue(s.uses, t, 0), t, -1),
           sounding |-> [s.sounding EXCEPT ![voice] = {}]]

\* noteRelease of all.
ReleasedAll(s, t) == [notes |-> [n \in {} |-> 0], uses |-> SetValue(s.uses, t, 0),
                      sounding |-> [v \in Voices |-> {}]]

\* noteAttack: a note that is held is released now.  With no voice left it throws.
Attacked(s, n, t) ==
  LET r == ReleasedNote(s, n, now)
      count == ValueAt(r.uses, t)
      voice == IF count < 0 THEN 0 ELSE count
  IN IF count >= maxVoices THEN r
     ELSE [notes |-> [m \in DOMAIN r.notes \cup {n} |->
                        IF m = n THEN [voice |-> voice, time |-> t] ELSE r.notes[m]],
           uses |-> UpdateAfter(SetValue(r.uses, t, count + 1), t, 1),
           sounding |-> [r.sounding EXCEPT ![voice] = @ \cup {n}]]

Throws(s, n, t) == ValueAt(ReleasedNote(s, n, now).uses, t) >= maxVoices

Becomes(s) == /\ notes' = s.notes /\ _voicesInUse' = s.uses /\ sounding' = s.sounding
              /\ calls < MaxCalls /\ calls' = calls + 1
              /\ UNCHANGED now

\* A call for time t keeps the order when ok holds.
Called(t, ok) == /\ orderly' = (orderly /\ ok /\ lastTime <= t)
                 /\ lastTime' = IF t > lastTime THEN t ELSE lastTime

-----------------------------------------------------------------------------
\* noteAttack
NoteAttack(n, d) == /\ Becomes(Attacked(Synth, n, now + d))
                    /\ Called(now + d, n \notin DOMAIN notes \/ (notes = [m \in {n} |-> notes[n]]
                                                                  /\ lastTime <= now))

\* noteRelease
NoteRelease(n, d) == /\ Becomes(ReleasedNote(Synth, n, now + d))
                     /\ Called(now + d, n \notin DOMAIN notes \/ Cardinality(DOMAIN notes) = 1)

ReleaseAll(d) == Becomes(ReleasedAll(Synth, now + d)) /\ Called(now + d, TRUE)

\* play: the release is scheduled with the attack.
Play(n, d, susTime) ==
  LET attacked == Attacked(Synth, n, now + d)
  IN /\ Becomes(IF Throws(Synth, n, now + d) THEN attacked
                ELSE ReleasedNote(attacked, n, now + d + susTime))
     /\ Called(now + d + susTime, notes = [m \in {} |-> 0] /\ lastTime <= now + d)

Advance == /\ now < MaxTime
           /\ now' = now + 1
           /\ UNCHANGED <<notes, _voicesInUse, sounding, calls, lastTime, orderly>>

Next == \/ \E n \in Notes, d \in Delays :
             NoteAttack(n, d) \/ NoteRelease(n, d) \/ Play(n, d, 1)
        \/ \E d \in Delays : ReleaseAll(d)
        \/ Advance

Spec == Init /\ [][Next]_vars
-----------------------------------------------------------------------------
\* The variables have the types the methods give them.
TypeOK ==
  /\ now \in 0..MaxTime /\ calls \in 0..MaxCalls /\ lastTime \in Nat
  /\ DOMAIN notes \subseteq Notes
  /\ \A n \in DOMAIN notes : notes[n] \in [voice : Voices, time : Nat]
  /\ _voicesInUse \in Seq([time : Nat, value : Int])
  /\ sounding \in [Voices -> SUBSET Notes]
  /\ orderly \in BOOLEAN

\* The values in time are in order of time and no more than the memory, whatever the order of the
\* calls.
InOrderOfTime ==
  /\ Len(_voicesInUse) <= Memory
  /\ \A i, j \in DOMAIN _voicesInUse : i < j => _voicesInUse[i].time <= _voicesInUse[j].time

\* When calls come in order of time and a note is only released alone, or with all, the count of the
\* latest value is that of the notes held, and each of them has a voice of its own, the one that was
\* told to attack it.
OwnVoices ==
  orderly =>
    /\ ValueAt(_voicesInUse, lastTime) = Cardinality(DOMAIN notes)
    /\ \A n \in DOMAIN notes : sounding[notes[n].voice] = {n}
=============================================================================
