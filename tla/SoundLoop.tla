----------------------------- MODULE SoundLoop -----------------------------
(* The sound loops of p5.sound: each owns a clock that keeps a timeline of the *)
(* states it was told to be in, and is run by the ticks of the audio context,  *)
(* ahead of the time it schedules for.  Time is counted in units a tick of the *)
(* context may skip, as it does in a page that is busy.                        *)
EXTENDS Integers, Sequences, SequencesExt

CONSTANTS Loops,
          maxIterations,  \* of every loop
          Ahead,          \* how far a tick of the context looks ahead of the time
          Delays,         \* the timeFromNow the loops are called with
          Intervals,      \* the intervals they are given: [type, value], seconds or notation
          Tempos,         \* the beats per minute they are given
          Second,         \* how many units of time make a second
          MaxTime,        \* bound on the time
          MaxCalls        \* bound on the calls of the sketch

VARIABLES
  now,            \* audiocontext.currentTime
  timeline, nextTick, lastState, ticks,          \* the Clock of a loop
  period, isPlaying,       \* the SoundLoop itself: the inverse of its frequency
  sketchCalls,    \* how many calls the sketch made
  calls,          \* history: the calls of the callback since the ticks were last at 0
  delayed,        \* history: they began with a start for a later time than its call's
  quietFrom,      \* history: the time a stop was for, until the loop is started again
  syncedTo        \* history: the loop it was started in step with, until either is called again

clockVars == <<timeline, nextTick, lastState, ticks>>
loopVars  == <<period, isPlaying>>
history   == <<calls, delayed, quietFrom, syncedTo>>
vars      == <<now, clockVars, loopVars, sketchCalls, history>>

Never == MaxTime + Ahead + 1          \* later than any tick
alone == "alone"

States == {"started", "stopped", "paused"}

-----------------------------------------------------------------------------
(* Tone.TimelineState: the events in the order of their times.  (`said', when  *)
(* the call was made that added the event, is history.)                        *)

\* How many of them are for t or before (_search).
Upto(line, t) == CHOOSE k \in 0..Len(line) : \A i \in DOMAIN line : line[i].time <= t <=> i <= k

EventAt(line, t) == IF Upto(line, t) = 0 THEN [state |-> "stopped", time |-> 0, said |-> 0]
                    ELSE line[Upto(line, t)]
StateAt(line, t) == EventAt(line, t).state

Add(line, s, t) == InsertAt(line, Upto(line, t) + 1, [state |-> s, time |-> t, said |-> now])

\* Times are whole: what is left is for t - 1 or before.
Cancel(line, t) == SubSeq(line, 1, Upto(line, t - 1))

(* Tone.Clock: start, stop and pause write the timeline.                      *)

Started(line, t) == IF StateAt(line, t) = "started" THEN line ELSE Add(line, "started", t)

\* Mutant: what is scheduled after the stop is not cancelled.
MutantStopped(line, t) == Add(line, "stopped", t)

Stopped(line, t) == Add(Cancel(line, t), "stopped", t)
Paused(line, t)  == IF StateAt(line, t) = "started" THEN Add(line, "paused", t) ELSE line

-----------------------------------------------------------------------------
\* _convertNotation, as a fraction: measures or notes, in beats.
Notation(i, sign) == IF i.type = "m" THEN <<i.value * sign, 1>> ELSE <<sign, i.value>>

\* What one turn of the clock lasts: the inverse of _calcFreq.
Period(i, beats, sign) ==
  IF i.type = "s" THEN i.value * Second
  ELSE LET n == Notation(i, sign) IN (Second * 60 * 4 * n[1]) \div (beats * sign * n[2])

Init == /\ now = 0
        /\ timeline = [l \in Loops |-> <<>>] /\ nextTick = [l \in Loops |-> 0]
        /\ lastState = [l \in Loops |-> "stopped"] /\ ticks = [l \in Loops |-> 0]
        /\ period = [l \in Loops |-> Second] /\ isPlaying = [l \in Loops |-> FALSE]
        /\ sketchCalls = 0
        /\ calls = [l \in Loops |-> 0] /\ delayed = [l \in Loops |-> FALSE]
        /\ quietFrom = [l \in Loops |-> Never] /\ syncedTo = [l \in Loops |-> alone]

\* The sketch makes one of its calls, about the loops of L.
Call(L) == /\ sketchCalls < MaxCalls /\ sketchCalls' = sketchCalls + 1
           /\ syncedTo' = [k \in Loops |-> IF k \in L \/ syncedTo[k] \in L THEN alone
                                           ELSE syncedTo[k]]

Start(l, t) ==
  /\ ~isPlaying[l]
  /\ timeline' = [timeline EXCEPT ![l] = Started(@, now + t)]
  /\ isPlaying' = [isPlaying EXCEPT ![l] = TRUE]
  /\ Call({l})
  /\ quietFrom' = [quietFrom EXCEPT ![l] = Never]
  /\ UNCHANGED <<now, nextTick, lastState, ticks, period, calls, delayed>>

Stop(l, t) ==
  /\ isPlaying[l]
  /\ timeline' = [timeline EXCEPT ![l] = Stopped(@, now + t)]
  /\ isPlaying' = [isPlaying EXCEPT ![l] = FALSE]
  /\ Call({l})
  /\ quietFrom' = [quietFrom EXCEPT ![l] = now + t]
  /\ UNCHANGED <<now, nextTick, lastState, ticks, period, calls, delayed>>

Pause(l, t) ==
  /\ isPlaying[l]
  /\ timeline' = [timeline EXCEPT ![l] = Paused(@, now + t)]
  /\ isPlaying' = [isPlaying EXCEPT ![l] = FALSE]
  /\ Call({l})
  /\ UNCHANGED <<now, nextTick, lastState, ticks, period, calls, delayed,
                 quietFrom>>

\* Nothing the clock was told is still to come, and the loop knows what its clock does.
Settled(l) == /\ isPlaying[l] = (lastState[l] = "started")
              /\ StateAt(timeline[l], nextTick[l]) = lastState[l]
              /\ \A i \in DOMAIN timeline[l] : timeline[l][i].time <= nextTick[l]

\* Mutant: a loop is started without waiting for the other's next tick.
MutantSyncedAt(o, t) == now + t

\* The time for which l is started with o.
SyncedAt(o, t) == IF isPlaying[o] THEN nextTick[o] ELSE now + t

\* Start l in step with o: with both of them stopped, at once or later; else at o's next tick.
SyncedStart(l, o, t) ==
  LET at == SyncedAt(o, t)
      both == IF isPlaying[o] THEN {l} ELSE {l, o}
  IN /\ l /= o
     /\ timeline' = [k \in Loops |-> IF k \in both THEN Started(timeline[k], at) ELSE timeline[k]]
     /\ isPlaying' = [k \in Loops |-> isPlaying[k] \/ k \in both]
     /\ sketchCalls < MaxCalls /\ sketchCalls' = sketchCalls + 1
     /\ syncedTo' = [k \in Loops |->
          IF k = l THEN IF Settled(l) /\ Settled(o) /\ ~isPlaying[l] THEN o ELSE alone
          ELSE IF k = o \/ syncedTo[k] \in both THEN alone ELSE syncedTo[k]]
     /\ quietFrom' = [k \in Loops |-> IF k \in both THEN Never ELSE quietFrom[k]]
     /\ UNCHANGED <<now, nextTick, lastState, ticks, period, calls, delayed>>

\* The setters of interval, bpm and timeSignature; _update gives the clock its new frequency.
SetPeriod(l, i, beats, sign) ==
  /\ Period(i, beats, sign) /= period[l]
  /\ period' = [period EXCEPT ![l] = Period(i, beats, sign)]
  /\ Call({l})
  /\ UNCHANGED <<now, clockVars, isPlaying, calls, delayed, quietFrom>>

-----------------------------------------------------------------------------
\* Mutant: past times are not told from those to come.
MutantCalls(time, iterations) == iterations <= maxIterations

\* The callback a loop gives its clock: it calls the sketch's unless the time is already past or
\* the limit of iterations was reached.
Calls(time, iterations) == time > now /\ iterations <= maxIterations

\* One turn of the while of Clock._loop, on the clock c.
Turn(l, c) ==
  LET s == StateAt(timeline[l], c.next)
      new == s /= c.last
      e == EventAt(timeline[l], c.next)
      at == IF new /\ s = "started" THEN e.time ELSE c.next
      n == IF new /\ s = "stopped" THEN 0 ELSE c.ticks
      called == s = "started" /\ Calls(at, n)
  IN [next |-> at + period[l],
      last |-> s,
      ticks |-> IF s = "started" THEN n + 1 ELSE n,
      calls |-> (IF new /\ s = "stopped" THEN 0 ELSE c.calls) + (IF called THEN 1 ELSE 0),
      delayed |-> IF new /\ s = "started" /\ n = 0 THEN e.time > e.said ELSE c.delayed,
      at    |-> IF called THEN at ELSE c.at]

\* Clock._loop: turns as long as the next tick is not later than the horizon.
Looped(l) ==
  LET c0 == [next |-> nextTick[l], last |-> lastState[l], ticks |-> ticks[l],
             calls |-> calls[l], delayed |-> delayed[l], at |-> 0]
      run[n \in 0..Never] ==
        IF n = 0 THEN c0
        ELSE LET c == run[n - 1] IN IF now + Ahead > c.next THEN Turn(l, c) ELSE c
  IN run[Never]

\* A tick of the context: every clock's loop runs.
ContextTick ==
  LET c == [l \in Loops |-> Looped(l)] IN
    /\ nextTick' = [l \in Loops |-> c[l].next]
    /\ lastState' = [l \in Loops |-> c[l].last]
    /\ ticks' = [l \in Loops |-> c[l].ticks]
    /\ calls' = [l \in Loops |-> c[l].calls]
    /\ delayed' = [l \in Loops |-> c[l].delayed]
    /\ UNCHANGED <<now, timeline, loopVars, sketchCalls, quietFrom, syncedTo>>

Advance == now < MaxTime /\ now' = now + 1
             /\ UNCHANGED <<clockVars, loopVars, sketchCalls, history>>

Next == \/ \E l \in Loops, t \in Delays : Start(l, t) \/ Stop(l, t) \/ Pause(l, t)
        \/ \E l, o \in Loops, t \in Delays : SyncedStart(l, o, t)
        \/ \E l \in Loops, i \in Intervals, b \in Tempos, s \in {3, 4} : SetPeriod(l, i, b, s)
        \/ ContextTick
        \/ Advance

Spec == Init /\ [][Next]_vars
-----------------------------------------------------------------------------
\* The variables have the types the calls give them.
TypeOK ==
  /\ {now, sketchCalls} \subseteq Nat
  /\ timeline \in [Loops -> Seq([state : States, time : Nat, said : Nat])]
  /\ {nextTick, ticks, calls, quietFrom, period} \subseteq [Loops -> Nat]
  /\ lastState \in [Loops -> States]
  /\ {isPlaying, delayed} \subseteq [Loops -> BOOLEAN]
  /\ syncedTo \in [Loops -> Loops \cup {alone}]

\* A loop that is only started at once makes at most maxIterations calls before it is stopped,
\* although the limit is tested with <=: its first tick is always late and calls nobody (the
\* callback of the constructor, with Clock._loop).
CallsLimited == \A l \in Loops : ~delayed[l] => calls[l] <= maxIterations

\* After stop(t) nothing is scheduled for the time of t or later until the loop is started again,
\* whatever starts were still to come and however late the context's ticks are.
StoppedIsQuiet ==
  [][\A l \in Loops : calls'[l] > calls[l] => Looped(l).at < quietFrom[l]]_vars

\* A loop started in step with another, when neither had anything to come, ticks when the other
\* does for as long as nobody calls either of them.
SyncedTogether ==
  \A l, o \in Loops :
    /\ syncedTo[l] = o
    /\ lastState[l] = "started" /\ lastState[o] = "started"
    /\ period[l] = period[o]
    => nextTick[l] = nextTick[o]
=============================================================================
