-------------------------------- MODULE Cues --------------------------------
(* The cues of a p5.SoundFile: functions to call when the playback gets to a   *)
(* time.  The counter node of a play reports its position now and then; in a   *)
(* file that loops (setLoop may be called at any time) the position goes back;  *)
(* the report of an earlier play may still arrive after the file is played      *)
(* again.                                                                       *)
EXTENDS Naturals, Sequences, SequencesExt

CONSTANTS Duration,   \* of the file, in the units its positions are counted in
          MaxCues,    \* bound on the cues added
          MaxPlays    \* bound on the plays

VARIABLES
  cues,           \* _cues: [id, time, once], once when the callback removes its cue
  cueIDCounter,
  prevUpdateTime, \* 0 until it is set
  position,       \* of the running play, as last reported; 0 before its first report
  plays,
  began,          \* history: the time the play began at, and comes back to when it loops
  first,          \* history: the first position reported of this play, since it came back last;
                  \* until then, the time it began at
  heard,          \* history: this play reported a position
  since,          \* history: the position at which each cue was added, since the play came back
  fired,          \* history: how often a cue was called since then, until the play is disturbed
  disturbed       \* history: a report came late, or threw

vars == <<cues, cueIDCounter, prevUpdateTime, position, plays, began, first, heard, since, fired,
          disturbed>>

Ids == 0..(MaxCues - 1)
Times == 0..Duration

Init == /\ cues = <<>> /\ cueIDCounter = 0 /\ prevUpdateTime = 0
        /\ position = 0 /\ plays = 0
        /\ began = 0 /\ first = 0 /\ heard = FALSE
        /\ since = [i \in Ids |-> 0] /\ fired = [i \in Ids |-> 0]
        /\ disturbed = FALSE

AddCue(t, once) ==
  /\ cueIDCounter < MaxCues
  /\ cues' = Append(cues, [id |-> cueIDCounter, time |-> t, once |-> once])
  /\ cueIDCounter' = cueIDCounter + 1
  /\ since' = [since EXCEPT ![cueIDCounter] = position]
  /\ UNCHANGED <<prevUpdateTime, position, plays, began, first, heard, fired, disturbed>>

\* removeCue takes the first cue of that id out of the array; no other was given it.
Without(list, id) == RemoveAt(list, CHOOSE i \in DOMAIN list : list[i].id = id)

RemoveCue(id) == /\ \E i \in DOMAIN cues : cues[i].id = id
                 /\ cues' = Without(cues, id)
                 /\ UNCHANGED <<cueIDCounter, prevUpdateTime, position, plays, began, first, heard,
                                since, fired, disturbed>>

ClearCues == /\ cues /= <<>>
             /\ cues' = <<>>
             /\ UNCHANGED <<cueIDCounter, prevUpdateTime, position, plays, began, first, heard,
                            since, fired, disturbed>>

\* A play begins at a time of the file: prevUpdateTime stays as the last report left it.
Play(from) ==
  /\ plays < MaxPlays
  /\ plays' = plays + 1
  /\ position' = from /\ began' = from /\ first' = from /\ heard' = FALSE
  /\ since' = [i \in Ids |-> from] /\ fired' = [i \in Ids |-> 0]
  /\ UNCHANGED <<cues, cueIDCounter, prevUpdateTime, disturbed>>

\* Mutant: neither limit is in the update.
MutantDue(c, p) == prevUpdateTime < c.time /\ c.time < p

Due(c, p) == prevUpdateTime <= c.time /\ c.time <= p

\* One turn of its loop.
Examined(r, i, p) ==
  IF r.throws \/ i > Len(r.cues) THEN [r EXCEPT !.throws = TRUE]
  ELSE LET c == r.cues[i] IN
    IF ~Due(c, p) THEN r
    ELSE [r EXCEPT !.called = Append(@, c.id), !.cues = IF c.once THEN Without(@, c.id) ELSE @]

\* _onTimeUpdate: the array is gone through by index up to the length it had, and a callback that
\* removes its cue moves up those that follow: the index then ends past the array, which throws.
Update(p) ==
  LET run[i \in 0..Len(cues)] ==
        IF i = 0 THEN [cues |-> cues, called |-> <<>>, throws |-> FALSE]
        ELSE Examined(run[i - 1], i, p)
  IN run[Len(cues)]

\* What a report of position p does to the cues; before is how often each was called.
Reported(p, late, before) ==
  LET u == Update(p) IN
    /\ cues' = u.cues
    /\ prevUpdateTime' = IF u.throws THEN prevUpdateTime ELSE p
    /\ disturbed' = (disturbed \/ late \/ u.throws)
    /\ fired' = [i \in Ids |-> IF disturbed' THEN 0
                              ELSE before[i] + (IF Contains(u.called, i) THEN 1 ELSE 0)]

\* The running play reports a position, further on.  (Its position 0 is not reported.)
Report(p) ==
  /\ plays > 0 /\ position < p
  /\ position' = p /\ heard' = TRUE
  /\ first' = IF heard THEN first ELSE p
  /\ Reported(p, FALSE, fired)
  /\ UNCHANGED <<cueIDCounter, plays, began, since>>

\* It reports one it came back to: the file loops.
ReportAgain(p) ==
  /\ plays > 0 /\ p <= position
  /\ position' = p /\ heard' = TRUE
  /\ first' = p
  /\ since' = [i \in Ids |-> began]
  /\ Reported(p, FALSE, [i \in Ids |-> 0])
  /\ UNCHANGED <<cueIDCounter, plays, began>>

\* An earlier play's report arrives.
LateReport(p) ==
  /\ plays > 1
  /\ Reported(p, TRUE, fired)
  /\ UNCHANGED <<cueIDCounter, position, plays, began, first, heard, since>>

Next == \/ \E t \in Times, once \in BOOLEAN : AddCue(t, once)
        \/ \E id \in Ids : RemoveCue(id)
        \/ ClearCues
        \/ \E t \in Times : Play(t)
        \/ \E p \in 1..Duration : Report(p) \/ ReportAgain(p) \/ LateReport(p)

Spec == Init /\ [][Next]_vars
-----------------------------------------------------------------------------
\* The variables have the types the methods give them.
TypeOK ==
  /\ cues \in Seq([id : Ids, time : Times, once : BOOLEAN])
  /\ cueIDCounter \in 0..MaxCues
  /\ {prevUpdateTime, position, began, first} \subseteq Times
  /\ plays \in Nat /\ {fired, since} \subseteq [Ids -> Nat]
  /\ {heard, disturbed} \subseteq BOOLEAN

\* While reports come in order and none throws, no cue is missed from the first report on, however
\* far apart they are: a cue that was there when the play passed its time was called, each time the
\* play of a file that loops comes by.  (The limits of an update meet those of the next.)  It says
\* nothing of a cue before the first report of a play, or before the first after a looping file came
\* back: an update looks for the cues between prevUpdateTime, which nothing resets, and its own
\* position, so that the code misses those, though the documentation of addCue says that a cue is
\* called "every time playback reaches" its time.
NoCueMissed ==
  ~disturbed =>
    \A i \in DOMAIN cues :
      LET c == cues[i] IN
        first < c.time /\ since[c.id] < c.time /\ c.time <= position => fired[c.id] >= 1
=============================================================================
