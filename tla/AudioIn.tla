------------------------------ MODULE AudioIn ------------------------------
(* The microphone of a p5.AudioIn.  The browser is asked for a stream and      *)
(* answers later: until then the object may be started again, stopped, given   *)
(* another source, or disposed of.                                             *)
EXTENDS Naturals, Sequences, SequencesExt, FiniteSets

CONSTANTS Devices,      \* the audio inputs there may be
          Default,      \* the one the browser takes when none is asked for
          none,         \* no source, no stream
          MaxStreams,   \* bound on the requests
          MaxCalls      \* bound on the other calls

VARIABLES
  inputSources,   \* main.inputSources, shared by all
  currentSource,  \* an index, from 0
  stream,         \* the stream held, an index into streams
  output,         \* the object was not disposed of
  requests,       \* external: the getUserMedia calls not answered, [id, device]
  listing,        \* external: getSources asked for the devices and was not answered
  streams,        \* external: the streams given, [device, live, heard]
  asked,          \* the requests made
  calls,
  on,             \* history: start was called since the last stop, and no dispose
  crossings       \* history: the starts, stops and disposes called while a request waited

vars == <<inputSources, currentSource, stream, output, requests, listing, streams, asked, calls,
          on, crossings>>

Init == /\ inputSources = <<>> /\ currentSource = none /\ stream = none /\ output = TRUE
        /\ requests = {} /\ listing = FALSE /\ streams = <<>> /\ asked = 0
        /\ calls = 0 /\ on = FALSE /\ crossings = 0

Call == calls < MaxCalls /\ calls' = calls + 1
Told(start) == /\ on' = start
               /\ crossings' = IF requests = {} THEN crossings ELSE crossings + 1

\* stop: the tracks of the stream end, and it is let go of.
StoppedStreams == IF stream = none THEN streams
                  ELSE [streams EXCEPT ![stream].live = FALSE, ![stream].heard = FALSE]

\* start asks for the current source, if the list has one.
Device(source) == IF source /= none /\ source < Len(inputSources) THEN inputSources[source + 1]
                  ELSE Default

\* Mutant: the stream held is not stopped.
MutantStarted(source) ==
  /\ asked < MaxStreams
  /\ asked' = asked + 1
  /\ requests' = requests \cup {[id |-> asked, device |-> Device(source)]}
  /\ streams' = streams
  /\ stream' = none

Started(source) ==
  /\ asked < MaxStreams
  /\ asked' = asked + 1
  /\ requests' = requests \cup {[id |-> asked, device |-> Device(source)]}
  /\ streams' = StoppedStreams
  /\ stream' = none

Start == /\ Started(currentSource)
         /\ Told(TRUE)
         /\ UNCHANGED <<inputSources, currentSource, output, listing, calls>>

Stop == /\ Call
        /\ streams' = StoppedStreams
        /\ stream' = none
        /\ Told(FALSE)
        /\ UNCHANGED <<inputSources, currentSource, output, requests, listing, asked>>

\* setSource: a number past the list is refused; a live stream is started again either way.
SetSource(num) ==
  /\ Call
  /\ currentSource' = IF num < Len(inputSources) THEN num ELSE currentSource
  /\ IF stream /= none /\ streams[stream].live
     THEN Started(currentSource')
     ELSE UNCHANGED <<requests, stream, streams, asked>>
  /\ UNCHANGED <<inputSources, output, listing, on, crossings>>

GetSources == /\ Call
              /\ ~listing /\ listing' = TRUE
              /\ UNCHANGED <<inputSources, currentSource, stream, output, requests, streams, asked,
                             on, crossings>>

Dispose == /\ Call
           /\ output /\ output' = FALSE
           /\ streams' = StoppedStreams
           /\ stream' = none
           /\ Told(FALSE)
           /\ UNCHANGED <<inputSources, currentSource, requests, listing, asked>>

-----------------------------------------------------------------------------
\* A stream is given: it is held, and heard unless there is no output to connect it to, which throws
\* into the error callback.
Given(r) ==
  /\ r \in requests
  /\ requests' = requests \ {r}
  /\ streams' = Append(streams, [device |-> r.device, live |-> TRUE, heard |-> output])
  /\ stream' = Len(streams) + 1
  /\ UNCHANGED <<inputSources, currentSource, output, listing, asked, calls, on,
                 crossings>>

Refused(r) ==
  /\ r \in requests
  /\ requests' = requests \ {r}
  /\ UNCHANGED <<inputSources, currentSource, stream, output, listing, streams, asked, calls,
                 on, crossings>>

\* getSources is answered: the inputs, in the order the browser lists them.
Listed(list) ==
  /\ listing /\ listing' = FALSE
  /\ inputSources' = list
  /\ UNCHANGED <<currentSource, stream, output, requests, streams, asked, calls, on,
                 crossings>>

\* A device goes away: its stream ends by itself.
Unplugged(s) ==
  /\ streams[s].live
  /\ streams' = [streams EXCEPT ![s].live = FALSE]
  /\ UNCHANGED <<inputSources, currentSource, stream, output, requests, listing, asked, calls,
                 on, crossings>>

Lists == {list \in SeqOf(Devices, Cardinality(Devices)) : IsInjective(list)}

Next == \/ Start \/ Stop \/ Dispose \/ GetSources
        \/ \E num \in 0..(Cardinality(Devices) - 1) : SetSource(num)
        \/ \E r \in requests : Given(r) \/ Refused(r)
        \/ \E list \in Lists : Listed(list)
        \/ \E s \in DOMAIN streams : Unplugged(s)

Spec == Init /\ [][Next]_vars
-----------------------------------------------------------------------------
\* The variables have the types the methods give them.
TypeOK ==
  /\ inputSources \in Seq(Devices)
  /\ currentSource \in 0..(Cardinality(Devices) - 1) \cup {none}
  /\ stream \in DOMAIN streams \cup {none}
  /\ requests \subseteq [id : 0..(MaxStreams - 1), device : Devices \cup {Default}]
  /\ streams \in Seq([device : Devices \cup {Default}, live : BOOLEAN, heard : BOOLEAN])
  /\ asked \in 0..MaxStreams /\ calls \in 0..MaxCalls
  /\ {output, listing, on} \subseteq BOOLEAN /\ crossings \in Nat

Live == {s \in DOMAIN streams : streams[s].live}

\* The microphones that are on are at most the one started and not stopped, and one more for each
\* start, stop or dispose called while the browser was asked, which the code does not take note of;
\* no more than those have been let go of, so that no stop turns them off. One that is on and not
\* heard was given after the dispose.
NoneLeftOn ==
  /\ Cardinality(Live) <= crossings + (IF on THEN 1 ELSE 0)
  /\ Cardinality(Live \ {stream}) <= crossings
  /\ \A s \in Live : streams[s].heard \/ ~output
=============================================================================
