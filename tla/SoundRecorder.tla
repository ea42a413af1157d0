--------------------------- MODULE SoundRecorder ---------------------------
(* A p5.SoundRecorder: the object on the page, its processor in the audio     *)
(* worklet, and the messages between them, which arrive in order.  Samples    *)
(* are counted in buffers of the processor, and a duration in as many as it   *)
(* takes; what has not filled a buffer when a recording ends is lost.         *)
EXTENDS Naturals, Sequences, SequencesExt

CONSTANTS Files,
          Units,        \* what can be recorded, the output of the page among them
          Durations,    \* in buffers
          MaxBuffers,   \* bound on the buffers of a recording
          MaxCalls,     \* bound on the calls of the sketch
          none, main

VARIABLES
  _callback,      \* the file that the next recording is for
  input,
  files,          \* what each file holds: [take, from] of each buffer
  toProcessor,    \* messages under way
  toPage,
  recording,      \* of the processor, as what follows
  sampleLimit,
  leftBuffers,
  calls,
  takes,          \* history: [file, limit] of each call of record
  take,           \* history: the last call of record the processor knows of
  orderly         \* history: record was called only when the last recording had arrived

vars == <<_callback, input, files, toProcessor, toPage, recording, sampleLimit, leftBuffers, calls,
          takes, take, orderly>>

processor == <<recording, sampleLimit, leftBuffers, take>>

Init == /\ _callback = none /\ input = main /\ files = [f \in Files |-> <<>>]
        /\ toProcessor = <<>> /\ toPage = <<>>
        /\ recording = FALSE /\ sampleLimit = 0 /\ leftBuffers = <<>>
        /\ calls = 0 /\ takes = <<>> /\ take = 0 /\ orderly = TRUE

\* What was disposed of has no processor to send to.
Call == input /= none /\ calls < MaxCalls /\ calls' = calls + 1

\* record, maybe for a time (0: until it is stopped).  Without a file it is for that of the last.
Record(f, duration) ==
  LET file == IF f = none THEN _callback ELSE f
  IN /\ toProcessor' = Append(toProcessor, [name |-> "start", duration |-> duration])
     /\ _callback' = file
     /\ takes' = Append(takes, [file |-> file, limit |-> duration])
     /\ orderly' = (orderly /\ ~recording /\ toProcessor = <<>> /\ toPage = <<>>)
     /\ Call
     /\ UNCHANGED <<input, files, toPage, processor>>

Stop == /\ toProcessor' = Append(toProcessor, [name |-> "stop", duration |-> 0])
        /\ Call
        /\ UNCHANGED <<_callback, input, files, toPage, processor, takes, orderly>>

SetInput(u) == /\ input' = u
               /\ Call
               /\ UNCHANGED <<_callback, files, toProcessor, toPage, processor, takes, orderly>>

Dispose == /\ _callback' = none /\ input' = none
           /\ Call
           /\ UNCHANGED <<files, toProcessor, toPage, processor, takes, orderly>>

-----------------------------------------------------------------------------
\* Mutant: the buffers are kept for the next recording.
MutantCleared == sampleLimit' = 0 /\ UNCHANGED leftBuffers

\* clear
Cleared == sampleLimit' = 0 /\ leftBuffers' = <<>>

\* stop of the processor, whether or not it records.
ProcessorStops == /\ recording' = FALSE
                  /\ toPage' = Append(toPage, leftBuffers)
                  /\ Cleared

\* port.onmessage: a start while it records goes on, with another limit if it has one.
Receive ==
  /\ toProcessor /= <<>>
  /\ toProcessor' = Tail(toProcessor)
  /\ LET m == Head(toProcessor) IN
       IF m.name = "stop" THEN ProcessorStops /\ UNCHANGED take
       ELSE /\ recording' = TRUE /\ take' = take + 1
            /\ sampleLimit' = IF m.duration = 0 THEN sampleLimit ELSE m.duration
            /\ UNCHANGED <<toPage, leftBuffers>>
  /\ UNCHANGED <<_callback, input, files, calls, takes, orderly>>

\* process, called until a buffer is full.
Process ==
  /\ recording
  /\ IF sampleLimit > 0 /\ Len(leftBuffers) >= sampleLimit THEN ProcessorStops
     ELSE /\ input /= none /\ Len(leftBuffers) < MaxBuffers
          /\ leftBuffers' = Append(leftBuffers, [take |-> take, from |-> input])
          /\ UNCHANGED <<recording, sampleLimit, toPage>>
  /\ UNCHANGED <<_callback, input, files, toProcessor, calls, takes, take, orderly>>

\* The buffers arrive on the page.  A file refuses a recording without any.
Arrive ==
  /\ toPage /= <<>>
  /\ toPage' = Tail(toPage)
  /\ files' = IF _callback \in Files /\ Head(toPage) /= <<>>
              THEN [files EXCEPT ![_callback] = Head(toPage)] ELSE files
  /\ UNCHANGED <<_callback, input, toProcessor, processor, calls, takes, orderly>>

Next == \/ \E f \in Files \cup {none}, d \in Durations \cup {0} : Record(f, d)
        \/ \E u \in Units : SetInput(u)
        \/ Stop \/ Dispose \/ Receive \/ Process \/ Arrive

Spec == Init /\ [][Next]_vars
-----------------------------------------------------------------------------
Buffers == [take : Nat, from : Units]

\* The variables have the types the methods and the processor give them.
TypeOK ==
  /\ _callback \in Files \cup {none} /\ input \in Units \cup {none}
  /\ files \in [Files -> Seq(Buffers)]
  /\ toProcessor \in Seq([name : {"start", "stop"}, duration : Durations \cup {0}])
  /\ toPage \in Seq(Seq(Buffers)) /\ leftBuffers \in Seq(Buffers)
  /\ Len(leftBuffers) <= MaxBuffers /\ sampleLimit \in Durations \cup {0}
  /\ calls \in 0..MaxCalls /\ {recording, orderly} \subseteq BOOLEAN
  /\ takes \in Seq([file : Files \cup {none}, limit : Durations \cup {0}]) /\ take \in 0..Len(takes)

\* When each record waits until the last recording has arrived, a file holds one recording that was
\* made for it and no longer than asked for, wherever stops fall, before the end, at it or after.
OwnRecording ==
  orderly => \A f \in Files : files[f] /= <<>> =>
    \E t \in DOMAIN takes :
      /\ takes[t].file = f
      /\ \A i \in DOMAIN files[f] : files[f][i].take = t
      /\ takes[t].limit > 0 => Len(files[f]) <= takes[t].limit
=============================================================================
