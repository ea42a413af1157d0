---------------------------- MODULE InputsProofs ----------------------------
(***************************************************************************)
(* What the parts that hear, record and load keep, for any files, devices, *)
(* impulses, energies and bounds.  Each part has an invariant, which its   *)
(* first step sets up (...Init) and every step keeps (...Next):            *)
(*   InputInv     each call that crosses a request owes one microphone     *)
(*   DetectInv    the counters keep step with the frames                   *)
(*   LoadInv      each file has a buffer and counts                        *)
(*   ReverbInv    one node is connected, and the load asked for last is    *)
(*                under way or is set                                      *)
(*   RecorderInv  a start waits alone, and the buffers on their way are of *)
(*                the last call of record                                  *)
(***************************************************************************)
EXTENDS Inputs, SequenceTheorems, FiniteSetTheorems, TLAPS

-----------------------------------------------------------------------------
Stream  == [device : Devices \cup {Default}, live : BOOLEAN, heard : BOOLEAN]
Request == [id : 0..(MaxStreams - 1), device : Devices \cup {Default}]

C(S) == Input!Cardinality(S)

Owed == /\ Input!IsFiniteSet(ai_requests)
        /\ C(Input!Live) + C(ai_requests) <= crossings + (IF on THEN 1 ELSE 0)
        /\ C(Input!Live \ {stream}) <= crossings
        /\ \A s \in Input!Live : streams[s].heard \/ ~ai_output

InputInv == Input!TypeOK /\ Owed

-----------------------------------------------------------------------------
(* The operators of the model. *)

\* The sizes of sets are those the library's theorems are about.
LEMMA Sizes ==
  /\ C({}) = 0
  /\ \A S : Input!IsFiniteSet(S) => C(S) \in Nat /\ (C(S) = 0 <=> S = {})
  /\ \A S, x : Input!IsFiniteSet(S) =>
       /\ Input!IsFiniteSet(S \cup {x}) /\ Input!IsFiniteSet(S \ {x})
       /\ C(S \cup {x}) = IF x \in S THEN C(S) ELSE C(S) + 1
       /\ C(S \ {x}) = IF x \in S THEN C(S) - 1 ELSE C(S)
  /\ \A n \in Nat : \A S \in SUBSET (1..n) : Input!IsFiniteSet(S)
  /\ Input!IsFiniteSet({})
<1>1. (\A S : C(S) = Cardinality(S)) /\ \A S : Input!IsFiniteSet(S) = IsFiniteSet(S)
  BY DEF C, Input!Cardinality, Cardinality, Input!IsFiniteSet, IsFiniteSet
<1>2. /\ C({}) = 0 /\ Input!IsFiniteSet({})
      /\ \A S : Input!IsFiniteSet(S) => C(S) \in Nat /\ (C(S) = 0 <=> S = {})
  BY <1>1, FS_EmptySet, FS_CardinalityType
<1>3. ASSUME NEW S, NEW x, Input!IsFiniteSet(S)
      PROVE  /\ Input!IsFiniteSet(S \cup {x}) /\ Input!IsFiniteSet(S \ {x})
             /\ C(S \cup {x}) = IF x \in S THEN C(S) ELSE C(S) + 1
             /\ C(S \ {x}) = IF x \in S THEN C(S) - 1 ELSE C(S)
  BY <1>1, <1>3, FS_AddElement, FS_RemoveElement
<1>4. ASSUME NEW n \in Nat, NEW S \in SUBSET (1..n) PROVE Input!IsFiniteSet(S)
  <2>1. IsFiniteSet(1..n) BY FS_Interval
  <2> QED BY <1>1, <2>1, FS_Subset
<1> QED BY <1>2, <1>3, <1>4

\* The live streams can be counted, with and without the one that is held.
LEMMA LiveCounted ==
  ASSUME Input!TypeOK
  PROVE  /\ streams \in Seq(Stream) /\ DOMAIN streams = 1..Len(streams) /\ Len(streams) \in Nat
         /\ Input!Live \subseteq 1..Len(streams)
         /\ Input!IsFiniteSet(Input!Live) /\ C(Input!Live) \in Nat
         /\ C(Input!Live \ {stream}) \in Nat /\ C(Input!Live \ {stream}) <= C(Input!Live)
         /\ stream \in Input!Live => C(Input!Live) = C(Input!Live \ {stream}) + 1
<1>1. streams \in Seq(Stream) /\ DOMAIN streams = 1..Len(streams) /\ Len(streams) \in Nat
  BY DEF Input!TypeOK, Stream
<1>2. Input!Live \subseteq 1..Len(streams) BY <1>1 DEF Input!Live
<1>3. Input!IsFiniteSet(Input!Live) /\ C(Input!Live) \in Nat BY <1>1, <1>2, Sizes
<1>4. /\ Input!IsFiniteSet(Input!Live \ {stream})
      /\ C(Input!Live \ {stream})
           = IF stream \in Input!Live THEN C(Input!Live) - 1 ELSE C(Input!Live)
  BY <1>3, Sizes
<1>5. C(Input!Live \ {stream}) \in Nat BY <1>4, Sizes
<1> QED BY <1>1, <1>2, <1>3, <1>4, <1>5

\* A stream that is stopped is silent, and the others go on.
LEMMA Stopped ==
  ASSUME Input!TypeOK, streams' = Input!StoppedStreams, stream' = none
  PROVE  /\ streams' \in Seq(Stream)
         /\ Input!Live' = Input!Live \ {stream} /\ (Input!Live \ {stream})' = Input!Live'
         /\ \A s \in Input!Live' : streams'[s] = streams[s]
<1>1. streams \in Seq(Stream) /\ stream \in DOMAIN streams \cup {none} BY DEF Input!TypeOK, Stream
<1>2. \A s \in DOMAIN streams : s \in Nat /\ streams[s] \in Stream
  <2>1. DOMAIN streams = 1..Len(streams) /\ Len(streams) \in Nat BY <1>1
  <2> QED BY <1>1, <2>1, ElementOfSeq
<1>3. CASE stream = none
  <2>1. streams' = streams BY <1>3 DEF Input!StoppedStreams
  <2>2. none \notin DOMAIN streams BY <1>2, InputAssumption
  <2> QED BY <1>1, <1>3, <2>1, <2>2 DEF Input!Live
<1>4. CASE stream /= none
  <2> DEFINE e == [streams[stream] EXCEPT !.live = FALSE, !.heard = FALSE]
  <2>1. stream \in DOMAIN streams /\ streams[stream] \in Stream BY <1>1, <1>2, <1>4
  <2>2. e \in Stream /\ ~e.live BY <2>1 DEF Stream
  <2>3. streams' = [streams EXCEPT ![stream] = e] BY <1>4 DEF Input!StoppedStreams
  <2> HIDE DEF e
  <2>4. streams' \in Seq(Stream) BY <1>1, <2>1, <2>2, <2>3, ExceptSeq
  <2>5. DOMAIN streams' = DOMAIN streams /\ streams'[stream] = e
        /\ \A s \in DOMAIN streams : s /= stream => streams'[s] = streams[s]
    BY <2>1, <2>3
  <2>6. none \notin DOMAIN streams BY <1>2, InputAssumption
  <2>7. Input!Live' = {s \in DOMAIN streams' : streams'[s].live} BY DEF Input!Live
  <2>8. Input!Live' = Input!Live \ {stream} BY <2>2, <2>5, <2>7 DEF Input!Live
  <2>9. (Input!Live \ {stream})' = Input!Live' BY <2>5, <2>6, <2>7
  <2> QED BY <2>4, <2>5, <2>8, <2>9 DEF Input!Live
<1> QED BY <1>3, <1>4

\* What is asked for is a device there may be.
LEMMA DeviceTyped ==
  ASSUME Input!TypeOK, NEW source \in 0..(Input!Cardinality(Devices) - 1)
    \cup {none}, none \notin Nat
  PROVE  Input!Device(source) \in Devices \cup {Default}
<1>1. CASE source /= none /\ source < Len(inputSources)
  <2>1. inputSources \in Seq(Devices) /\ Len(inputSources) \in Nat BY DEF Input!TypeOK
  <2>2. source \in Nat BY <1>1
  <2>3. source + 1 \in 1..Len(inputSources) BY <1>1, <2>1, <2>2
  <2>4. inputSources[source + 1] \in Devices BY <2>1, <2>3, ElementOfSeq
  <2> QED BY <1>1, <2>4 DEF Input!Device
<1>2. CASE ~(source /= none /\ source < Len(inputSources)) BY <1>2 DEF Input!Device
<1> QED BY <1>1, <1>2

\* A start asks once more, and has let go of the stream that was held.
LEMMA StartedKeeps ==
  ASSUME InputInv, NEW source \in 0..(Input!Cardinality(Devices) - 1) \cup {none},
         Input!Started(source)
  PROVE  /\ ai_requests' \subseteq Request /\ streams' \in Seq(Stream) /\ stream' = none
         /\ asked' \in 0..MaxStreams
         /\ Input!Live' = Input!Live \ {stream} /\ (Input!Live \ {stream})' = Input!Live'
         /\ \A s \in Input!Live' : streams'[s] = streams[s]
         /\ Input!IsFiniteSet(ai_requests') /\ C(ai_requests') \in Nat
         /\ C(ai_requests') <= C(ai_requests) + 1
<1>1. /\ asked < MaxStreams /\ asked' = asked + 1
      /\ ai_requests' = ai_requests \cup {[id |-> asked, device |-> Input!Device(source)]}
      /\ streams' = Input!StoppedStreams /\ stream' = none
  BY DEF Input!Started
<1>2. asked \in 0..MaxStreams /\ ai_requests \subseteq Request
  BY DEF InputInv, Input!TypeOK, Request
<1>3. asked \in 0..(MaxStreams - 1) /\ asked + 1 \in 0..MaxStreams BY <1>1, <1>2, InputAssumption
<1>4. Input!Device(source) \in Devices \cup {Default} BY DeviceTyped, InputAssumption DEF InputInv
<1>5. ai_requests' \subseteq Request BY <1>1, <1>2, <1>3, <1>4 DEF Request
<1>6. Input!IsFiniteSet(ai_requests') /\ C(ai_requests') \in Nat
      /\ C(ai_requests') <= C(ai_requests) + 1
  <2> DEFINE q == [id |-> asked, device |-> Input!Device(source)]
  <2>1. Input!IsFiniteSet(ai_requests) /\ C(ai_requests) \in Nat BY Sizes DEF InputInv, Owed
  <2>2. ai_requests' = ai_requests \cup {q} BY <1>1
  <2> HIDE DEF q
  <2>3. /\ Input!IsFiniteSet(ai_requests \cup {q})
        /\ C(ai_requests \cup {q}) = IF q \in ai_requests THEN C(ai_requests)
                                     ELSE C(ai_requests) + 1
    BY <2>1, Sizes
  <2>4. C(ai_requests \cup {q}) \in Nat BY <2>1, <2>3
  <2> QED BY <2>1, <2>2, <2>3, <2>4
<1> QED BY <1>1, <1>3, <1>5, <1>6, Stopped DEF InputInv

-----------------------------------------------------------------------------
(* The steps. *)

\* What is owed before a step, in numbers.
LEMMA OwedNumbers ==
  ASSUME InputInv
  PROVE  /\ crossings \in Nat /\ on \in BOOLEAN
         /\ Input!IsFiniteSet(ai_requests) /\ C(ai_requests) \in Nat
         /\ ai_requests /= {} => C(ai_requests) >= 1
         /\ ai_requests = {} => C(ai_requests) = 0
         /\ C(Input!Live) \in Nat /\ C(Input!Live \ {stream}) \in Nat
         /\ C(Input!Live) + C(ai_requests) <= crossings + (IF on THEN 1 ELSE 0)
         /\ C(Input!Live \ {stream}) <= crossings
         /\ C(Input!Live \ {stream}) <= C(Input!Live)
         /\ stream \in Input!Live => C(Input!Live) = C(Input!Live \ {stream}) + 1
<1>1. crossings \in Nat /\ on \in BOOLEAN BY DEF InputInv, Input!TypeOK
<1>2. Input!IsFiniteSet(ai_requests) BY DEF InputInv, Owed
<1>3. C(ai_requests) \in Nat /\ (C(ai_requests) = 0 <=> ai_requests = {}) BY <1>2, Sizes
<1> QED BY <1>1, <1>2, <1>3, LiveCounted DEF InputInv, Owed

\* Starting: a request more, and what was held is not; when another waits, the start crosses it.
LEMMA StartStep ==
  ASSUME InputInv, Input!Start
  PROVE  InputInv'
<1>1. /\ Input!Started(currentSource) /\ Input!Told(TRUE)
      /\ UNCHANGED <<inputSources, currentSource, ai_output, listing, ai_calls>>
  BY DEF Input!Start
<1>2. currentSource \in 0..(Input!Cardinality(Devices) - 1) \cup {none}
  BY DEF InputInv, Input!TypeOK
<1>3. /\ ai_requests' \subseteq Request /\ streams' \in Seq(Stream) /\ stream' = none
      /\ asked' \in 0..MaxStreams
      /\ Input!Live' = Input!Live \ {stream} /\ (Input!Live \ {stream})' = Input!Live'
      /\ \A s \in Input!Live' : streams'[s] = streams[s]
      /\ Input!IsFiniteSet(ai_requests') /\ C(ai_requests') \in Nat
      /\ C(ai_requests') <= C(ai_requests) + 1
  BY <1>1, <1>2, StartedKeeps
<1>4. on' = TRUE /\ crossings' = IF ai_requests = {} THEN crossings ELSE crossings + 1
  BY <1>1 DEF Input!Told
<1>5. crossings' \in Nat BY <1>4, OwedNumbers
<1>6. Input!TypeOK' BY <1>1, <1>3, <1>4, <1>5 DEF InputInv, Input!TypeOK, Request, Stream
<1>7. C(Input!Live \ {stream}) + C(ai_requests') <= crossings' + 1
      /\ C(Input!Live \ {stream}) <= crossings'
  BY <1>3, <1>4, OwedNumbers
<1>8. C(Input!Live)' = C(Input!Live \ {stream})
      /\ C(Input!Live \ {stream})' = C(Input!Live \ {stream})
      /\ C(ai_requests)' = C(ai_requests')
  BY <1>3 DEF C
<1>9. \A s \in Input!Live' : streams'[s].heard \/ ~ai_output' BY <1>1, <1>3 DEF InputInv, Owed
<1> QED BY <1>3, <1>4, <1>6, <1>7, <1>8, <1>9 DEF InputInv, Owed

\* Stopping and disposing let go of the stream that was held; when a request waits they cross it.
LEMMA StopStep ==
  ASSUME InputInv, Input!Stop \/ Input!Dispose
  PROVE  InputInv'
<1>1. /\ Input!Call /\ streams' = Input!StoppedStreams /\ stream' = none /\ Input!Told(FALSE)
      /\ UNCHANGED <<inputSources, currentSource, ai_requests, listing, asked>>
      /\ ai_output' = ai_output \/ ai_output' = FALSE
  BY DEF Input!Stop, Input!Dispose
<1>2. /\ streams' \in Seq(Stream)
      /\ Input!Live' = Input!Live \ {stream} /\ (Input!Live \ {stream})' = Input!Live'
      /\ \A s \in Input!Live' : streams'[s] = streams[s]
  BY <1>1, Stopped DEF InputInv
<1>3. on' = FALSE /\ crossings' = IF ai_requests = {} THEN crossings ELSE crossings + 1
  BY <1>1 DEF Input!Told
<1>4. crossings' \in Nat BY <1>3, OwedNumbers
<1>5. ai_calls' \in 0..ai_MaxCalls BY <1>1, InputAssumption DEF Input!Call, InputInv, Input!TypeOK
<1>6. Input!TypeOK' BY <1>1, <1>2, <1>3, <1>4, <1>5 DEF InputInv, Input!TypeOK, Stream
<1>7. C(Input!Live \ {stream}) + C(ai_requests) <= crossings'
      /\ C(Input!Live \ {stream}) <= crossings'
  BY <1>3, OwedNumbers
<1>8. C(Input!Live)' = C(Input!Live \ {stream})
      /\ C(Input!Live \ {stream})' = C(Input!Live \ {stream})
      /\ C(ai_requests)' = C(ai_requests)
  BY <1>1, <1>2 DEF C
<1>9. \A s \in Input!Live' : streams'[s].heard \/ ~ai_output' BY <1>1, <1>2 DEF InputInv, Owed
<1>10. Input!IsFiniteSet(ai_requests)' BY <1>1 DEF InputInv, Owed
<1>11. C(Input!Live)' + C(ai_requests)' <= crossings' + (IF on' THEN 1 ELSE 0)
  BY <1>3, <1>4, <1>7, <1>8
<1> QED BY <1>6, <1>7, <1>8, <1>9, <1>10, <1>11 DEF InputInv, Owed

\* Choosing a source starts again what is live, and leaves the rest.
LEMMA SetSourceStep ==
  ASSUME InputInv, NEW num \in 0..(Input!Cardinality(Devices) - 1), Input!SetSource(num)
  PROVE  InputInv'
<1>1. /\ Input!Call /\ UNCHANGED <<inputSources, ai_output, listing, on, crossings>>
      /\ currentSource' = IF num < Len(inputSources) THEN num ELSE currentSource
  BY DEF Input!SetSource
<1>2. PICK source \in 0..(Input!Cardinality(Devices) - 1) \cup {none} : source = currentSource'
  BY <1>1 DEF InputInv, Input!TypeOK
<1>3. ai_calls' \in 0..ai_MaxCalls BY <1>1, InputAssumption DEF Input!Call, InputInv, Input!TypeOK
<1>4. CASE stream /= none /\ streams[stream].live
  <2>1. Input!Started(source) BY <1>2, <1>4 DEF Input!SetSource
  <2>2. /\ ai_requests' \subseteq Request /\ streams' \in Seq(Stream) /\ stream' = none
        /\ asked' \in 0..MaxStreams
        /\ Input!Live' = Input!Live \ {stream} /\ (Input!Live \ {stream})' = Input!Live'
        /\ \A s \in Input!Live' : streams'[s] = streams[s]
        /\ Input!IsFiniteSet(ai_requests') /\ C(ai_requests') \in Nat
        /\ C(ai_requests') <= C(ai_requests) + 1
    BY <2>1, StartedKeeps
  <2>3. Input!TypeOK' BY <1>1, <1>2, <1>3, <2>2 DEF InputInv, Input!TypeOK, Request, Stream
  <2>4. stream \in Input!Live BY <1>4 DEF InputInv, Input!TypeOK, Input!Live
  <2>5. C(Input!Live \ {stream}) + C(ai_requests') <= crossings + (IF on THEN 1 ELSE 0)
        /\ C(Input!Live \ {stream}) <= crossings
    BY <2>2, <2>4, OwedNumbers
  <2>6. C(Input!Live)' = C(Input!Live \ {stream})
        /\ C(Input!Live \ {stream})' = C(Input!Live \ {stream})
        /\ C(ai_requests)' = C(ai_requests')
    BY <2>2 DEF C
  <2>7. \A s \in Input!Live' : streams'[s].heard \/ ~ai_output' BY <1>1, <2>2 DEF InputInv, Owed
  <2> QED BY <1>1, <2>2, <2>3, <2>5, <2>6, <2>7 DEF InputInv, Owed
<1>5. CASE ~(stream /= none /\ streams[stream].live)
  <2>1. UNCHANGED <<ai_requests, stream, streams, asked>> BY <1>5 DEF Input!SetSource
  <2>2. Input!TypeOK' BY <1>1, <1>2, <1>3, <2>1 DEF InputInv, Input!TypeOK
  <2>3. Owed' BY <1>1, <2>1 DEF InputInv, Owed, Input!Live, C
  <2> QED BY <2>2, <2>3 DEF InputInv
<1> QED BY <1>4, <1>5

\* A stream is given to a request, which no longer waits; what was held is let go of.
LEMMA GivenStep ==
  ASSUME InputInv, NEW r \in ai_requests, Input!Given(r)
  PROVE  InputInv'
<1> DEFINE e == [device |-> r.device, live |-> TRUE, heard |-> ai_output]
           n == Len(streams) + 1
<1>1. /\ ai_requests' = ai_requests \ {r} /\ stream' = n
      /\ UNCHANGED <<inputSources, currentSource, ai_output, listing, asked, ai_calls, on,
                     crossings>>
      /\ streams' = Append(streams, e)
  BY DEF Input!Given
<1>2. streams \in Seq(Stream) /\ r \in Request BY DEF InputInv, Input!TypeOK, Stream, Request
<1>3. e \in Stream /\ e.live /\ e.heard = ai_output
  BY <1>2 DEF Stream, Request, InputInv, Input!TypeOK
<1> HIDE DEF e
<1>4. /\ streams' \in Seq(Stream) /\ Len(streams') = n
      /\ \A s \in 1..Len(streams) : streams'[s] = streams[s]
      /\ streams'[n] = e
  BY <1>1, <1>2, <1>3, AppendProperties
<1>5. Len(streams) \in Nat /\ DOMAIN streams = 1..Len(streams)
      /\ DOMAIN streams' = 1..Len(streams') BY <1>2, <1>4
<1>6. DOMAIN streams' = (DOMAIN streams) \cup {n} /\ n \in DOMAIN streams' /\ n \notin DOMAIN streams
  BY <1>4, <1>5
<1> HIDE DEF n
<1>7. Input!TypeOK' BY <1>1, <1>4, <1>6 DEF InputInv, Input!TypeOK, Stream
<1>8. Input!Live' = Input!Live \cup {n} /\ n \notin Input!Live
      /\ \A s \in Input!Live : streams'[s] = streams[s]
  <2>1. Input!Live' = {s \in DOMAIN streams' : streams'[s].live} BY DEF Input!Live
  <2> QED BY <1>3, <1>4, <1>5, <1>6, <2>1 DEF Input!Live
<1>9. (Input!Live \ {stream})' = Input!Live BY <1>1, <1>8
<1>10. /\ C(Input!Live \cup {n}) = C(Input!Live) + 1
       /\ Input!IsFiniteSet(ai_requests \ {r}) /\ C(ai_requests \ {r}) = C(ai_requests) - 1
  BY <1>8, Sizes, LiveCounted, OwedNumbers DEF InputInv
<1>11. /\ C(Input!Live)' = C(Input!Live) + 1 /\ C(Input!Live \ {stream})' = C(Input!Live)
       /\ C(ai_requests)' = C(ai_requests) - 1 /\ Input!IsFiniteSet(ai_requests)'
  BY <1>1, <1>8, <1>9, <1>10 DEF C
<1>12. C(Input!Live) <= crossings BY OwedNumbers
<1>13. C(Input!Live) + 1 + (C(ai_requests) - 1) <= crossings + (IF on THEN 1 ELSE 0)
  BY OwedNumbers
<1>14. \A s \in Input!Live' : streams'[s].heard \/ ~ai_output'
  BY <1>1, <1>3, <1>4, <1>8 DEF InputInv, Owed
<1> QED BY <1>1, <1>7, <1>11, <1>12, <1>13, <1>14 DEF InputInv, Owed

\* A request that is refused no longer waits.
LEMMA RefusedStep ==
  ASSUME InputInv, NEW r \in ai_requests, Input!Refused(r)
  PROVE  InputInv'
<1>1. /\ ai_requests' = ai_requests \ {r}
      /\ UNCHANGED <<inputSources, currentSource, stream, ai_output, listing, streams, asked,
                     ai_calls, on, crossings>>
  BY DEF Input!Refused
<1>2. Input!TypeOK' BY <1>1 DEF InputInv, Input!TypeOK
<1>3. Input!IsFiniteSet(ai_requests \ {r}) /\ C(ai_requests \ {r}) = C(ai_requests) - 1
  BY Sizes, OwedNumbers
<1>4. C(ai_requests)' = C(ai_requests) - 1 /\ Input!IsFiniteSet(ai_requests)'
      /\ Input!Live' = Input!Live /\ C(Input!Live)' = C(Input!Live)
      /\ C(Input!Live \ {stream})' = C(Input!Live \ {stream})
  BY <1>1, <1>3 DEF C, Input!Live
<1>5. C(Input!Live) + (C(ai_requests) - 1) <= crossings + (IF on THEN 1 ELSE 0) BY OwedNumbers
<1> QED BY <1>1, <1>2, <1>4, <1>5 DEF InputInv, Owed

\* A device that goes away takes its stream with it.
LEMMA UnpluggedStep ==
  ASSUME InputInv, NEW s \in DOMAIN streams, Input!Unplugged(s)
  PROVE  InputInv'
<1> DEFINE e == [streams[s] EXCEPT !.live = FALSE]
<1>1. /\ streams[s].live /\ streams' = [streams EXCEPT ![s] = e]
      /\ UNCHANGED <<inputSources, currentSource, stream, ai_output, ai_requests, listing, asked,
                     ai_calls, on, crossings>>
  BY DEF Input!Unplugged
<1>2. streams \in Seq(Stream) BY DEF InputInv, Input!TypeOK, Stream
<1>3. streams[s] \in Stream BY <1>2, ElementOfSeq
<1>4. e \in Stream /\ ~e.live BY <1>3 DEF Stream
<1> HIDE DEF e
<1>5. streams' \in Seq(Stream) BY <1>1, <1>2, <1>4, ExceptSeq
<1>6. DOMAIN streams' = DOMAIN streams /\ streams'[s] = e
      /\ \A q \in DOMAIN streams : q /= s => streams'[q] = streams[q]
  BY <1>1
<1>7. Input!TypeOK' BY <1>1, <1>5, <1>6 DEF InputInv, Input!TypeOK, Stream
<1>8. Input!Live' = Input!Live \ {s}
  <2>1. Input!Live' = {q \in DOMAIN streams' : streams'[q].live} BY DEF Input!Live
  <2> QED BY <1>4, <1>6, <2>1 DEF Input!Live
<1>9. (Input!Live \ {stream})' = (Input!Live \ {stream}) \ {s} BY <1>1, <1>8
<1>10. /\ C(Input!Live \ {s}) \in Nat /\ C(Input!Live \ {s}) <= C(Input!Live)
       /\ C((Input!Live \ {stream}) \ {s}) <= C(Input!Live \ {stream})
  <2>1. Input!IsFiniteSet(Input!Live) /\ Input!IsFiniteSet(Input!Live \ {stream})
    BY LiveCounted, Sizes DEF InputInv
  <2>2. /\ C(Input!Live \ {s}) = IF s \in Input!Live THEN C(Input!Live) - 1 ELSE C(Input!Live)
        /\ C((Input!Live \ {stream}) \ {s})
             = IF s \in Input!Live \ {stream} THEN C(Input!Live \ {stream}) - 1
               ELSE C(Input!Live \ {stream})
        /\ Input!IsFiniteSet(Input!Live \ {s})
    BY <2>1, Sizes
  <2>3. C(Input!Live \ {s}) \in Nat BY <2>2, Sizes
  <2> QED BY <2>2, <2>3, OwedNumbers
<1>11. /\ C(Input!Live)' = C(Input!Live \ {s}) /\ C(ai_requests)' = C(ai_requests)
       /\ C(Input!Live \ {stream})' = C((Input!Live \ {stream}) \ {s})
  BY <1>1, <1>8, <1>9 DEF C
<1>12. /\ C(Input!Live \ {s}) + C(ai_requests) <= crossings + (IF on THEN 1 ELSE 0)
       /\ C((Input!Live \ {stream}) \ {s}) <= crossings
  <2>1. C((Input!Live \ {stream}) \ {s}) \in Nat
    BY LiveCounted, Sizes DEF InputInv
  <2> QED BY <1>10, <2>1, OwedNumbers
<1>13. \A q \in Input!Live' : streams'[q].heard \/ ~ai_output'
  BY <1>1, <1>6, <1>8 DEF InputInv, Owed, Input!Live
<1> QED BY <1>1, <1>7, <1>11, <1>12, <1>13 DEF InputInv, Owed

\* The devices that are listed are devices there may be.
LEMMA ListedStep ==
  ASSUME InputInv, NEW list \in Input!Lists, Input!Listed(list)
  PROVE  InputInv'
<1>1. list \in Seq(Devices) BY DEF Input!Lists, Input!SeqOf
<1>2. Input!TypeOK' BY <1>1 DEF Input!Listed, InputInv, Input!TypeOK
<1>3. Owed' BY DEF Input!Listed, InputInv, Owed, Input!Live, C
<1> QED BY <1>2, <1>3 DEF InputInv

-----------------------------------------------------------------------------
(* The theorem. *)

\* Nothing is asked for and nothing held at first.
LEMMA InputInit == Input!Init => InputInv
<1> SUFFICES ASSUME Input!Init PROVE InputInv OBVIOUS
<1>1. Input!TypeOK
  <2>1. streams \in Seq([device : Devices \cup {Default}, live : BOOLEAN, heard : BOOLEAN])
        /\ inputSources \in Seq(Devices)
    BY DEF Input!Init
  <2>2. asked \in 0..MaxStreams /\ ai_calls \in 0..ai_MaxCalls BY InputAssumption DEF Input!Init
  <2>3. {ai_output, listing, on} \subseteq BOOLEAN /\ crossings \in Nat BY DEF Input!Init
  <2>4. ai_requests = {} /\ stream = none /\ currentSource = none BY DEF Input!Init
  <2> QED BY <2>1, <2>2, <2>3, <2>4 DEF Input!TypeOK
<1>2. Input!Live = {} /\ Input!Live \ {stream} = {} /\ ai_requests = {} /\ crossings = 0 /\ on = FALSE
  BY DEF Input!Init, Input!Live
<1>3. Owed BY <1>2, Sizes DEF Owed
<1> QED BY <1>1, <1>3 DEF InputInv

\* Every call, and every answer of the browser, keeps the invariant.
LEMMA InputNext == InputInv /\ [Input!Next]_(Input!vars) => InputInv'
<1> SUFFICES ASSUME InputInv, [Input!Next]_(Input!vars) PROVE InputInv' OBVIOUS
<1>1. CASE UNCHANGED Input!vars
  BY <1>1 DEF Input!vars, InputInv, Input!TypeOK, Owed, Input!Live, C
<1>2. CASE Input!Start BY <1>2, StartStep
<1>3. CASE Input!Stop \/ Input!Dispose BY <1>3, StopStep
<1>4. CASE Input!GetSources
  <2>1. ai_calls' \in 0..ai_MaxCalls
    BY <1>4, InputAssumption DEF Input!GetSources, Input!Call, InputInv, Input!TypeOK
  <2>2. Input!TypeOK' BY <1>4, <2>1 DEF Input!GetSources, InputInv, Input!TypeOK
  <2>3. Owed' BY <1>4 DEF Input!GetSources, InputInv, Owed, Input!Live, C
  <2> QED BY <2>2, <2>3 DEF InputInv
<1>5. ASSUME NEW num \in 0..(Input!Cardinality(Devices) - 1), Input!SetSource(num) PROVE InputInv'
  BY <1>5, SetSourceStep
<1>6. ASSUME NEW r \in ai_requests, Input!Given(r) PROVE InputInv' BY <1>6, GivenStep
<1>7. ASSUME NEW r \in ai_requests, Input!Refused(r) PROVE InputInv' BY <1>7, RefusedStep
<1>8. ASSUME NEW list \in Input!Lists, Input!Listed(list) PROVE InputInv' BY <1>8, ListedStep
<1>9. ASSUME NEW s \in DOMAIN streams, Input!Unplugged(s) PROVE InputInv' BY <1>9, UnpluggedStep
<1> QED BY <1>1, <1>2, <1>3, <1>4, <1>5, <1>6, <1>7, <1>8, <1>9 DEF Input!Next

\* What is live, without what is still asked for, is within what is owed.
LEMMA InputSafe == InputInv => Input!NoneLeftOn
<1> SUFFICES ASSUME InputInv PROVE Input!NoneLeftOn OBVIOUS
<1>1. C(Input!Live) <= crossings + (IF on THEN 1 ELSE 0) BY OwedNumbers
<1> QED BY <1>1 DEF InputInv, Owed, Input!NoneLeftOn, C

\* However often a p5.AudioIn is started, stopped, given other sources and lists of devices,
\* refused, unplugged or disposed of, before or after the browser has answered: besides the
\* microphone that was started last, at most one is left on for each start, stop or dispose called
\* while the browser was asked.
THEOREM NoMicrophoneLeftOn == Input!Spec => []NoneLeftOn
<1>1. InputInv => NoneLeftOn BY InputSafe DEF NoneLeftOn
<1> QED BY <1>1, InputInit, InputNext, PTL DEF Input!Spec

-----------------------------------------------------------------------------
PeakInv ==
  sincePeak <= framesPerPeak + 1 => /\ framesSinceLastPeak = sincePeak
                                    /\ cutoff = (Unit * peak * 3) \div 2

OnsetInv == IF onsetDetected THEN timer \in 0..sensitivity /\ sinceOnset >= sensitivity - timer
            ELSE timer = none /\ sinceOnset = sensitivity

DetectInv == Detect!TypeOK /\ PeakInv /\ OnsetInv

-----------------------------------------------------------------------------
(* Arithmetic. *)

\* What is louder than one and a half times a peak is more than half as loud again.
LEMMA Louder ==
  ASSUME NEW u \in Nat \ {0}, NEW n \in Nat, NEW p \in Nat, u * n > (u * p * 3) \div 2
  PROVE  2 * n > 3 * p
<1>1. PICK a \in Nat : a = u * n /\ a = n * u OBVIOUS
<1>2. PICK b \in Nat : b = u * p /\ b = p * u OBVIOUS
<1>3. 2 * a > 3 * b
  <2>1. a > (b * 3) \div 2 BY <1>1, <1>2
  <2> QED BY <2>1
<1>4. CASE 2 * n <= 3 * p
  <2>1. \A x, y \in Nat : x <= y => u * x <= u * y OBVIOUS
  <2>2. u * (2 * n) <= u * (3 * p) BY <1>4, <2>1
  <2>3. u * (2 * n) = 2 * a /\ u * (3 * p) = 3 * b BY <1>1, <1>2
  <2> QED BY <1>3, <2>2, <2>3
<1> QED BY <1>4

\* The share of a cutoff that a frame leaves, and the cutoff of a peak, are numbers.
LEMMA CutoffTyped ==
  ASSUME NEW n \in Nat, NEW u \in Nat
  PROVE  (u * n * 3) \div 2 \in Nat /\ u * n \in Nat /\ (n * 95) \div 100 \in Nat
<1>1. PICK b \in Nat : b = u * n OBVIOUS
<1> QED BY <1>1

-----------------------------------------------------------------------------
(* The steps. *)

\* A peak sets the cutoff and starts the count.
LEMMA PeakStep ==
  ASSUME DetectInv, NEW nrg \in Energies, Detect!Peak(nrg)
  PROVE  /\ PeakInv' /\ cutoff' \in Nat /\ framesSinceLastPeak' \in 0..(framesPerPeak + 1)
         /\ peak' \in Energies \cup {0} /\ peakDetected' \in BOOLEAN
         /\ sincePeak' \in 0..(framesPerPeak + 2)
<1>1. nrg \in Nat /\ Unit \in Nat BY DetectAssumption
<1>2. (Unit * nrg * 3) \div 2 \in Nat BY <1>1, CutoffTyped
<1>3. /\ cutoff' = (Unit * nrg * 3) \div 2 /\ framesSinceLastPeak' = 0 /\ sincePeak' = 0
      /\ peak' = nrg /\ peakDetected' = TRUE
  BY DEF Detect!Peak
<1>4. PeakInv' BY <1>3, Zenon DEF PeakInv
<1> QED BY <1>2, <1>3, <1>4, DetectAssumption

\* Without a peak the counter goes on as long as the cutoff stays.
LEMMA NoPeakStep ==
  ASSUME DetectInv, NEW nrg \in Energies, Detect!NoPeak(nrg)
  PROVE  /\ PeakInv' /\ cutoff' \in Nat /\ framesSinceLastPeak' \in 0..(framesPerPeak + 1)
         /\ peak' \in Energies \cup {0} /\ peakDetected' \in BOOLEAN
         /\ sincePeak' \in 0..(framesPerPeak + 2)
<1>1. /\ cutoff \in Nat /\ framesSinceLastPeak \in 0..(framesPerPeak + 1)
      /\ sincePeak \in 0..(framesPerPeak + 2) /\ peak \in Energies \cup {0}
      /\ framesPerPeak \in Nat /\ threshold \in Nat /\ Unit \in Nat
  BY DetectAssumption DEF DetectInv, Detect!TypeOK
<1>2. peak' = peak /\ peakDetected' = FALSE BY DEF Detect!NoPeak
<1>3. sincePeak' = IF sincePeak + 1 < framesPerPeak + 2 THEN sincePeak + 1 ELSE framesPerPeak + 2
  BY DEF Detect!NoPeak, Detect!Least
<1>4. /\ peak' \in Energies \cup {0} /\ peakDetected' \in BOOLEAN
       /\ sincePeak' \in 0..(framesPerPeak + 2)
  <2>1. peak' \in Energies \cup {0} /\ peakDetected' \in BOOLEAN BY <1>1, <1>2, Zenon
  <2>2. sincePeak' \in 0..(framesPerPeak + 2) BY <1>1, <1>3
  <2> QED BY <2>1, <2>2
<1>5. CASE framesSinceLastPeak <= framesPerPeak
  <2>1. framesSinceLastPeak' = framesSinceLastPeak + 1 /\ cutoff' = cutoff
    BY <1>5 DEF Detect!NoPeak
  <2>2. sincePeak' <= framesPerPeak + 1 =>
          sincePeak <= framesPerPeak + 1 /\ sincePeak' = sincePeak + 1
    BY <1>1, <1>3
  <2>3. sincePeak' <= framesPerPeak + 1 =>
          /\ framesSinceLastPeak' = sincePeak' /\ cutoff' = (Unit * peak * 3) \div 2
    BY <2>1, <2>2 DEF DetectInv, PeakInv
  <2>4. PeakInv' BY <1>2, <2>3, Zenon DEF PeakInv
  <2>5. cutoff' \in Nat /\ framesSinceLastPeak' \in 0..(framesPerPeak + 1)
    BY <1>1, <1>5, <2>1
  <2> QED BY <1>4, <2>4, <2>5
<1>6. CASE ~(framesSinceLastPeak <= framesPerPeak)
  <2>1. /\ framesSinceLastPeak' = framesSinceLastPeak
        /\ cutoff' = Detect!Largest((cutoff * 95) \div 100, Unit * threshold)
    BY <1>6 DEF Detect!NoPeak
  <2>2. cutoff' \in Nat BY <1>1, <2>1, CutoffTyped DEF Detect!Largest
  <2>3. ~(sincePeak' <= framesPerPeak + 1) BY <1>1, <1>3, <1>6 DEF DetectInv, PeakInv
  <2>4. PeakInv' BY <2>3, Zenon DEF PeakInv
  <2>5. framesSinceLastPeak' \in 0..(framesPerPeak + 1) BY <1>1, <2>1
  <2> QED BY <1>4, <2>2, <2>4, <2>5
<1> QED BY <1>5, <1>6

\* The timer of an onset starts with it, and runs no faster than the frames are drawn.
LEMMA OnsetStep ==
  ASSUME DetectInv, NEW nrg \in Energies, Detect!Onset(nrg)
  PROVE  /\ OnsetInv' /\ onsetDetected' \in BOOLEAN /\ timer' \in 0..sensitivity \cup {none}
         /\ sinceOnset' \in 0..sensitivity
<1>1. /\ sensitivity \in Nat /\ none \notin Nat /\ sinceOnset \in 0..sensitivity
      /\ onsetDetected \in BOOLEAN /\ timer \in 0..sensitivity \cup {none}
  BY DetectAssumption DEF DetectInv, Detect!TypeOK
<1>2. CASE onsetDetected' = TRUE /\ timer' = sensitivity /\ sinceOnset' = 0
  BY <1>1, <1>2 DEF OnsetInv
<1>3. CASE /\ timer' = IF timer \in 1..sensitivity THEN timer - 1 ELSE timer
           /\ sinceOnset' = Detect!Least(sinceOnset + 1, sensitivity)
           /\ UNCHANGED onsetDetected
  <2>1. sinceOnset' = IF sinceOnset + 1 < sensitivity THEN sinceOnset + 1 ELSE sensitivity
    BY <1>3 DEF Detect!Least
  <2>2. CASE onsetDetected
    <3>1. timer \in 0..sensitivity /\ sinceOnset >= sensitivity - timer
      BY <2>2 DEF DetectInv, OnsetInv
    <3>2. timer' \in 0..sensitivity /\ sinceOnset' >= sensitivity - timer'
          /\ sinceOnset' \in 0..sensitivity
      <4>1. CASE timer \in 1..sensitivity BY <1>1, <1>3, <2>1, <3>1, <4>1
      <4>2. CASE timer = 0 BY <1>1, <1>3, <2>1, <3>1, <4>2
      <4> QED BY <1>1, <3>1, <4>1, <4>2
    <3> QED BY <1>1, <1>3, <2>2, <3>2 DEF OnsetInv
  <2>3. CASE ~onsetDetected
    <3>1. timer = none /\ sinceOnset = sensitivity BY <2>3 DEF DetectInv, OnsetInv
    <3>2. none \notin 1..sensitivity BY <1>1
    <3>3. timer' = none BY <1>3, <3>1, <3>2
    <3>4. sinceOnset' = sensitivity BY <1>1, <2>1, <3>1
    <3> QED BY <1>1, <1>3, <2>3, <3>3, <3>4 DEF OnsetInv
  <2> QED BY <2>2, <2>3
<1> QED BY <1>2, <1>3 DEF Detect!Onset

-----------------------------------------------------------------------------
(* The theorems. *)

\* Before the first frame nothing was detected.
LEMMA DetectInit == Detect!Init => DetectInv
<1> SUFFICES ASSUME Detect!Init PROVE DetectInv OBVIOUS
<1>1. Detect!TypeOK
  <2>1. /\ cutoff = 0 /\ framesSinceLastPeak = 0 /\ peakDetected = FALSE /\ peak = 0
        /\ sincePeak = framesPerPeak + 2 /\ onsetDetected = FALSE /\ timer = none
        /\ sinceOnset = sensitivity /\ penergy = 0
    BY DEF Detect!Init, Detect!PeakInit, Detect!OnsetInit
  <2>2. {peakDetected, onsetDetected} \subseteq BOOLEAN BY <2>1, Zenon
  <2>3. /\ 0 \in 0..(framesPerPeak + 1) /\ framesPerPeak + 2 \in 0..(framesPerPeak + 2)
        /\ sensitivity \in 0..sensitivity
    BY DetectAssumption
  <2> QED BY <2>1, <2>2, <2>3 DEF Detect!TypeOK
<1>2. PeakInv /\ OnsetInv
  BY DetectAssumption DEF Detect!Init, Detect!PeakInit, Detect!OnsetInit, PeakInv, OnsetInv
<1> QED BY <1>1, <1>2 DEF DetectInv

\* A frame and a timer keep the invariant.
LEMMA DetectNext == DetectInv /\ [Detect!Next]_(Detect!vars) => DetectInv'
<1> SUFFICES ASSUME DetectInv, [Detect!Next]_(Detect!vars) PROVE DetectInv' OBVIOUS
<1>1. CASE UNCHANGED Detect!vars
  <2>1. UNCHANGED <<cutoff, framesSinceLastPeak, peakDetected, peak, sincePeak, onsetDetected,
                    timer, sinceOnset, penergy>>
    BY <1>1 DEF Detect!vars, Detect!peakVars, Detect!onsetVars
  <2> QED BY <2>1 DEF DetectInv, Detect!TypeOK, PeakInv, OnsetInv
<1>2. ASSUME NEW nrg \in Energies, Detect!Draw(nrg) PROVE DetectInv'
  <2>1. penergy' = nrg /\ Detect!Onset(nrg) /\ (Detect!Peak(nrg) \/ Detect!NoPeak(nrg))
    BY <1>2 DEF Detect!Draw
  <2>2. /\ PeakInv' /\ cutoff' \in Nat /\ framesSinceLastPeak' \in 0..(framesPerPeak + 1)
        /\ peak' \in Energies \cup {0} /\ peakDetected' \in BOOLEAN
        /\ sincePeak' \in 0..(framesPerPeak + 2)
    BY <2>1, PeakStep, NoPeakStep
  <2>3. /\ OnsetInv' /\ onsetDetected' \in BOOLEAN /\ timer' \in 0..sensitivity \cup {none}
        /\ sinceOnset' \in 0..sensitivity
    BY <2>1, OnsetStep
  <2>4. Detect!TypeOK' BY <2>1, <2>2, <2>3 DEF Detect!TypeOK
  <2> QED BY <2>2, <2>3, <2>4 DEF DetectInv
<1>3. CASE Detect!Timeout
  <2>1. /\ timer = 0 /\ timer' = none /\ onsetDetected' = FALSE
        /\ UNCHANGED <<cutoff, framesSinceLastPeak, peakDetected, peak, sincePeak, sinceOnset,
                       penergy>>
    BY <1>3 DEF Detect!Timeout, Detect!peakVars
  <2>2. onsetDetected /\ sinceOnset = sensitivity
    BY <2>1, DetectAssumption DEF DetectInv, Detect!TypeOK, OnsetInv
  <2>3. Detect!TypeOK' BY <2>1 DEF DetectInv, Detect!TypeOK
  <2>4. PeakInv' BY <2>1 DEF DetectInv, PeakInv
  <2>5. OnsetInv' BY <2>1, <2>2 DEF OnsetInv
  <2> QED BY <2>3, <2>4, <2>5 DEF DetectInv
<1> QED BY <1>1, <1>2, <1>3 DEF Detect!Next

\* A peak is above the cutoff its predecessor set, and an onset finds the timer run out.
LEMMA DetectStep ==
  ASSUME DetectInv
  PROVE  /\ \A nrg \in Energies :
              Detect!Peak(nrg) /\ sincePeak <= framesPerPeak + 1 => 2 * nrg > 3 * peak
         /\ ~onsetDetected => sinceOnset >= sensitivity
<1>1. ASSUME NEW nrg \in Energies, Detect!Peak(nrg), sincePeak <= framesPerPeak + 1
      PROVE  2 * nrg > 3 * peak
  <2>1. Unit * nrg > (Unit * peak * 3) \div 2 BY <1>1 DEF Detect!Peak, DetectInv, PeakInv
  <2>2. nrg \in Energies /\ peak \in Energies \cup {0} BY <1>1, Zenon DEF DetectInv, Detect!TypeOK
  <2>3. nrg \in Nat /\ peak \in Nat /\ Unit \in Nat \ {0} BY <2>2, DetectAssumption
  <2> QED BY <2>1, <2>3, Louder
<1>2. ASSUME ~onsetDetected PROVE sinceOnset >= sensitivity
  BY <1>2, DetectAssumption DEF DetectInv, OnsetInv
<1> QED BY <1>1, <1>2

\* Whatever a sketch hears and however late its timers are: no peak is reported within
\* framesPerPeak + 1 frames of another unless it is more than half as loud again, and
\* no onset within the sensitivity of another.
THEOREM Detections == Detect!Spec => DetectionsApart
<1>1. DetectInv /\ [Detect!Next]_(Detect!vars) =>
        [/\ \A nrg \in Energies :
              Detect!Peak(nrg) /\ sincePeak <= framesPerPeak + 1 => 2 * nrg > 3 * peak
         /\ onsetDetected' /\ ~onsetDetected => sinceOnset >= sensitivity]_(Detect!vars)
  BY DetectStep
<1> QED BY <1>1, DetectInit, DetectNext, PTL DEF Detect!Spec, DetectionsApart, Detect!DetectionsApart

-----------------------------------------------------------------------------
\* Each file has a buffer and counts of what its callbacks were told.
LoadInv == /\ ld_buffer = [f \in Files |-> ld_buffer[f]]
           /\ told \in [Files -> [loaded : Nat, failed : Nat, unplayable : Nat]]

\* What a file that was disposed of keeps in a step.
LeftAlone == \A f \in Files \ panner :
               told'[f].loaded = told[f].loaded /\ ld_buffer'[f] \in {ld_buffer[f], samples}

\* What is told of one file, of a load that failed or was of nothing, tells none that it was loaded.
LEMMA ToldOtherwise ==
  ASSUME told \in [Files -> [loaded : Nat, failed : Nat, unplayable : Nat]],
         NEW f \in Files, NEW why \in {"failed", "unplayable"},
         NEW t, t = [told EXCEPT ![f][why] = @ + 1]
  PROVE  /\ t \in [Files -> [loaded : Nat, failed : Nat, unplayable : Nat]]
         /\ \A q \in Files : t[q].loaded = told[q].loaded
<1> DEFINE e == [told[f] EXCEPT ![why] = @ + 1]
<1>1. told[f] \in [loaded : Nat, failed : Nat, unplayable : Nat] OBVIOUS
<1>2. e \in [loaded : Nat, failed : Nat, unplayable : Nat] /\ e.loaded = told[f].loaded
  <2>1. CASE why = "failed" BY <1>1, <2>1
  <2>2. CASE why = "unplayable" BY <1>1, <2>2
  <2> QED BY <2>1, <2>2
<1>3. t = [told EXCEPT ![f] = e] OBVIOUS
<1> HIDE DEF e
<1> QED BY <1>2, <1>3

\* Asking for a file counts at most that there is nothing to play.
LEMMA AskedFor ==
  ASSUME LoadInv, NEW f \in Files, NEW g, NEW preload, Loading!Load(f, g, preload),
    ld_buffer' = ld_buffer
  PROVE  LoadInv' /\ LeftAlone
<1>1. CASE told' = told BY <1>1 DEF LoadInv, LeftAlone
<1>2. CASE told' = [told EXCEPT ![f].unplayable = @ + 1]
  <2>1. /\ told' \in [Files -> [loaded : Nat, failed : Nat, unplayable : Nat]]
        /\ \A q \in Files : told'[q].loaded = told[q].loaded
    BY <1>2, ToldOtherwise DEF LoadInv
  <2> QED BY <2>1 DEF LoadInv, LeftAlone
<1>3. told' = told \/ told' = [told EXCEPT ![f].unplayable = @ + 1] BY DEF Loading!Load
<1> QED BY <1>1, <1>2, <1>3

\* A load that is decoded is told to its file while that is there.
LEMMA DecodedFor ==
  ASSUME LoadInv, NEW f \in Files, NEW i, Loading!Decoded(f, i)
  PROVE  LoadInv' /\ LeftAlone
<1>1. CASE f \notin panner BY <1>1 DEF Loading!Decoded, Loading!Awaited, LoadInv, LeftAlone
<1>2. CASE f \in panner
  <2> DEFINE e == [told[f] EXCEPT !.loaded = @ + 1]
             b == ld_requests[f][i].url
  <2>1. told' = [told EXCEPT ![f] = e] /\ ld_buffer' = [ld_buffer EXCEPT ![f] = b]
    BY <1>2 DEF Loading!Decoded, Loading!Awaited
  <2>2. told[f] \in [loaded : Nat, failed : Nat, unplayable : Nat] BY DEF LoadInv
  <2>3. e \in [loaded : Nat, failed : Nat, unplayable : Nat] BY <2>2
  <2> HIDE DEF e, b
  <2>4. LoadInv' BY <2>1, <2>3 DEF LoadInv
  <2>5. \A q \in Files : q /= f => told'[q] = told[q] /\ ld_buffer'[q] = ld_buffer[q]
    BY <2>1 DEF LoadInv
  <2> QED BY <1>2, <2>4, <2>5 DEF LeftAlone
<1> QED BY <1>1, <1>2

\* A load that fails is told as that, even to a file that is gone (request.onerror).
LEMMA FailedFor ==
  ASSUME LoadInv, NEW f \in Files, NEW i, Loading!Failed(f, i) \/ Loading!Unplayable(f,
    i) \/ Loading!NoAnswer(f, i)
  PROVE  LoadInv' /\ LeftAlone
<1>1. ld_buffer' = ld_buffer
  BY DEF Loading!Failed, Loading!Unplayable, Loading!NoAnswer, Loading!FailedAs
<1>2. CASE told' = told BY <1>1, <1>2 DEF LoadInv, LeftAlone
<1>3. ASSUME NEW why \in {"failed", "unplayable"}, told' = [told EXCEPT ![f][why] = @ + 1]
      PROVE  LoadInv' /\ LeftAlone
  <2>1. /\ told' \in [Files -> [loaded : Nat, failed : Nat, unplayable : Nat]]
        /\ \A q \in Files : told'[q].loaded = told[q].loaded
    BY <1>3, ToldOtherwise DEF LoadInv
  <2> QED BY <1>1, <2>1 DEF LoadInv, LeftAlone
<1>4. \/ told' = told
      \/ \E why \in {"failed", "unplayable"} : told' = [told EXCEPT ![f][why] = @ + 1]
  BY DEF Loading!Failed, Loading!Unplayable, Loading!NoAnswer, Loading!FailedAs
<1> QED BY <1>2, <1>3, <1>4

LEMMA LoadInit == Loading!Init => LoadInv
BY DEF Loading!Init, LoadInv

\* Every call and every answer leave the files alone that were disposed of.
LEMMA LoadNext == LoadInv /\ [Loading!Next]_(Loading!vars) => LoadInv' /\ LeftAlone
<1> SUFFICES ASSUME LoadInv, [Loading!Next]_(Loading!vars) PROVE LoadInv' /\ LeftAlone OBVIOUS
<1>1. CASE ld_buffer' = ld_buffer /\ told' = told BY <1>1 DEF LoadInv, LeftAlone
<1>2. CASE UNCHANGED Loading!vars BY <1>1, <1>2 DEF Loading!vars
<1>3. ASSUME NEW formats \in Formats, Loading!SoundFormats(formats) PROVE LoadInv' /\ LeftAlone
  BY <1>1, <1>3 DEF Loading!SoundFormats
<1>4. ASSUME NEW f \in Files, NEW g \in ld_Given, Loading!LoadSound(f, g) \/ Loading!SetPath(f, g)
      PROVE  LoadInv' /\ LeftAlone
  BY <1>4, AskedFor DEF Loading!LoadSound, Loading!SetPath
<1>5. ASSUME NEW f \in Files, Loading!SetBuffer(f) PROVE LoadInv' /\ LeftAlone
  BY <1>5 DEF Loading!SetBuffer, LoadInv, LeftAlone
<1>6. ASSUME NEW f \in Files, Loading!Dispose(f) PROVE LoadInv' /\ LeftAlone
  BY <1>1, <1>6 DEF Loading!Dispose
<1>7. ASSUME NEW f \in Files, NEW i \in DOMAIN ld_requests[f], Loading!Ends(f, i)
      PROVE  LoadInv' /\ LeftAlone
  <2>1. CASE Loading!Answered(f, i) BY <1>1, <2>1 DEF Loading!Answered
  <2>2. CASE Loading!Decoded(f, i) BY <2>2, DecodedFor
  <2>3. CASE Loading!Failed(f, i) \/ Loading!Unplayable(f, i) \/ Loading!NoAnswer(f, i)
    BY <2>3, FailedFor
  <2> QED BY <1>7, <2>1, <2>2, <2>3 DEF Loading!Ends
<1>8. CASE Loading!Setup BY <1>1, <1>8 DEF Loading!Setup
<1> QED BY <1>2, <1>3, <1>4, <1>5, <1>6, <1>7, <1>8 DEF Loading!Next

\* At whichever stage a load is when its file is disposed of: the file is not told that
\* it was loaded, and gets no buffer from it.
THEOREM DisposedIsQuiet == Loading!Spec => QuietAfterDispose
<1>1. LoadInv /\ [Loading!Next]_(Loading!vars) =>
        [\A f \in Files \ panner :
           told'[f].loaded = told[f].loaded
           /\ ld_buffer'[f] \in {ld_buffer[f], samples}]_(Loading!vars)
  BY LoadNext DEF LeftAlone
<1>2. LoadInv /\ [Loading!Next]_(Loading!vars) => LoadInv' BY LoadNext
<1> QED BY <1>1, <1>2, LoadInit, PTL DEF Loading!Spec, QuietAfterDispose, Loading!QuietAfterDispose

-----------------------------------------------------------------------------
ConvNode == [buffer : cv_Names \cup {computed, none}, connected : BOOLEAN]

\* What the methods that call each other are given, and keep.
Wiring(s) == s.nodes \in Seq(ConvNode) /\ s.node \in DOMAIN s.nodes \cup {none}

\* Only the node that counts is connected, and the second of a Convolver.
OneConnected(s) ==
  \A n \in DOMAIN s.nodes : s.nodes[n].connected => n = s.node \/ (n = 2 /\ ~set)

\* Only a Convolver loads; one has a node until it is disposed of.
KindInv == /\ set => cv_requests = {} /\ impulses = <<>> /\ wanted = computed
           /\ ac => convolverNode /= none
           /\ ordered => ac

\* The calls are numbered in their order; the one asked for last is on its way, or it was answered.
OrderInv == /\ \A r, q \in cv_requests : r.id = q.id => r = q
            /\ \A r \in cv_requests : r.id <= cv_loads + cv_calls /\ r.id /= latest
            /\ latest <= cv_loads + cv_calls
            /\ \A r \in cv_requests :
                 r.id > latest /\ (\A q \in cv_requests : q.id <= r.id) => r.name = wanted
            /\ ordered /\ (\A r \in cv_requests : r.id < latest) =>
                 cv_nodes[convolverNode].buffer = wanted

Connected == \A n \in DOMAIN cv_nodes : cv_nodes[n].connected =>
  n = convolverNode \/ (n = 2 /\ ~set)

ReverbInv == Reverbs!TypeOK /\ Connected /\ KindInv /\ OrderInv

-----------------------------------------------------------------------------
(* The methods that call each other. *)

\* Tearing down disconnects the node that counts.
LEMMA TornDown ==
  ASSUME NEW s, Wiring(s), OneConnected(s)
  PROVE  /\ Wiring(Reverbs!Teardown(s)) /\ OneConnected(Reverbs!Teardown(s))
         /\ Reverbs!Teardown(s).node = none /\ Len(Reverbs!Teardown(s).nodes) = Len(s.nodes)
         /\ \A n \in DOMAIN s.nodes : Reverbs!Teardown(s).nodes[n].connected => n = 2 /\ ~set
<1>1. \A n \in DOMAIN s.nodes : n \in Nat /\ s.nodes[n] \in ConvNode
  <2>1. DOMAIN s.nodes = 1..Len(s.nodes) /\ Len(s.nodes) \in Nat BY DEF Wiring
  <2> QED BY <2>1, ElementOfSeq DEF Wiring
<1>2. CASE s.node = none
  <2>1. Reverbs!Teardown(s) = s BY <1>2 DEF Reverbs!Teardown
  <2>2. \A n \in DOMAIN s.nodes : n /= s.node BY <1>1, <1>2, ReverbAssumption
  <2> QED BY <1>2, <2>1, <2>2 DEF OneConnected
<1>3. CASE s.node /= none
  <2> DEFINE e == [s.nodes[s.node] EXCEPT !.connected = FALSE]
             t == [s.nodes EXCEPT ![s.node] = e]
  <2>1. s.node \in DOMAIN s.nodes BY <1>3 DEF Wiring
  <2>2. e \in ConvNode /\ ~e.connected BY <1>1, <2>1 DEF ConvNode
  <2>3. Reverbs!Teardown(s) = [nodes |-> t, node |-> none] BY <1>3 DEF Reverbs!Teardown
  <2> HIDE DEF e
  <2>4. t \in Seq(ConvNode) /\ Len(t) = Len(s.nodes)
    BY <2>1, <2>2, ExceptSeq DEF Wiring
  <2>5. DOMAIN t = DOMAIN s.nodes /\ t[s.node] = e
        /\ \A n \in DOMAIN s.nodes : n /= s.node => t[n] = s.nodes[n]
    BY <2>1
  <2> HIDE DEF t
  <2>6. \A n \in DOMAIN s.nodes : t[n].connected => n = 2 /\ ~set
    BY <2>2, <2>5 DEF OneConnected
  <2> QED BY <2>3, <2>4, <2>5, <2>6 DEF Wiring, OneConnected
<1> QED BY <1>2, <1>3

\* A new node counts from then on, and is connected.
LEMMA NodeAdded ==
  ASSUME NEW s, s.nodes \in Seq(ConvNode)
  PROVE  LET t == Reverbs!InitNode(s) IN
         /\ Wiring(t) /\ t.node = Len(s.nodes) + 1 /\ Len(t.nodes) = Len(s.nodes) + 1
         /\ t.nodes[t.node] = [buffer |-> none, connected |-> TRUE]
         /\ \A n \in DOMAIN s.nodes : t.nodes[n] = s.nodes[n]
<1> DEFINE e == [buffer |-> none, connected |-> TRUE]
           u == Append(s.nodes, e)
<1>1. e \in ConvNode BY DEF ConvNode
<1>2. Reverbs!InitNode(s) = [nodes |-> u, node |-> Len(s.nodes) + 1] BY DEF Reverbs!InitNode
<1> HIDE DEF e
<1>3. Len(s.nodes) \in Nat /\ DOMAIN s.nodes = 1..Len(s.nodes) OBVIOUS
<1>4. /\ u \in Seq(ConvNode) /\ Len(u) = Len(s.nodes) + 1 /\ u[Len(s.nodes) + 1] = e
      /\ \A n \in 1..Len(s.nodes) : u[n] = s.nodes[n]
  BY <1>1, AppendProperties
<1>5. DOMAIN u = 1..(Len(s.nodes) + 1) BY <1>3, <1>4
<1> HIDE DEF u
<1>6. Len(s.nodes) + 1 \in DOMAIN u BY <1>3, <1>5
<1> QED BY <1>2, <1>3, <1>4, <1>6 DEF Wiring, e

\* A buffer is set in a new node that takes the place of the one that counted.
LEMMA BufferSet ==
  ASSUME NEW s, Wiring(s), OneConnected(s), NEW b \in cv_Names \cup {computed, none}
  PROVE  LET t == Reverbs!SetBuffer(s, b) IN
         /\ Wiring(t) /\ OneConnected(t)
         /\ t.node \in Nat /\ t.node /= none /\ t.nodes[t.node].buffer = b
         /\ t.node = Len(s.nodes) + 1 /\ Len(t.nodes) = Len(s.nodes) + 1
<1> DEFINE d == Reverbs!Teardown(s)
           w == Reverbs!InitNode(d)
           e == [w.nodes[w.node] EXCEPT !.buffer = b]
           u == [w.nodes EXCEPT ![w.node] = e]
<1>1. /\ Wiring(d) /\ Len(d.nodes) = Len(s.nodes)
      /\ \A n \in DOMAIN d.nodes : d.nodes[n].connected => n = 2 /\ ~set
  <2>1. /\ Wiring(d) /\ Len(d.nodes) = Len(s.nodes)
        /\ \A n \in DOMAIN s.nodes : d.nodes[n].connected => n = 2 /\ ~set
    BY TornDown
  <2>2. DOMAIN d.nodes = DOMAIN s.nodes BY <2>1 DEF Wiring
  <2> QED BY <2>1, <2>2
<1> HIDE DEF d
<1>2. /\ Wiring(w) /\ w.node = Len(d.nodes) + 1 /\ Len(w.nodes) = Len(d.nodes) + 1
      /\ w.nodes[w.node] = [buffer |-> none, connected |-> TRUE]
      /\ \A n \in DOMAIN d.nodes : w.nodes[n] = d.nodes[n]
  BY <1>1, NodeAdded DEF Wiring
<1>3. Reverbs!SetBuffer(s, b) = [nodes |-> u, node |-> w.node]
  <2>1. Reverbs!SetBuffer(s, b) = [w EXCEPT !.nodes[w.node].buffer = b] BY DEF Reverbs!SetBuffer, d
  <2>2. w = [nodes |-> w.nodes, node |-> w.node] BY DEF Reverbs!InitNode
  <2> HIDE DEF w
  <2>3. [w EXCEPT !.nodes = u] = [nodes |-> u, node |-> w.node] BY <2>2
  <2> QED BY <2>1, <2>3
<1> HIDE DEF w
<1>4. Len(s.nodes) \in Nat BY DEF Wiring
<1>5. w.node \in Nat /\ w.node = Len(s.nodes) + 1 /\ w.nodes \in Seq(ConvNode)
      /\ Len(w.nodes) = Len(s.nodes) + 1 /\ w.node \in DOMAIN w.nodes
  <2>1. w.nodes \in Seq(ConvNode) /\ Len(w.nodes) = Len(s.nodes) + 1 /\ w.node = Len(s.nodes) + 1
    BY <1>1, <1>2 DEF Wiring
  <2> QED BY <1>4, <2>1
<1>6. e \in ConvNode /\ e.buffer = b
  <2> DEFINE v == w.nodes[w.node]
  <2>1. e = [v EXCEPT !.buffer = b] /\ v = [buffer |-> none, connected |-> TRUE] BY <1>2
  <2> HIDE DEF v, e
  <2>2. e = [buffer |-> b, connected |-> TRUE] BY <2>1
  <2> QED BY <2>2 DEF ConvNode
<1> HIDE DEF e
<1>7. u \in Seq(ConvNode) /\ Len(u) = Len(w.nodes) BY <1>5, <1>6, ExceptSeq
<1>8. DOMAIN u = DOMAIN w.nodes /\ u[w.node] = e
      /\ \A n \in DOMAIN w.nodes : n /= w.node => u[n] = w.nodes[n]
  BY <1>5
<1> HIDE DEF u
<1>9. \A n \in DOMAIN u : u[n].connected => n = w.node \/ (n = 2 /\ ~set)
  <2> SUFFICES ASSUME NEW n \in DOMAIN w.nodes, n /= w.node, u[n].connected
               PROVE  n = 2 /\ ~set
    BY <1>8
  <2>1. n \in DOMAIN d.nodes
    <3>1. DOMAIN w.nodes = 1..(Len(s.nodes) + 1) BY <1>5
    <3>2. DOMAIN d.nodes = 1..Len(s.nodes) BY <1>1 DEF Wiring
    <3> QED BY <1>4, <1>5, <3>1, <3>2
  <2> QED BY <1>1, <1>2, <1>8, <2>1
<1> QED BY <1>3, <1>5, <1>6, <1>7, <1>8, <1>9, ReverbAssumption DEF Wiring, OneConnected

-----------------------------------------------------------------------------
(* The steps. *)

\* What the methods are given has the shape they keep.
LEMMA CurrentWired ==
  ASSUME ReverbInv
  PROVE  /\ Wiring(Reverbs!Current) /\ OneConnected(Reverbs!Current)
         /\ Reverbs!Current.nodes = cv_nodes /\ Reverbs!Current.node = convolverNode
BY DEF ReverbInv, Reverbs!TypeOK, Connected, Reverbs!Current, Wiring, OneConnected, ConvNode

\* The constructors leave the node that counts, or the second one too.
LEMMA Constructed ==
  ASSUME NEW path \in cv_Names \cup {none}
  PROVE  LET s == IF set THEN Reverbs!Reverb ELSE Reverbs!Built(path) IN
         /\ Wiring(s) /\ OneConnected(s) /\ s.node /= none
         /\ set \/ path = none => s.nodes[s.node].buffer = computed
<1> DEFINE s0 == [nodes |-> <<>>, node |-> none]
           s1 == Reverbs!InitNode(s0)
           s3 == Reverbs!InitNode(Reverbs!Reverb)
<1>1. s0.nodes \in Seq(ConvNode) /\ Len(s0.nodes) = 0 /\ DOMAIN s0.nodes = {} OBVIOUS
<1> HIDE DEF s0
<1>2. Wiring(s1) /\ s1.node = 1 /\ Len(s1.nodes) = 1
  <2>1. LET t == Reverbs!InitNode(s0) IN
        Wiring(t) /\ t.node = Len(s0.nodes) + 1 /\ Len(t.nodes) = Len(s0.nodes) + 1
    BY <1>1, NodeAdded
  <2> QED BY <1>1, <2>1
<1>3. Reverbs!Reverb = Reverbs!SetBuffer(s1, computed)
  BY DEF Reverbs!Reverb, Reverbs!BuildImpulse, s0
<1>4. OneConnected(s1) BY <1>2 DEF OneConnected, Wiring
<1> HIDE DEF s1
<1>5. /\ Wiring(Reverbs!Reverb) /\ OneConnected(Reverbs!Reverb) /\ Reverbs!Reverb.node = 2
      /\ Len(Reverbs!Reverb.nodes) = 2
      /\ Reverbs!Reverb.nodes[Reverbs!Reverb.node].buffer = computed /\ Reverbs!Reverb.node /= none
  <2>1. LET t == Reverbs!SetBuffer(s1, computed) IN
        /\ Wiring(t) /\ OneConnected(t) /\ t.node /= none /\ t.nodes[t.node].buffer = computed
        /\ t.node = Len(s1.nodes) + 1 /\ Len(t.nodes) = Len(s1.nodes) + 1
    BY <1>2, <1>4, BufferSet
  <2> QED BY <1>2, <1>3, <2>1
<1>6. CASE set BY <1>5, <1>6
<1>7. CASE ~set
  <2>1. /\ Wiring(s3) /\ s3.node = 3 /\ Len(s3.nodes) = 3
        /\ \A n \in DOMAIN Reverbs!Reverb.nodes : s3.nodes[n] = Reverbs!Reverb.nodes[n]
    <3>1. Reverbs!Reverb.nodes \in Seq(ConvNode) BY <1>5 DEF Wiring
    <3>2. LET t == Reverbs!InitNode(Reverbs!Reverb) IN
          /\ Wiring(t) /\ t.node = Len(Reverbs!Reverb.nodes) + 1
          /\ Len(t.nodes) = Len(Reverbs!Reverb.nodes) + 1
          /\ \A n \in DOMAIN Reverbs!Reverb.nodes : t.nodes[n] = Reverbs!Reverb.nodes[n]
      BY <3>1, NodeAdded
    <3> QED BY <1>5, <3>2
  <2>2. DOMAIN Reverbs!Reverb.nodes = 1..2 /\ DOMAIN s3.nodes = 1..3 BY <1>5, <2>1 DEF Wiring
  <2>3. OneConnected(s3) BY <1>5, <1>7, <2>1, <2>2 DEF OneConnected
  <2>4. Reverbs!Built(path) = IF path = none THEN Reverbs!SetBuffer(s3, computed) ELSE s3
    BY DEF Reverbs!Built, Reverbs!BuildImpulse
  <2> HIDE DEF s3
  <2>5. CASE path = none BY <1>7, <2>1, <2>3, <2>4, <2>5, BufferSet
  <2>6. CASE path /= none BY <1>7, <2>1, <2>3, <2>4, <2>6, ReverbAssumption
  <2> QED BY <2>5, <2>6
<1> QED BY <1>6, <1>7

\* The object is built.
LEMMA ReverbInit == Reverbs!Init => ReverbInv
<1> SUFFICES ASSUME Reverbs!Init PROVE ReverbInv OBVIOUS
<1>1. PICK path \in cv_Names \cup {none} :
        /\ set \in BOOLEAN /\ (set => path = none)
        /\ cv_nodes = (IF set THEN Reverbs!Reverb ELSE Reverbs!Built(path)).nodes
        /\ convolverNode = (IF set THEN Reverbs!Reverb ELSE Reverbs!Built(path)).node
        /\ impulses = <<>> /\ ac = TRUE
        /\ cv_requests = IF path = none THEN {} ELSE {[id |-> 1, name |-> path]}
        /\ cv_loads = 1 /\ cv_calls = 0
        /\ wanted = IF path = none THEN computed ELSE path
        /\ latest = 0 /\ ordered = TRUE
  BY DEF Reverbs!Init
<1> DEFINE s == IF set THEN Reverbs!Reverb ELSE Reverbs!Built(path)
<1>2. /\ Wiring(s) /\ OneConnected(s) /\ s.node /= none
      /\ path = none => s.nodes[s.node].buffer = computed
  BY Constructed
<1>3. cv_nodes = s.nodes /\ convolverNode = s.node BY <1>1
<1> HIDE DEF s
<1>4. Connected BY <1>2, <1>3 DEF OneConnected, Connected
<1>5. cv_nodes \in Seq(ConvNode) /\ convolverNode \in DOMAIN cv_nodes \cup {none}
  BY <1>2, <1>3 DEF Wiring
<1>6. cv_requests \subseteq [id : 1..(cv_MaxLoads + cv_MaxCalls), name : cv_Names]
      /\ latest \in 0..(cv_MaxLoads + cv_MaxCalls)
  BY <1>1, ReverbAssumption
<1>7. {set, ac, ordered} \subseteq BOOLEAN BY <1>1
<1>8. Reverbs!TypeOK BY <1>1, <1>5, <1>6, <1>7, ReverbAssumption DEF Reverbs!TypeOK, ConvNode
<1>9. KindInv BY <1>1, <1>2, <1>3 DEF KindInv
<1>10. OrderInv
  <2>1. CASE path = none
    <3>1. cv_requests = {} /\ wanted = computed /\ latest = 0 /\ cv_loads = 1 /\ cv_calls = 0
      BY <1>1, <2>1
    <3> QED BY <1>2, <1>3, <2>1, <3>1 DEF OrderInv
  <2>2. CASE path /= none
    <3>1. /\ cv_requests = {[id |-> 1, name |-> path]} /\ cv_loads = 1 /\ cv_calls = 0
          /\ wanted = path /\ latest = 0
      BY <1>1, <2>2
    <3> DEFINE r == [id |-> 1, name |-> path]
    <3>2. r.id = 1 /\ r.name = path OBVIOUS
    <3>3. cv_requests = {r} BY <3>1
    <3> HIDE DEF r
    <3> QED BY <3>1, <3>2, <3>3 DEF OrderInv
  <2> QED BY <2>1, <2>2
<1> QED BY <1>4, <1>8, <1>9, <1>10 DEF ReverbInv

\* The wiring after a step is typed, and connects one node, when the one it becomes is and does.
LEMMA BecomesWired ==
  ASSUME NEW s, Wiring(s), OneConnected(s), Reverbs!Becomes(s), set' = set
  PROVE  /\ cv_nodes' \in Seq(ConvNode) /\ convolverNode' \in DOMAIN cv_nodes' \cup {none}
         /\ Connected'
BY DEF Wiring, OneConnected, Reverbs!Becomes, Connected

\* What _setBuffer leaves, of an object disposed of or not.
LEMMA WithBufferWired ==
  ASSUME ReverbInv, NEW b \in cv_Names, Reverbs!Becomes(Reverbs!WithBuffer(Reverbs!Current, b)),
    set' = set
  PROVE  /\ cv_nodes' \in Seq(ConvNode) /\ convolverNode' \in DOMAIN cv_nodes' \cup {none}
         /\ Connected'
         /\ ac => convolverNode' /= none /\ cv_nodes'[convolverNode'].buffer = b
<1>1. Wiring(Reverbs!Current) /\ OneConnected(Reverbs!Current) BY CurrentWired
<1>2. CASE ac
  <2>1. Reverbs!WithBuffer(Reverbs!Current, b) = Reverbs!SetBuffer(Reverbs!Current, b)
    BY <1>2 DEF Reverbs!WithBuffer
  <2>2. LET t == Reverbs!SetBuffer(Reverbs!Current, b) IN
        Wiring(t) /\ OneConnected(t) /\ t.node /= none /\ t.nodes[t.node].buffer = b
    BY <1>1, BufferSet
  <2> QED BY <2>1, <2>2, BecomesWired DEF Reverbs!Becomes
<1>3. CASE ~ac
  <2>1. Reverbs!WithBuffer(Reverbs!Current, b) = Reverbs!Teardown(Reverbs!Current)
    BY <1>3 DEF Reverbs!WithBuffer
  <2>2. Wiring(Reverbs!Teardown(Reverbs!Current)) /\ OneConnected(Reverbs!Teardown(Reverbs!Current))
    BY <1>1, TornDown
  <2> QED BY <1>3, <2>1, <2>2, BecomesWired
<1> QED BY <1>2, <1>3

\* A Reverb computes its impulse again, or leaves it.
LEMMA SetStep ==
  ASSUME ReverbInv, NEW seconds \in BOOLEAN, Reverbs!Set(seconds)
  PROVE  ReverbInv'
<1>1. /\ set /\ ac /\ cv_calls < cv_MaxCalls /\ cv_calls' = cv_calls + 1
      /\ UNCHANGED <<set, impulses, ac, cv_requests, cv_loads, wanted, latest, ordered>>
      /\ Reverbs!Becomes(IF seconds THEN Reverbs!BuildImpulse(Reverbs!Current) ELSE Reverbs!Current)
  BY DEF Reverbs!Set
<1>2. /\ Wiring(Reverbs!Current) /\ OneConnected(Reverbs!Current)
      /\ Reverbs!Current.nodes = cv_nodes /\ Reverbs!Current.node = convolverNode
  BY CurrentWired
<1>3. cv_calls' \in 0..cv_MaxCalls BY <1>1, ReverbAssumption DEF ReverbInv, Reverbs!TypeOK
<1>4. /\ cv_nodes' \in Seq(ConvNode) /\ convolverNode' \in DOMAIN cv_nodes' \cup {none}
      /\ Connected'
      /\ convolverNode' /= none
      /\ ordered => cv_nodes'[convolverNode'].buffer = computed
  <2>1. CASE seconds
    <3>1. Reverbs!Becomes(Reverbs!SetBuffer(Reverbs!Current, computed))
      BY <1>1, <2>1 DEF Reverbs!BuildImpulse
    <3>2. LET t == Reverbs!SetBuffer(Reverbs!Current, computed) IN
          Wiring(t) /\ OneConnected(t) /\ t.node /= none /\ t.nodes[t.node].buffer = computed
      BY <1>2, BufferSet
    <3> QED BY <1>1, <3>1, <3>2, BecomesWired DEF Reverbs!Becomes
  <2>2. CASE ~seconds
    <3>1. Reverbs!Becomes(Reverbs!Current) BY <1>1, <2>2
    <3>2. cv_nodes' = cv_nodes /\ convolverNode' = convolverNode BY <1>2, <3>1 DEF Reverbs!Becomes
    <3>3. convolverNode /= none /\ (ordered => cv_nodes[convolverNode].buffer = computed)
      BY <1>1 DEF ReverbInv, KindInv, OrderInv
    <3> QED BY <1>1, <1>2, <3>1, <3>2, <3>3, BecomesWired
  <2> QED BY <2>1, <2>2
<1>5. Reverbs!TypeOK' BY <1>1, <1>3, <1>4 DEF ReverbInv, Reverbs!TypeOK, ConvNode
<1>6. KindInv' BY <1>1, <1>4 DEF ReverbInv, KindInv
<1>7. OrderInv'
  <2>1. cv_requests = {} /\ wanted = computed BY <1>1 DEF ReverbInv, KindInv
  <2>2. latest <= cv_loads + cv_calls' BY <1>1 DEF ReverbInv, OrderInv, Reverbs!TypeOK
  <2> QED BY <1>1, <1>4, <2>1, <2>2 DEF OrderInv
<1> QED BY <1>4, <1>5, <1>6, <1>7 DEF ReverbInv

\* A load is the last one asked for.
LEMMA LoadStep ==
  ASSUME ReverbInv, NEW name \in cv_Names, NEW resets \in BOOLEAN, Reverbs!Load(name, resets)
  PROVE  ReverbInv'
<1> DEFINE r == [id |-> cv_loads + cv_calls + 1, name |-> name]
<1>1. /\ ~set /\ cv_loads < cv_MaxLoads /\ cv_loads' = cv_loads + 1 /\ wanted' = name
      /\ cv_requests' = cv_requests \cup {r}
      /\ impulses' = <<>> \/ impulses' = impulses
      /\ UNCHANGED <<set, cv_nodes, convolverNode, ac, cv_calls, latest, ordered>>
  BY DEF Reverbs!Load, Reverbs!Number
<1>2. /\ cv_loads \in 0..cv_MaxLoads /\ cv_calls \in 0..cv_MaxCalls
      /\ cv_requests \subseteq [id : 1..(cv_MaxLoads + cv_MaxCalls), name : cv_Names]
      /\ latest \in 0..(cv_MaxLoads + cv_MaxCalls)
  BY DEF ReverbInv, Reverbs!TypeOK
<1>3. cv_loads + cv_calls + 1 \in 1..(cv_MaxLoads + cv_MaxCalls) /\ cv_loads' \in 0..cv_MaxLoads
  BY <1>1, <1>2, ReverbAssumption
<1>4. /\ r \in [id : 1..(cv_MaxLoads + cv_MaxCalls), name : cv_Names]
      /\ r.id = cv_loads + cv_calls + 1 /\ r.name = name
  BY <1>3
<1> HIDE DEF r
<1>5. impulses' \in Seq(cv_Names \cup {none}) BY <1>1, EmptySeq DEF ReverbInv, Reverbs!TypeOK
<1>6. Reverbs!TypeOK' BY <1>1, <1>2, <1>3, <1>4, <1>5 DEF ReverbInv, Reverbs!TypeOK
<1>7. KindInv' /\ Connected' BY <1>1 DEF ReverbInv, KindInv, Connected
<1>8. /\ \A q \in cv_requests : q.id < r.id /\ q.id \in Nat /\ q.id /= latest
      /\ latest < r.id
  BY <1>2, <1>4 DEF ReverbInv, OrderInv
<1>9. OrderInv'
  <2>1. \A q, p \in cv_requests' : q.id = p.id => q = p
    BY <1>1, <1>2, <1>4, <1>8 DEF ReverbInv, OrderInv
  <2>2. \A q \in cv_requests' : q.id <= r.id /\ q.id /= latest BY <1>1, <1>2, <1>4, <1>8
  <2>3. r.id <= cv_loads' + cv_calls' /\ latest' = latest BY <1>1, <1>2, <1>4
  <2>4. \A q \in cv_requests' : (\A p \in cv_requests' : p.id <= q.id) => q = r
    BY <1>1, <1>4, <1>8
  <2>5. ~ \A q \in cv_requests' : q.id < latest BY <1>1, <1>2, <1>4, <1>8
  <2>6. \A q \in cv_requests' : q.id <= cv_loads' + cv_calls'
    BY <1>1, <1>2, <1>4, <1>8
  <2>7. latest <= cv_loads' + cv_calls' BY <1>1, <1>2, <1>4, <1>8
  <2> QED BY <1>1, <1>4, <2>1, <2>2, <2>3, <2>4, <2>5, <2>6, <2>7 DEF OrderInv
<1> QED BY <1>6, <1>7, <1>9 DEF ReverbInv

\* An impulse of the list is set: it is the one asked for last, also of those on their way.
LEMMA ToggleStep ==
  ASSUME ReverbInv, NEW i \in DOMAIN impulses, impulses[i] /= none, Reverbs!ToggleImpulse(i)
  PROVE  ReverbInv'
<1>1. /\ cv_calls < cv_MaxCalls /\ cv_calls' = cv_calls + 1
      /\ Reverbs!Becomes(Reverbs!WithBuffer(Reverbs!Current, impulses[i]))
      /\ wanted' = impulses[i] /\ latest' = cv_loads + cv_calls + 1 /\ ordered' = ac
      /\ UNCHANGED <<set, impulses, ac, cv_requests, cv_loads>>
  BY DEF Reverbs!ToggleImpulse, Reverbs!Number
<1>2. impulses[i] \in cv_Names
  <2>1. impulses \in Seq(cv_Names \cup {none}) BY DEF ReverbInv, Reverbs!TypeOK
  <2>2. impulses[i] \in cv_Names \cup {none} BY <2>1, ElementOfSeq
  <2> QED BY <2>2
<1>3. /\ cv_nodes' \in Seq(ConvNode) /\ convolverNode' \in DOMAIN cv_nodes' \cup {none}
      /\ Connected'
      /\ ac => convolverNode' /= none /\ cv_nodes'[convolverNode'].buffer = impulses[i]
  BY <1>1, <1>2, WithBufferWired
<1>4. /\ cv_loads \in 0..cv_MaxLoads /\ cv_calls \in 0..cv_MaxCalls
      /\ cv_requests \subseteq [id : 1..(cv_MaxLoads + cv_MaxCalls), name : cv_Names]
      /\ set \in BOOLEAN /\ ac \in BOOLEAN
  BY Zenon DEF ReverbInv, Reverbs!TypeOK
<1>5. /\ cv_calls' \in 0..cv_MaxCalls /\ latest' \in 0..(cv_MaxLoads + cv_MaxCalls)
      /\ latest' = cv_loads' + cv_calls'
      /\ \A q \in cv_requests : q.id < latest'
  BY <1>1, <1>4, ReverbAssumption DEF ReverbInv, OrderInv
<1>6. Reverbs!TypeOK'
  <2>1. wanted' \in cv_Names \cup {computed} BY <1>1, <1>2
  <2>2. {set', ac', ordered'} \subseteq BOOLEAN BY <1>1, <1>4, Zenon
  <2> QED BY <1>1, <1>3, <1>5, <2>1, <2>2 DEF ReverbInv, Reverbs!TypeOK, ConvNode
<1>7. ~set BY DEF ReverbInv, KindInv
<1>8. KindInv' BY <1>1, <1>3, <1>7 DEF ReverbInv, KindInv
<1>9. OrderInv'
  <2>1. \A q \in cv_requests : q.id \in Nat BY <1>4
  <2>2. /\ \A q, p \in cv_requests' : q.id = p.id => q = p
        /\ \A q \in cv_requests' : q.id <= cv_loads' + cv_calls' /\ q.id /= latest' /\ ~(q.id > latest')
        /\ latest' <= cv_loads' + cv_calls'
    BY <1>1, <1>4, <1>5, <2>1 DEF ReverbInv, OrderInv
  <2>3. ordered' => cv_nodes'[convolverNode'].buffer = wanted' BY <1>1, <1>3
  <2> QED BY <2>2, <2>3 DEF OrderInv
<1> QED BY <1>3, <1>6, <1>8, <1>9 DEF ReverbInv

\* A request that is answered, one way or the other, leaves the others as they were.
LEMMA Answered ==
  ASSUME ReverbInv, NEW r \in cv_requests,
         cv_requests' = cv_requests \ {r}, latest' = Reverbs!Larger(latest, r.id),
         UNCHANGED <<cv_loads, cv_calls, wanted>>
  PROVE  /\ latest' \in 0..(cv_MaxLoads + cv_MaxCalls) /\ latest' >= latest /\ latest' >= r.id
         /\ r.id < latest => latest' = latest
         /\ \A q, p \in cv_requests' : q.id = p.id => q = p
         /\ \A q \in cv_requests' : q.id <= cv_loads' + cv_calls' /\ q.id /= latest'
         /\ latest' <= cv_loads' + cv_calls'
         /\ \A q \in cv_requests' :
              q.id > latest' /\ (\A p \in cv_requests' : p.id <= q.id) => q.name = wanted'
<1>1. /\ cv_loads \in 0..cv_MaxLoads /\ cv_calls \in 0..cv_MaxCalls
      /\ latest \in 0..(cv_MaxLoads + cv_MaxCalls)
      /\ \A q \in cv_requests : q.id \in 1..(cv_MaxLoads + cv_MaxCalls)
  BY DEF ReverbInv, Reverbs!TypeOK
<1>2. /\ \A q, p \in cv_requests : q.id = p.id => q = p
      /\ \A q \in cv_requests : q.id <= cv_loads + cv_calls /\ q.id /= latest
      /\ latest <= cv_loads + cv_calls
      /\ \A q \in cv_requests :
           q.id > latest /\ (\A p \in cv_requests : p.id <= q.id) => q.name = wanted
  BY DEF ReverbInv, OrderInv
<1>3. latest' = IF latest < r.id THEN r.id ELSE latest BY DEF Reverbs!Larger
<1>4. /\ latest' \in 0..(cv_MaxLoads + cv_MaxCalls) /\ latest' >= latest /\ latest' >= r.id
      /\ (r.id < latest => latest' = latest) /\ latest' \in {latest, r.id}
      /\ latest' <= cv_loads' + cv_calls'
  BY <1>1, <1>2, <1>3
<1>5. \A q \in cv_requests' : q \in cv_requests /\ q /= r /\ q.id /= r.id BY <1>2
<1>6. \A q \in cv_requests' : q.id <= cv_loads' + cv_calls' /\ q.id /= latest'
  BY <1>2, <1>4, <1>5
<1>7. ASSUME NEW q \in cv_requests', q.id > latest', \A p \in cv_requests' : p.id <= q.id
      PROVE  q.name = wanted'
  <2>1. q \in cv_requests /\ q.id > latest /\ r.id <= q.id BY <1>1, <1>4, <1>5, <1>7
  <2>2. \A p \in cv_requests : p.id <= q.id BY <1>7, <2>1
  <2> QED BY <1>2, <2>1, <2>2
<1>8. \A q, p \in cv_requests' : q.id = p.id => q = p BY <1>2, <1>5
<1> QED BY <1>4, <1>6, <1>7, <1>8

\* An impulse that arrives takes the place of the one set, whichever was asked for later.
LEMMA LoadedStep ==
  ASSUME ReverbInv, NEW r \in cv_requests, Reverbs!Loaded(r)
  PROVE  ReverbInv'
<1>1. /\ cv_requests' = cv_requests \ {r}
      /\ Reverbs!Becomes(Reverbs!WithBuffer(Reverbs!Current, r.name))
      /\ impulses' = Append(impulses, r.name)
      /\ latest' = Reverbs!Larger(latest, r.id) /\ ordered' = (ac /\ r.id > latest)
      /\ UNCHANGED <<set, ac, cv_loads, cv_calls, wanted>>
  BY DEF Reverbs!Loaded
<1>2. /\ cv_requests \subseteq [id : 1..(cv_MaxLoads + cv_MaxCalls), name : cv_Names]
      /\ latest \in 0..(cv_MaxLoads + cv_MaxCalls)
  BY DEF ReverbInv, Reverbs!TypeOK
<1>3. r.name \in cv_Names /\ \A q \in cv_requests : q.id \in Int BY <1>2
<1>4. /\ cv_nodes' \in Seq(ConvNode) /\ convolverNode' \in DOMAIN cv_nodes' \cup {none}
      /\ Connected'
      /\ ac => convolverNode' /= none /\ cv_nodes'[convolverNode'].buffer = r.name
  BY <1>1, <1>3, WithBufferWired
<1>5. impulses' \in Seq(cv_Names \cup {none})
  BY <1>1, <1>3, AppendProperties DEF ReverbInv, Reverbs!TypeOK
<1>6. ordered' \in BOOLEAN BY <1>1
<1>7. /\ latest' \in 0..(cv_MaxLoads + cv_MaxCalls) /\ latest' >= latest /\ latest' >= r.id
      /\ \A q, p \in cv_requests' : q.id = p.id => q = p
      /\ \A q \in cv_requests' : q.id <= cv_loads' + cv_calls' /\ q.id /= latest'
      /\ latest' <= cv_loads' + cv_calls'
      /\ \A q \in cv_requests' :
           q.id > latest' /\ (\A p \in cv_requests' : p.id <= q.id) => q.name = wanted'
  BY <1>1, Answered
<1>8. Reverbs!TypeOK' BY <1>1, <1>2, <1>4, <1>5, <1>6, <1>7 DEF ReverbInv, Reverbs!TypeOK, ConvNode
<1>9. KindInv'
  <2>1. ~set BY DEF ReverbInv, KindInv
  <2> QED BY <1>1, <1>4, <2>1 DEF ReverbInv, KindInv
<1>10. ASSUME ordered', \A q \in cv_requests' : q.id < latest'
       PROVE  cv_nodes'[convolverNode'].buffer = wanted'
  <2>1. ac /\ r.id > latest BY <1>1, <1>10
  <2>2. latest' = r.id BY <1>1, <1>2, <2>1 DEF Reverbs!Larger
  <2>3. \A q \in cv_requests : q.id <= r.id BY <1>1, <1>3, <1>10, <2>2
  <2>4. r.name = wanted BY <2>1, <2>3 DEF ReverbInv, OrderInv
  <2> QED BY <1>1, <1>4, <2>1, <2>4
<1>11. OrderInv' BY <1>7, <1>10 DEF OrderInv
<1> QED BY <1>4, <1>8, <1>9, <1>11 DEF ReverbInv

\* After a load that fails the one wanted is set if it was asked for later; a dispose ends that.
LEMMA EndStep ==
  ASSUME ReverbInv, Reverbs!Dispose \/ \E r \in cv_requests : Reverbs!Failed(r)
  PROVE  ReverbInv'
<1>1. CASE Reverbs!Dispose
  <2>1. /\ cv_calls < cv_MaxCalls /\ cv_calls' = cv_calls + 1 /\ ac' = FALSE /\ ordered' = FALSE
        /\ Reverbs!Becomes(Reverbs!Teardown(Reverbs!Current))
        /\ impulses' = [i \in DOMAIN impulses |-> none]
        /\ UNCHANGED <<set, cv_requests, cv_loads, wanted, latest>>
    BY <1>1 DEF Reverbs!Dispose
  <2>2. Wiring(Reverbs!Teardown(Reverbs!Current)) /\ OneConnected(Reverbs!Teardown(Reverbs!Current))
    BY CurrentWired, TornDown
  <2>3. /\ cv_nodes' \in Seq(ConvNode) /\ convolverNode' \in DOMAIN cv_nodes' \cup {none}
        /\ Connected'
    BY <2>1, <2>2, BecomesWired
  <2>4. impulses \in Seq(cv_Names \cup {none}) BY DEF ReverbInv, Reverbs!TypeOK
  <2>5. impulses' \in Seq(cv_Names \cup {none}) /\ (impulses = <<>> => impulses' = <<>>)
    <3>1. DOMAIN impulses = 1..Len(impulses) /\ Len(impulses) \in Nat BY <2>4
    <3>2. impulses' = [i \in 1..Len(impulses) |-> none] BY <2>1, <3>1
    <3>3. impulses' \in Seq(cv_Names \cup {none}) /\ Len(impulses') = Len(impulses)
      BY <3>1, <3>2
    <3> QED BY <3>1, <3>3, EmptySeq
  <2>6. cv_calls' \in 0..cv_MaxCalls BY <2>1, ReverbAssumption DEF ReverbInv, Reverbs!TypeOK
  <2>7. Reverbs!TypeOK' BY <2>1, <2>3, <2>5, <2>6 DEF ReverbInv, Reverbs!TypeOK, ConvNode
  <2>8. KindInv' BY <2>1, <2>5 DEF ReverbInv, KindInv
  <2>9. OrderInv'
    <3>1. /\ cv_loads \in Nat /\ cv_calls \in Nat /\ latest \in Nat
          /\ \A q \in cv_requests : q.id \in Nat
      BY DEF ReverbInv, Reverbs!TypeOK
    <3>2. /\ \A q \in cv_requests : q.id <= cv_loads + cv_calls'
          /\ latest <= cv_loads + cv_calls'
      BY <2>1, <3>1 DEF ReverbInv, OrderInv
    <3> QED BY <2>1, <3>2 DEF ReverbInv, OrderInv
  <2> QED BY <2>3, <2>7, <2>8, <2>9 DEF ReverbInv
<1>2. ASSUME NEW r \in cv_requests, Reverbs!Failed(r) PROVE ReverbInv'
  <2>1. /\ cv_requests' = cv_requests \ {r}
        /\ latest' = Reverbs!Larger(latest, r.id) /\ ordered' = (ordered /\ r.id < latest)
        /\ UNCHANGED <<set, cv_nodes, convolverNode, impulses, ac, cv_loads, cv_calls, wanted>>
    BY <1>2 DEF Reverbs!Failed
  <2>2. /\ latest' \in 0..(cv_MaxLoads + cv_MaxCalls)
        /\ r.id < latest => latest' = latest
        /\ \A q, p \in cv_requests' : q.id = p.id => q = p
        /\ \A q \in cv_requests' : q.id <= cv_loads' + cv_calls' /\ q.id /= latest'
        /\ latest' <= cv_loads' + cv_calls'
        /\ \A q \in cv_requests' :
             q.id > latest' /\ (\A p \in cv_requests' : p.id <= q.id) => q.name = wanted'
    BY <2>1, Answered
  <2>3. ordered' \in BOOLEAN BY <2>1
  <2>4. Reverbs!TypeOK' BY <2>1, <2>2, <2>3 DEF ReverbInv, Reverbs!TypeOK
  <2>5. Connected' /\ KindInv' BY <2>1 DEF ReverbInv, Connected, KindInv
  <2>6. ASSUME ordered', \A q \in cv_requests' : q.id < latest'
        PROVE  cv_nodes'[convolverNode'].buffer = wanted'
    <3>1. ordered /\ r.id < latest /\ latest' = latest BY <2>1, <2>2, <2>6
    <3>2. \A q \in cv_requests : q.id < latest BY <2>1, <2>6, <3>1
    <3> QED BY <2>1, <3>1, <3>2 DEF ReverbInv, OrderInv
  <2>7. OrderInv' BY <2>2, <2>6 DEF OrderInv
  <2> QED BY <2>4, <2>5, <2>7 DEF ReverbInv
<1> QED BY <1>1, <1>2

\* Every call and every answer keeps the invariant.
LEMMA ReverbNext == ReverbInv /\ [Reverbs!Next]_(Reverbs!vars) => ReverbInv'
<1> SUFFICES ASSUME ReverbInv, [Reverbs!Next]_(Reverbs!vars) PROVE ReverbInv' OBVIOUS
<1>1. CASE UNCHANGED Reverbs!vars
  BY <1>1 DEF Reverbs!vars, ReverbInv, Reverbs!TypeOK, Connected, KindInv, OrderInv
<1>2. ASSUME NEW seconds \in BOOLEAN, Reverbs!Set(seconds) PROVE ReverbInv' BY <1>2, SetStep
<1>3. ASSUME NEW name \in cv_Names, NEW resets \in BOOLEAN, Reverbs!Load(name, resets)
        PROVE ReverbInv'
  BY <1>3, LoadStep
<1>4. ASSUME NEW i \in DOMAIN impulses, impulses[i] /= none /\ Reverbs!ToggleImpulse(i)
      PROVE  ReverbInv'
  BY <1>4, ToggleStep
<1>5. ASSUME NEW r \in cv_requests, Reverbs!Loaded(r) PROVE ReverbInv' BY <1>5, LoadedStep
<1>6. ASSUME Reverbs!Dispose \/ \E r \in cv_requests : Reverbs!Failed(r) PROVE ReverbInv'
  BY <1>6, EndStep
<1> QED BY <1>1, <1>2, <1>3, <1>4, <1>5, <1>6 DEF Reverbs!Next

\* The invariant says what is connected and set.
LEMMA ReverbSafe == ReverbInv => Reverbs!OneImpulse
BY DEF ReverbInv, Connected, OrderInv, Reverbs!OneImpulse

\* However impulses are computed, added, reset, toggled, late or disposed of: besides the node the
\* constructor leaves, only the one that counts is connected; and when nothing is on its way it has
\* the impulse asked for last, unless that one failed or one asked for earlier came after it.
THEOREM OneImpulseSet == Reverbs!Spec => []OneImpulse
<1>1. ReverbInv => OneImpulse BY ReverbSafe DEF OneImpulse
<1> QED BY <1>1, ReverbInit, ReverbNext, PTL DEF Reverbs!Spec

-----------------------------------------------------------------------------
Message == [name : {"start", "stop"}, duration : Durations \cup {0}]
Take    == [file : Files \cup {none}, limit : Durations \cup {0}]

RecorderTypes ==
  /\ _callback \in Files \cup {none} /\ input \in Units \cup {none}
  /\ files \in [Files -> Seq(Recorder!Buffers)]
  /\ toProcessor \in Seq(Message) /\ toPage \in Seq(Seq(Recorder!Buffers))
  /\ leftBuffers \in Seq(Recorder!Buffers) /\ sampleLimit \in Durations \cup {0}
  /\ recording \in BOOLEAN /\ takes \in Seq(Take) /\ take \in Nat

\* The buffers are of the last call of record, and no more than it asked for.
OfLast(buffers) ==
  buffers /= <<>> =>
    /\ takes /= <<>>
    /\ \A i \in DOMAIN buffers : buffers[i].take = Len(takes)
    /\ takes[Len(takes)].limit > 0 => Len(buffers) <= takes[Len(takes)].limit

\* A start is the first message to the processor, which is idle then and knows of all before it;
\* nothing is under way to the page.
StartWaits ==
  \A i \in DOMAIN toProcessor : toProcessor[i].name = "start" =>
    /\ i = 1 /\ ~recording /\ toPage = <<>> /\ Len(takes) = take + 1
    /\ toProcessor[i].duration = takes[Len(takes)].limit

\* Otherwise the processor knows of every call.
AllKnown == toProcessor = <<>> \/ toProcessor[1].name = "stop" => take = Len(takes)

\* It records what was asked for last, and idle it keeps nothing.
LimitKept == IF recording THEN takes /= <<>> /\ sampleLimit = takes[Len(takes)].limit
             ELSE leftBuffers = <<>> /\ sampleLimit = 0

\* The page knows for which file the last call was, until it is disposed of.
CallbackKept == _callback \in Files => takes /= <<>> /\ takes[Len(takes)].file = _callback

FilesHold ==
  \A f \in Files : files[f] /= <<>> =>
    \E t \in DOMAIN takes : /\ takes[t].file = f
                            /\ \A i \in DOMAIN files[f] : files[f][i].take = t
                            /\ takes[t].limit > 0 => Len(files[f]) <= takes[t].limit

Flow == /\ StartWaits /\ AllKnown /\ LimitKept /\ CallbackKept /\ FilesHold
        /\ OfLast(leftBuffers) /\ \A i \in DOMAIN toPage : OfLast(toPage[i])

RecorderInv == RecorderTypes /\ (re_orderly => Flow)

-----------------------------------------------------------------------------
(* The steps. *)

LEMMA RecorderInit == Recorder!Init => RecorderInv
<1> SUFFICES ASSUME Recorder!Init PROVE RecorderInv OBVIOUS
<1>1. /\ _callback = none /\ input = main /\ files = [f \in Files |-> <<>>]
      /\ toProcessor = <<>> /\ toPage = <<>>
      /\ recording = FALSE /\ sampleLimit = 0 /\ leftBuffers = <<>>
      /\ takes = <<>> /\ take = 0
  BY DEF Recorder!Init
<1>2. /\ files \in [Files -> Seq(Recorder!Buffers)] /\ toProcessor \in Seq(Message)
      /\ toPage \in Seq(Seq(Recorder!Buffers)) /\ leftBuffers \in Seq(Recorder!Buffers)
      /\ takes \in Seq(Take)
  BY <1>1, EmptySeq
<1>3. RecorderTypes BY <1>1, <1>2, RecorderAssumption DEF RecorderTypes
<1>4. Flow
  BY <1>1, RecorderAssumption
  DEF Flow, StartWaits, AllKnown, LimitKept, CallbackKept, FilesHold, OfLast
<1> QED BY <1>3, <1>4 DEF RecorderInv

\* What the sequences of the recorder have in common.
LEMMA Appended ==
  ASSUME NEW S, NEW s \in Seq(S), NEW e \in S, NEW t, t = Append(s, e)
  PROVE  /\ t \in Seq(S) /\ Len(s) \in Nat /\ Len(t) = Len(s) + 1 /\ t /= <<>>
         /\ DOMAIN s = 1..Len(s) /\ DOMAIN t = 1..(Len(s) + 1)
         /\ t[Len(s) + 1] = e /\ \A i \in DOMAIN s : t[i] = s[i]
<1>1. Len(s) \in Nat /\ DOMAIN s = 1..Len(s) OBVIOUS
<1>2. /\ t \in Seq(S) /\ Len(t) = Len(s) + 1 /\ t[Len(s) + 1] = e
      /\ \A i \in 1..Len(s) : t[i] = s[i]
  BY AppendProperties
<1> QED BY <1>1, <1>2

\* A call of record, when the last recording has arrived, is the start of another.
LEMMA RecordStep ==
  ASSUME RecorderInv, NEW f \in Files \cup {none}, NEW d \in Durations
    \cup {0}, Recorder!Record(f, d)
  PROVE  RecorderInv'
<1> DEFINE m == [name |-> "start", duration |-> d]
           k == [file |-> IF f = none THEN _callback ELSE f, limit |-> d]
<1>1. /\ toProcessor' = Append(toProcessor, m) /\ takes' = Append(takes, k)
      /\ _callback' = k.file
      /\ re_orderly' = (re_orderly /\ ~recording /\ toProcessor = <<>> /\ toPage = <<>>)
      /\ UNCHANGED <<input, files, toPage, recording, sampleLimit, leftBuffers, take>>
  BY DEF Recorder!Record, Recorder!processor
<1>2. toProcessor \in Seq(Message) /\ takes \in Seq(Take) /\ take \in Nat
  BY DEF RecorderInv, RecorderTypes
<1>3. m \in Message /\ m.name = "start" /\ m.duration = d BY DEF Message
<1>4. k \in Take /\ k.limit = d BY DEF Take, RecorderInv, RecorderTypes
<1> HIDE DEF m, k
<1>5. /\ toProcessor' \in Seq(Message) /\ toProcessor' /= <<>>
      /\ DOMAIN toProcessor' = 1..(Len(toProcessor) + 1) /\ toProcessor'[Len(toProcessor) + 1] = m
  BY <1>1, <1>2, <1>3, Appended
<1>6. /\ takes' \in Seq(Take) /\ Len(takes) \in Nat /\ Len(takes') = Len(takes) + 1
      /\ takes' /= <<>> /\ DOMAIN takes = 1..Len(takes) /\ DOMAIN takes' = 1..(Len(takes) + 1)
      /\ takes'[Len(takes) + 1] = k /\ \A i \in DOMAIN takes : takes'[i] = takes[i]
  BY <1>1, <1>2, <1>4, Appended
<1>7. RecorderTypes' BY <1>1, <1>4, <1>5, <1>6 DEF RecorderInv, RecorderTypes, Take
<1>8. ASSUME re_orderly' PROVE Flow'
  <2>1. ~recording /\ toProcessor = <<>> /\ toPage = <<>> /\ Flow
    BY <1>1, <1>8 DEF RecorderInv
  <2>2. Len(toProcessor) = 0 BY <2>1
  <2>3. take = Len(takes) /\ leftBuffers = <<>> /\ sampleLimit = 0
    BY <2>1 DEF Flow, AllKnown, LimitKept
  <2>4. DOMAIN toProcessor' = {1} /\ toProcessor'[1] = m BY <1>5, <2>2
  <2>5. StartWaits' BY <1>1, <1>3, <1>4, <1>6, <2>1, <2>3, <2>4 DEF StartWaits
  <2>6. AllKnown' BY <1>3, <1>5, <2>4 DEF AllKnown
  <2>7. LimitKept' BY <1>1, <2>1, <2>3 DEF LimitKept
  <2>8. CallbackKept' BY <1>1, <1>6 DEF CallbackKept
  <2>9. FilesHold'
    <3> SUFFICES ASSUME NEW q \in Files, files[q] /= <<>>
                 PROVE  \E t \in DOMAIN takes' :
                          /\ takes'[t].file = q
                          /\ \A i \in DOMAIN files[q] : files[q][i].take = t
                          /\ takes'[t].limit > 0 => Len(files[q]) <= takes'[t].limit
      BY <1>1 DEF FilesHold
    <3>1. PICK t \in DOMAIN takes : /\ takes[t].file = q
                                    /\ \A i \in DOMAIN files[q] : files[q][i].take = t
                                    /\ takes[t].limit > 0 => Len(files[q]) <= takes[t].limit
      BY <2>1 DEF Flow, FilesHold
    <3>2. t \in DOMAIN takes' /\ takes'[t] = takes[t] BY <1>6
    <3> QED BY <3>1, <3>2
  <2>10. OfLast(leftBuffers)' /\ \A i \in DOMAIN toPage' : OfLast(toPage[i])'
    BY <1>1, <2>1, <2>3 DEF OfLast
  <2> QED BY <2>5, <2>6, <2>7, <2>8, <2>9, <2>10 DEF Flow
<1> QED BY <1>7, <1>8 DEF RecorderInv

\* A stop is a message behind what waits.
LEMMA StopSentStep ==
  ASSUME RecorderInv, Recorder!Stop
  PROVE  RecorderInv'
<1> DEFINE m == [name |-> "stop", duration |-> 0]
<1>1. /\ toProcessor' = Append(toProcessor, m)
      /\ UNCHANGED <<_callback, input, files, toPage, recording, sampleLimit, leftBuffers, take,
                     takes, re_orderly>>
  BY DEF Recorder!Stop, Recorder!processor
<1>2. m \in Message /\ m.name = "stop" BY DEF Message
<1> HIDE DEF m
<1>3. toProcessor \in Seq(Message) BY DEF RecorderInv, RecorderTypes
<1>4. /\ toProcessor' \in Seq(Message) /\ Len(toProcessor) \in Nat
      /\ DOMAIN toProcessor = 1..Len(toProcessor)
      /\ DOMAIN toProcessor' = 1..(Len(toProcessor) + 1)
      /\ toProcessor'[Len(toProcessor) + 1] = m
      /\ \A i \in DOMAIN toProcessor : toProcessor'[i] = toProcessor[i]
  BY <1>1, <1>2, <1>3, Appended
<1>5. RecorderTypes' BY <1>1, <1>4 DEF RecorderInv, RecorderTypes
<1>6. ASSUME re_orderly PROVE Flow'
  <2>1. Flow BY <1>6 DEF RecorderInv
  <2>2. \A i \in DOMAIN toProcessor' : toProcessor'[i].name = "start" =>
          i \in DOMAIN toProcessor /\ toProcessor'[i] = toProcessor[i]
    <3>1. \A i \in 1..(Len(toProcessor) + 1) : i \in 1..Len(toProcessor) \/ i = Len(toProcessor) + 1
      BY <1>4
    <3> QED BY <1>2, <1>4, <3>1
  <2>3. StartWaits' BY <1>1, <2>1, <2>2 DEF Flow, StartWaits
  <2>4. AllKnown'
    <3>1. CASE toProcessor = <<>> BY <1>1, <2>1, <3>1 DEF Flow, AllKnown
    <3>2. CASE toProcessor /= <<>>
      <4>1. 1 \in DOMAIN toProcessor BY <1>3, <1>4, <3>2
      <4>2. toProcessor'[1] = toProcessor[1] /\ toProcessor' /= <<>> BY <1>4, <4>1
      <4> QED BY <1>1, <2>1, <4>2 DEF Flow, AllKnown
    <3> QED BY <3>1, <3>2
  <2>5. LimitKept' /\ CallbackKept' /\ FilesHold'
    BY <1>1, <2>1 DEF Flow, LimitKept, CallbackKept, FilesHold
  <2>6. OfLast(leftBuffers)' /\ \A i \in DOMAIN toPage' : OfLast(toPage[i])'
    BY <1>1, <2>1 DEF Flow, OfLast
  <2> QED BY <2>3, <2>4, <2>5, <2>6 DEF Flow
<1> QED BY <1>1, <1>5, <1>6 DEF RecorderInv

\* Another input, or none, changes nothing of what was recorded.
LEMMA SetInputStep ==
  ASSUME RecorderInv, Recorder!Dispose \/ \E u \in Units : Recorder!SetInput(u)
  PROVE  RecorderInv'
<1>1. /\ UNCHANGED <<files, toProcessor, toPage, recording, sampleLimit, leftBuffers, take, takes,
                     re_orderly>>
      /\ _callback' \in {none, _callback} /\ input' \in Units \cup {none}
  BY DEF Recorder!Dispose, Recorder!SetInput, Recorder!processor
<1>2. RecorderTypes' BY <1>1 DEF RecorderInv, RecorderTypes
<1>3. ASSUME Flow PROVE Flow'
  <2>1. CallbackKept' BY <1>1, <1>3, RecorderAssumption DEF Flow, CallbackKept
  <2>2. StartWaits' /\ AllKnown' /\ LimitKept' /\ FilesHold'
    BY <1>1, <1>3 DEF Flow, StartWaits, AllKnown, LimitKept, FilesHold
  <2>3. OfLast(leftBuffers)' /\ \A i \in DOMAIN toPage' : OfLast(toPage[i])'
    BY <1>1, <1>3 DEF Flow, OfLast
  <2> QED BY <2>1, <2>2, <2>3 DEF Flow
<1> QED BY <1>1, <1>2, <1>3 DEF RecorderInv

\* The processor stops: what it has goes to the page.
LEMMA ProcessorStep ==
  ASSUME RecorderInv, Recorder!ProcessorStops, UNCHANGED <<take, takes, re_orderly>>
  PROVE  /\ toPage' \in Seq(Seq(Recorder!Buffers)) /\ leftBuffers' \in Seq(Recorder!Buffers)
         /\ sampleLimit' \in Durations \cup {0} /\ recording' \in BOOLEAN
         /\ re_orderly => /\ LimitKept' /\ OfLast(leftBuffers)'
                          /\ \A i \in DOMAIN toPage' : OfLast(toPage[i])'
<1>1. /\ recording' = FALSE /\ toPage' = Append(toPage, leftBuffers)
      /\ sampleLimit' = 0 /\ leftBuffers' = <<>>
  BY DEF Recorder!ProcessorStops, Recorder!Cleared
<1>2. leftBuffers \in Seq(Recorder!Buffers) /\ toPage \in Seq(Seq(Recorder!Buffers))
  BY DEF RecorderInv, RecorderTypes
<1>3. /\ toPage' \in Seq(Seq(Recorder!Buffers)) /\ DOMAIN toPage = 1..Len(toPage)
      /\ Len(toPage) \in Nat
      /\ DOMAIN toPage' = 1..(Len(toPage) + 1) /\ toPage'[Len(toPage) + 1] = leftBuffers
      /\ \A i \in DOMAIN toPage : toPage'[i] = toPage[i]
  BY <1>1, <1>2, Appended
<1>4. ASSUME re_orderly
      PROVE  /\ LimitKept' /\ OfLast(leftBuffers)'
             /\ \A i \in DOMAIN toPage' : OfLast(toPage[i])'
  <2>1. OfLast(leftBuffers) /\ \A i \in DOMAIN toPage : OfLast(toPage[i])
    BY <1>4 DEF RecorderInv, Flow
  <2>2. \A i \in DOMAIN toPage' : OfLast(toPage'[i])
    <3>1. \A i \in 1..(Len(toPage) + 1) : i \in 1..Len(toPage) \/ i = Len(toPage) + 1 BY <1>3
    <3> QED BY <1>3, <2>1, <3>1
  <2>3. \A i \in DOMAIN toPage' : OfLast(toPage[i])' BY <2>2 DEF OfLast
  <2>4. LimitKept' /\ OfLast(leftBuffers)' BY <1>1 DEF LimitKept, OfLast
  <2> QED BY <2>3, <2>4
<1> QED BY <1>1, <1>3, <1>4, EmptySeq

\* The processor is told to start or to stop.
LEMMA ReceiveStep ==
  ASSUME RecorderInv, Recorder!Receive
  PROVE  RecorderInv'
<1> DEFINE m == Head(toProcessor)
<1>1. /\ toProcessor /= <<>> /\ toProcessor' = Tail(toProcessor)
      /\ UNCHANGED <<_callback, input, files, takes, re_orderly>>
      /\ IF m.name = "stop" THEN Recorder!ProcessorStops /\ UNCHANGED take
         ELSE /\ recording' = TRUE /\ take' = take + 1
              /\ sampleLimit' = IF m.duration = 0 THEN sampleLimit ELSE m.duration
              /\ UNCHANGED <<toPage, leftBuffers>>
  BY DEF Recorder!Receive
<1>2. toProcessor \in Seq(Message) BY DEF RecorderInv, RecorderTypes
<1>3. /\ m \in Message /\ m = toProcessor[1] /\ toProcessor' \in Seq(Message)
      /\ Len(toProcessor') = Len(toProcessor) - 1
      /\ \A i \in 1..Len(toProcessor') : toProcessor'[i] = toProcessor[i + 1]
  BY <1>1, <1>2, HeadTailProperties
<1>4. /\ DOMAIN toProcessor = 1..Len(toProcessor) /\ Len(toProcessor) \in Nat
      /\ DOMAIN toProcessor' = 1..Len(toProcessor') /\ 1 \in DOMAIN toProcessor
  BY <1>1, <1>2, <1>3
<1>5. \A i \in DOMAIN toProcessor' : i + 1 \in DOMAIN toProcessor /\ i + 1 /= 1
                                      /\ toProcessor'[i] = toProcessor[i + 1]
  BY <1>3, <1>4
<1>6. ASSUME re_orderly PROVE \A i \in DOMAIN toProcessor' : toProcessor'[i].name = "stop"
  <2>1. \A i \in DOMAIN toProcessor' : toProcessor'[i].name /= "start"
    BY <1>5, <1>6 DEF RecorderInv, Flow, StartWaits
  <2>2. \A i \in DOMAIN toProcessor' : toProcessor'[i] \in Message BY <1>3, <1>4, ElementOfSeq
  <2> QED BY <2>1, <2>2 DEF Message
<1> HIDE DEF m
<1>7. CASE m.name = "stop"
  <2>1. Recorder!ProcessorStops /\ take' = take BY <1>1, <1>7
  <2>2. /\ toPage' \in Seq(Seq(Recorder!Buffers)) /\ leftBuffers' \in Seq(Recorder!Buffers)
        /\ sampleLimit' \in Durations \cup {0} /\ recording' \in BOOLEAN
        /\ re_orderly => /\ LimitKept' /\ OfLast(leftBuffers)'
                         /\ \A i \in DOMAIN toPage' : OfLast(toPage[i])'
    BY <1>1, <2>1, ProcessorStep
  <2>3. RecorderTypes' BY <1>1, <1>3, <2>1, <2>2 DEF RecorderInv, RecorderTypes
  <2>4. ASSUME re_orderly PROVE StartWaits' /\ AllKnown' /\ CallbackKept' /\ FilesHold'
    <3>1. Flow BY <2>4 DEF RecorderInv
    <3>2. StartWaits' BY <1>6, <2>4 DEF StartWaits
    <3>3. AllKnown' BY <1>1, <1>3, <1>7, <2>1, <3>1 DEF Flow, AllKnown
    <3>4. CallbackKept' /\ FilesHold' BY <1>1, <3>1 DEF Flow, CallbackKept, FilesHold
    <3> QED BY <3>2, <3>3, <3>4
  <2> QED BY <1>1, <2>2, <2>3, <2>4 DEF RecorderInv, Flow
<1>8. CASE m.name /= "stop"
  <2>1. /\ recording' = TRUE /\ take' = take + 1
        /\ sampleLimit' = IF m.duration = 0 THEN sampleLimit ELSE m.duration
        /\ UNCHANGED <<toPage, leftBuffers>>
    BY <1>1, <1>8
  <2>2. m.name = "start" /\ m.duration \in Durations \cup {0} BY <1>3, <1>8 DEF Message
  <2>3. RecorderTypes' BY <1>1, <1>3, <2>1, <2>2 DEF RecorderInv, RecorderTypes
  <2>4. ASSUME re_orderly PROVE Flow'
    <3>1. Flow BY <2>4 DEF RecorderInv
    <3>2. /\ ~recording /\ toPage = <<>> /\ Len(takes) = take + 1
          /\ m.duration = takes[Len(takes)].limit
      BY <1>3, <1>4, <2>2, <3>1 DEF Flow, StartWaits
    <3>3. leftBuffers = <<>> /\ sampleLimit = 0 BY <3>1, <3>2 DEF Flow, LimitKept
    <3>4. takes /= <<>>
      <4>1. Len(takes) /= 0 BY <3>2 DEF RecorderInv, RecorderTypes
      <4> QED BY <4>1
    <3>5. StartWaits' BY <1>6, <2>4 DEF StartWaits
    <3>6. AllKnown' BY <1>1, <2>1, <3>2 DEF AllKnown
    <3>7. LimitKept' BY <1>1, <2>1, <3>2, <3>3, <3>4 DEF LimitKept
    <3>8. CallbackKept' /\ FilesHold' BY <1>1, <3>1 DEF Flow, CallbackKept, FilesHold
    <3>9. OfLast(leftBuffers)' /\ \A i \in DOMAIN toPage' : OfLast(toPage[i])'
      BY <2>1, <3>2, <3>3 DEF OfLast
    <3> QED BY <3>5, <3>6, <3>7, <3>8, <3>9 DEF Flow
  <2> QED BY <1>1, <2>3, <2>4 DEF RecorderInv
<1> QED BY <1>7, <1>8

\* The processor stops at its limit, or fills a buffer more.
LEMMA ProcessStep ==
  ASSUME RecorderInv, Recorder!Process
  PROVE  RecorderInv'
<1> DEFINE b == [take |-> take, from |-> input]
<1>1. /\ recording /\ UNCHANGED <<_callback, input, files, toProcessor, takes, take, re_orderly>>
      /\ IF sampleLimit > 0 /\ Len(leftBuffers) >= sampleLimit THEN Recorder!ProcessorStops
         ELSE /\ input /= none /\ leftBuffers' = Append(leftBuffers, b)
              /\ UNCHANGED <<recording, sampleLimit, toPage>>
  BY DEF Recorder!Process
<1>2. ASSUME Flow PROVE StartWaits' /\ AllKnown' /\ CallbackKept' /\ FilesHold' /\ take = Len(takes)
  <2>1. \A i \in DOMAIN toProcessor : toProcessor[i].name /= "start"
    BY <1>1, <1>2 DEF Flow, StartWaits
  <2>2. take = Len(takes)
    <3>1. CASE toProcessor = <<>> BY <1>2, <3>1 DEF Flow, AllKnown
    <3>2. CASE toProcessor /= <<>>
      <4>1. toProcessor \in Seq(Message) BY DEF RecorderInv, RecorderTypes
      <4>2. 1 \in DOMAIN toProcessor BY <3>2, <4>1
      <4>3. toProcessor[1] \in Message BY <4>1, <4>2, ElementOfSeq
      <4>4. toProcessor[1].name = "stop" BY <2>1, <4>2, <4>3 DEF Message
      <4> QED BY <1>2, <4>4 DEF Flow, AllKnown
    <3> QED BY <3>1, <3>2
  <2>3. StartWaits' BY <1>1, <2>1 DEF StartWaits
  <2>4. AllKnown' /\ CallbackKept' /\ FilesHold'
    BY <1>1, <1>2 DEF Flow, AllKnown, CallbackKept, FilesHold
  <2> QED BY <2>2, <2>3, <2>4
<1> HIDE DEF b
<1>3. CASE sampleLimit > 0 /\ Len(leftBuffers) >= sampleLimit
  <2>1. Recorder!ProcessorStops BY <1>1, <1>3
  <2>2. /\ toPage' \in Seq(Seq(Recorder!Buffers)) /\ leftBuffers' \in Seq(Recorder!Buffers)
        /\ sampleLimit' \in Durations \cup {0} /\ recording' \in BOOLEAN
        /\ re_orderly => /\ LimitKept' /\ OfLast(leftBuffers)'
                         /\ \A i \in DOMAIN toPage' : OfLast(toPage[i])'
    BY <1>1, <2>1, ProcessorStep
  <2>3. RecorderTypes' BY <1>1, <2>2 DEF RecorderInv, RecorderTypes
  <2> QED BY <1>1, <1>2, <2>2, <2>3 DEF RecorderInv, Flow
<1>4. CASE ~(sampleLimit > 0 /\ Len(leftBuffers) >= sampleLimit)
  <2>1. /\ input /= none /\ leftBuffers' = Append(leftBuffers, b)
        /\ UNCHANGED <<recording, sampleLimit, toPage>>
    BY <1>1, <1>4
  <2>2. leftBuffers \in Seq(Recorder!Buffers) /\ input \in Units /\ take \in Nat
    BY <2>1 DEF RecorderInv, RecorderTypes
  <2>3. b \in Recorder!Buffers /\ b.take = take BY <2>2 DEF Recorder!Buffers, b
  <2>4. /\ leftBuffers' \in Seq(Recorder!Buffers) /\ Len(leftBuffers) \in Nat
        /\ Len(leftBuffers') = Len(leftBuffers) + 1
        /\ DOMAIN leftBuffers = 1..Len(leftBuffers)
        /\ DOMAIN leftBuffers' = 1..(Len(leftBuffers) + 1)
        /\ leftBuffers'[Len(leftBuffers) + 1] = b
        /\ \A i \in DOMAIN leftBuffers : leftBuffers'[i] = leftBuffers[i]
    BY <2>1, <2>2, <2>3, Appended
  <2>5. RecorderTypes' BY <1>1, <2>1, <2>4 DEF RecorderInv, RecorderTypes
  <2>6. ASSUME Flow PROVE Flow'
    <3>1. /\ StartWaits' /\ AllKnown' /\ CallbackKept' /\ FilesHold' /\ take = Len(takes)
          /\ takes /= <<>> /\ sampleLimit = takes[Len(takes)].limit
      BY <1>1, <1>2, <2>6 DEF Flow, LimitKept
    <3>2. LimitKept' BY <1>1, <2>1, <2>6 DEF Flow, LimitKept
    <3>3. OfLast(leftBuffers)'
      <4>1. \A i \in DOMAIN leftBuffers : leftBuffers[i].take = Len(takes)
        <5>1. CASE leftBuffers = <<>> BY <5>1
        <5>2. CASE leftBuffers /= <<>> BY <5>2, <2>6 DEF Flow, OfLast
        <5> QED BY <5>1, <5>2
      <4>2. \A i \in DOMAIN leftBuffers' : leftBuffers'[i].take = Len(takes)
        <5>1. \A i \in DOMAIN leftBuffers' :
                i \in DOMAIN leftBuffers \/ i = Len(leftBuffers) + 1
          BY <2>4
        <5> QED BY <2>3, <2>4, <3>1, <4>1, <5>1
      <4>3. sampleLimit \in Nat BY RecorderAssumption DEF RecorderInv, RecorderTypes
      <4>4. sampleLimit > 0 => Len(leftBuffers') <= sampleLimit BY <1>4, <2>4, <4>3
      <4> QED BY <1>1, <3>1, <4>2, <4>4 DEF OfLast
    <3>4. \A i \in DOMAIN toPage' : OfLast(toPage[i])' BY <1>1, <2>1, <2>6 DEF Flow, OfLast
    <3> QED BY <3>1, <3>2, <3>3, <3>4 DEF Flow
  <2> QED BY <1>1, <2>5, <2>6 DEF RecorderInv
<1> QED BY <1>3, <1>4

\* What arrives is put in the file of the last call.
LEMMA ArriveStep ==
  ASSUME RecorderInv, Recorder!Arrive
  PROVE  RecorderInv'
<1> DEFINE b == Head(toPage)
<1>1. /\ toPage /= <<>> /\ toPage' = Tail(toPage)
      /\ files' = IF _callback \in Files
           /\ b /= <<>> THEN [files EXCEPT ![_callback] = b] ELSE files
      /\ UNCHANGED <<_callback, input, toProcessor, recording, sampleLimit, leftBuffers, take,
           takes,
                     re_orderly>>
  BY DEF Recorder!Arrive, Recorder!processor
<1>2. toPage \in Seq(Seq(Recorder!Buffers)) /\ files \in [Files -> Seq(Recorder!Buffers)]
      /\ takes \in Seq(Take)
  BY DEF RecorderInv, RecorderTypes
<1>3. /\ b \in Seq(Recorder!Buffers) /\ b = toPage[1] /\ toPage' \in Seq(Seq(Recorder!Buffers))
      /\ Len(toPage') = Len(toPage) - 1
      /\ \A i \in 1..Len(toPage') : toPage'[i] = toPage[i + 1]
  BY <1>1, <1>2, HeadTailProperties
<1>4. /\ DOMAIN toPage = 1..Len(toPage) /\ Len(toPage) \in Nat
      /\ DOMAIN toPage' = 1..Len(toPage') /\ 1 \in DOMAIN toPage
  BY <1>1, <1>2, <1>3
<1>5. \A i \in DOMAIN toPage' : i + 1 \in DOMAIN toPage /\ toPage'[i] = toPage[i + 1]
  BY <1>3, <1>4
<1> HIDE DEF b
<1>6. files' \in [Files -> Seq(Recorder!Buffers)] BY <1>1, <1>2, <1>3
<1>7. RecorderTypes' BY <1>1, <1>3, <1>6 DEF RecorderInv, RecorderTypes
<1>8. ASSUME Flow PROVE Flow'
  <2>1. StartWaits'
    <3> SUFFICES ASSUME NEW i \in DOMAIN toProcessor, toProcessor[i].name = "start"
                 PROVE  FALSE
      BY <1>1 DEF StartWaits
    <3> QED BY <1>1, <1>8 DEF Flow, StartWaits
  <2>2. AllKnown' /\ LimitKept' /\ CallbackKept' /\ OfLast(leftBuffers)'
    BY <1>1, <1>8 DEF Flow, AllKnown, LimitKept, CallbackKept, OfLast
  <2>3. \A i \in DOMAIN toPage' : OfLast(toPage'[i]) BY <1>5, <1>8 DEF Flow
  <2>4. \A i \in DOMAIN toPage' : OfLast(toPage[i])' BY <1>1, <2>3 DEF OfLast
  <2>5. FilesHold'
    <3> SUFFICES ASSUME NEW q \in Files, files'[q] /= <<>>
                 PROVE  \E t \in DOMAIN takes :
                          /\ takes[t].file = q
                          /\ \A i \in DOMAIN files'[q] : files'[q][i].take = t
                          /\ takes[t].limit > 0 => Len(files'[q]) <= takes[t].limit
      BY <1>1 DEF FilesHold
    <3>1. CASE files'[q] = files[q] BY <1>8, <3>1 DEF Flow, FilesHold
    <3>2. CASE files'[q] /= files[q]
      <4>1. q = _callback /\ b /= <<>> /\ files'[q] = b BY <1>1, <1>2, <3>2
      <4>2. OfLast(b) BY <1>3, <1>4, <1>8 DEF Flow
      <4>3. takes /= <<>> /\ takes[Len(takes)].file = q BY <1>8, <4>1 DEF Flow, CallbackKept
      <4>4. Len(takes) \in DOMAIN takes BY <1>2, <4>3
      <4> QED BY <4>1, <4>2, <4>3, <4>4 DEF OfLast
    <3> QED BY <3>1, <3>2
  <2> QED BY <2>1, <2>2, <2>4, <2>5 DEF Flow
<1> QED BY <1>1, <1>7, <1>8 DEF RecorderInv

\* Every call and every message keeps the invariant.
LEMMA RecorderNext == RecorderInv /\ [Recorder!Next]_(Recorder!vars) => RecorderInv'
<1> SUFFICES ASSUME RecorderInv, [Recorder!Next]_(Recorder!vars) PROVE RecorderInv' OBVIOUS
<1>1. CASE UNCHANGED Recorder!vars
  BY <1>1 DEF Recorder!vars, RecorderInv, RecorderTypes, Flow, StartWaits, AllKnown, LimitKept,
              CallbackKept, FilesHold, OfLast
<1>2. ASSUME NEW f \in Files \cup {none}, NEW d \in Durations \cup {0}, Recorder!Record(f, d)
      PROVE  RecorderInv'
  BY <1>2, RecordStep
<1>3. CASE Recorder!Stop BY <1>3, StopSentStep
<1>4. CASE Recorder!Dispose \/ \E u \in Units : Recorder!SetInput(u) BY <1>4, SetInputStep
<1>5. CASE Recorder!Receive BY <1>5, ReceiveStep
<1>6. CASE Recorder!Process BY <1>6, ProcessStep
<1>7. CASE Recorder!Arrive BY <1>7, ArriveStep
<1> QED BY <1>1, <1>2, <1>3, <1>4, <1>5, <1>6, <1>7 DEF Recorder!Next

LEMMA RecorderSafe == RecorderInv => Recorder!OwnRecording
BY DEF RecorderInv, Flow, FilesHold, Recorder!OwnRecording

\* Whenever stops reach the processor, and whatever is disposed of or plugged in: a file
\* holds one recording, made for it and no longer than asked for, as long as each record
\* waited for the recording before it to arrive.
THEOREM RecordingIsOwn == Recorder!Spec => []OwnRecording
<1>1. RecorderInv => OwnRecording BY RecorderSafe DEF OwnRecording
<1> QED BY <1>1, RecorderInit, RecorderNext, PTL DEF Recorder!Spec
=============================================================================
