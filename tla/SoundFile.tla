----------------------------- MODULE SoundFile -----------------------------
(* The playback of a p5.SoundFile.  Every play makes a source node of the Web  *)
(* Audio API, which plays once; when it stops, the browser tells the file      *)
(* later, by the node's `ended' event.  The position in the file is left out,  *)
(* and so is what is done to the sound but for its direction.  The node that   *)
(* counts the position is made, started and stopped with the source node.      *)
EXTENDS Integers, Sequences, SequencesExt, FiniteSets

CONSTANTS MaxNodes,   \* bound on the source nodes made
          MaxCalls,   \* bound on the other calls of the sketch
          null        \* no node

VARIABLES
  buffer,             \* the file was loaded
  output,             \* the file was not disposed of
  mode, looping, playing, paused,
  reversed,           \* the samples are in reverse order
  playbackRate,       \* the rate asked for last, by its sign
  bufferSourceNode,   \* the node made last
  bufferSourceNodes,  \* the nodes started and not yet cleared, in order
  node,               \* external: what each node does, and whether it loops
  calls,
  overlap,            \* history: two nodes played at once
  modes,              \* history: the modes the file was played in
  failed              \* history: a call threw

vars == <<buffer, output, reversed, playbackRate, mode, looping, playing, paused,
          bufferSourceNode, bufferSourceNodes, node, calls, overlap, modes, failed>>

Modes == {"sustain", "restart", "untildone"}
Whens == {"now", "later"}

(* A node is new until it is started; stopping when it will stop; stopped when *)
(* it has, by itself or not, and `ended' is to come; done after that.          *)
NodeStates == {"new", "playing", "stopping", "stopped", "done"}

Init == /\ buffer = FALSE /\ output = TRUE /\ reversed = FALSE /\ playbackRate = 1
        /\ mode = "sustain" /\ looping = FALSE /\ playing = FALSE /\ paused = FALSE
        /\ bufferSourceNode = null /\ bufferSourceNodes = <<>> /\ node = <<>>
        /\ calls = 0 /\ overlap = FALSE /\ modes = {} /\ failed = FALSE

\* stop(t) of a node: nothing more happens to one that has stopped.
StopNode(s, t) == IF s \in {"playing", "stopping"} THEN IF t = "now" THEN "stopped" ELSE "stopping"
                  ELSE s

\* The nodes when stop(t) was called of those in S.
StoppedNodes(nodes, S, t) ==
  [n \in DOMAIN nodes |-> IF n \in S THEN [nodes[n] EXCEPT !.state = StopNode(@, t)] ELSE nodes[n]]

InArray == {bufferSourceNodes[i] : i \in DOMAIN bufferSourceNodes} \ {null}

\* To stop a node that was never started throws.
StopThrows == bufferSourceNode /= null /\ node[bufferSourceNode].state = "new"

Unplayed(nodes) == {n \in DOMAIN nodes : nodes[n].state = "playing"}

Call == calls < MaxCalls /\ calls' = calls + 1

-----------------------------------------------------------------------------
\* The file's state, for the methods that call each other.
File == [playing |-> playing, paused |-> paused, source |-> bufferSourceNode,
         array |-> bufferSourceNodes, node |-> node, throws |-> FALSE]

\* Mutant: only a file that is not playing stops its node when it restarts.
MutantRestarts(f) == mode = "restart" /\ f.source /= null /\ ~f.playing

Restarts(f) == mode = "restart" /\ f.source /= null

\* play, when the file can be played; inRange is whether the start time is in the file.
Played(f, inRange) ==
  LET nodes == IF Restarts(f) THEN StoppedNodes(f.node, {f.source}, "now") ELSE f.node
      new == Len(nodes) + 1
  IN IF Restarts(f) /\ f.node[f.source].state = "new" THEN [f EXCEPT !.throws = TRUE]
     ELSE IF mode = "untildone" /\ f.playing THEN f
     ELSE IF ~inRange
          THEN [f EXCEPT !.node = Append(nodes, [state |-> "new", loop |-> FALSE]),
                         !.source = new, !.throws = TRUE]
     ELSE [f EXCEPT !.node = Append(nodes, [state |-> "playing", loop |-> looping']),
                    !.source = new, !.array = Append(@, new),
                    !.playing = TRUE, !.paused = FALSE]

\* stop and stopAll.  In the modes that may have several nodes all are stopped first, and what
\* throws is the node that counts.
StoppedFile(f, t) ==
  LET S == IF mode = "restart" THEN {f.source} ELSE {f.array[i] : i \in DOMAIN f.array} \ {null}
      held == [f EXCEPT !.playing = FALSE, !.paused = FALSE]
  IN IF ~buffer \/ f.source = null THEN IF mode = "restart" THEN f ELSE held
     ELSE IF f.node[f.source].state = "new"
          THEN [f EXCEPT !.node = IF mode = "restart" THEN @ ELSE StoppedNodes(@, S, t),
                         !.throws = TRUE]
     ELSE [held EXCEPT !.node = StoppedNodes(@, S, t)]

Becomes(f) == /\ playing' = f.playing /\ paused' = f.paused
              /\ bufferSourceNode' = f.source /\ bufferSourceNodes' = f.array
              /\ node' = f.node
              /\ overlap' = (overlap \/ Cardinality(Unplayed(f.node)) > 1)
              /\ failed' = (failed \/ f.throws)

Load == /\ ~buffer
        /\ buffer' = TRUE
        /\ UNCHANGED <<output, reversed, playbackRate, mode, looping, playing, paused,
                       bufferSourceNode, bufferSourceNodes, node, calls, overlap, modes, failed>>

\* play, or loop, which makes the file loop first.  A file that was disposed of, or is not loaded
\* yet, does not play.
Play(loops, inRange) ==
  /\ Len(node) < MaxNodes
  /\ looping' = (looping \/ loops)
  /\ IF output /\ buffer
     THEN Becomes(Played(File, inRange)) /\ modes' = modes \cup {mode}
     ELSE UNCHANGED <<playing, paused, bufferSourceNode, bufferSourceNodes, node, overlap, modes,
                      failed>>
  /\ UNCHANGED <<buffer, output, reversed, playbackRate, mode, calls>>

\* Mutant: the node is not told to stop.
MutantPausedFile(t) == [File EXCEPT !.paused = TRUE, !.playing = FALSE, !.throws = StopThrows]

PausedFile(t) == [File EXCEPT !.paused = TRUE, !.playing = FALSE, !.throws = StopThrows,
                              !.node = StoppedNodes(@, {bufferSourceNode}, t)]

\* pause: of several nodes the last one stops.
Pause(t) ==
  /\ playing /\ buffer /\ bufferSourceNode /= null
  /\ Becomes(PausedFile(t))
  /\ Call
  /\ UNCHANGED <<buffer, output, reversed, playbackRate, mode, looping, modes>>

Stop(t) ==
  /\ Becomes(StoppedFile(File, t))
  /\ Call
  /\ UNCHANGED <<buffer, output, reversed, playbackRate, mode, looping, modes>>

\* The file when it was stopped and played from elsewhere.
JumpedFile == LET stopped == StoppedFile(File, "now")
              IN IF stopped.throws THEN stopped ELSE Played(stopped, TRUE)

\* The direction of samples that go back, when rate(r) turned them round if they were the wrong way.
Direction(r, back) == IF r = 0 THEN back ELSE r < 0

\* jump, with the samples going back or not: unless the file cannot be stopped, play is given the
\* rate asked for last, and turns them round; the file does not play then, and stays where it is.
Jumps(back) ==
  /\ Len(node) < MaxNodes
  /\ Becomes(JumpedFile)
  /\ reversed' = IF StoppedFile(File, "now").throws THEN back ELSE Direction(playbackRate', back)
  /\ modes' = modes \cup {mode}

Jump == /\ playing
        /\ UNCHANGED <<buffer, output, playbackRate, mode, looping, calls>>
        /\ Jumps(reversed)

\* The samples are turned round, and a file that plays, and has got anywhere, jumps to the same
\* place.  One that is not loaded, or was disposed of, throws, this one with its samples as they
\* were.
TurnsRound(anywhere) ==
  /\ UNCHANGED looping
  /\ IF ~(buffer /\ output)
     THEN Becomes([File EXCEPT !.throws = TRUE]) /\ UNCHANGED <<reversed, modes>>
     ELSE IF playing /\ anywhere THEN Jumps(~reversed)
     ELSE Becomes(File) /\ reversed' = ~reversed /\ UNCHANGED modes
  /\ Call
  /\ UNCHANGED <<buffer, output, mode>>

ReverseBuffer(anywhere) == UNCHANGED playbackRate /\ TurnsRound(anywhere)

\* rate, by its sign: the samples are turned round when they are the wrong way.
Rate(r, anywhere) ==
  /\ playbackRate' = r
  /\ IF Direction(r, reversed) /= reversed THEN TurnsRound(anywhere)
     ELSE Call /\ UNCHANGED <<buffer, output, reversed, mode, looping, playing, paused,
                              bufferSourceNode, bufferSourceNodes, node, overlap, modes, failed>>

\* Mutant: the node is not told.
MutantNodesLooping(b) == node

NodesLooping(b) == IF bufferSourceNode = null THEN node
                   ELSE [node EXCEPT ![bufferSourceNode].loop = b]

\* setLoop: of several nodes the last one takes it.
SetLoop(b) ==
  /\ looping' = b
  /\ node' = NodesLooping(b)
  /\ Call
  /\ UNCHANGED <<buffer, output, reversed, playbackRate, mode, playing, paused,
                 bufferSourceNode, bufferSourceNodes, overlap, modes, failed>>

\* playMode: for restart, all nodes but the last of the array are stopped.
PlayMode(m) ==
  /\ mode' = m
  /\ node' = IF m = "restart" /\ buffer /\ bufferSourceNode /= null
             THEN StoppedNodes(node, {bufferSourceNodes[i] : i \in 1..(Len(bufferSourceNodes) - 1)},
                               "now")
             ELSE node
  /\ Call
  /\ UNCHANGED <<buffer, output, reversed, playbackRate, looping, playing, paused,
                 bufferSourceNode, bufferSourceNodes, overlap, modes, failed>>

\* dispose: the time given to stop is taken as a delay; all nodes but the last of the array are
\* then stopped, and put out of it.
Dispose ==
  LET stopped == StoppedFile(File, "later")
      others == 1..(Len(bufferSourceNodes) - 1)
      disposed == IF buffer /\ bufferSourceNode /= null
                  THEN [stopped EXCEPT
                          !.node = StoppedNodes(@, {bufferSourceNodes[i] : i \in others}, "now"),
                          !.array = [i \in DOMAIN @ |-> IF i \in others THEN null ELSE @[i]]]
                  ELSE stopped
  IN /\ output
     /\ Becomes(IF stopped.throws THEN stopped ELSE disposed)
     /\ output' = stopped.throws
     /\ Call
     /\ UNCHANGED <<buffer, reversed, playbackRate, mode, looping, modes>>

-----------------------------------------------------------------------------
\* A node stops: at the end of the file unless it loops, or when it was told to.
NodeEnds(n) ==
  /\ \/ node[n].state = "playing" /\ ~node[n].loop
     \/ node[n].state = "stopping"
  /\ node' = [node EXCEPT ![n].state = "stopped"]
  /\ UNCHANGED <<buffer, output, reversed, playbackRate, mode, looping, playing, paused,
                 bufferSourceNode, bufferSourceNodes, calls, overlap, modes, failed>>

\* Mutant: the file is not said to have stopped.
MutantCleared(f, left) == [f EXCEPT !.array = left]

\* The last node cleared ends the playing.
Cleared(f, left) == [f EXCEPT !.array = left, !.playing = @ /\ left /= <<>>]

\* _clearOnEnd, at the `ended' of a node: onended is called first, and may play the file again.  A
\* place of the array that dispose emptied makes it throw; what comes after it was cleared then.
Ended(n, again) ==
  LET over  == [File EXCEPT !.node = [@ EXCEPT ![n].state = "done"]]
      f     == IF again /\ output /\ buffer THEN Played(over, TRUE) ELSE over
      place == {i \in DOMAIN f.array : f.array[i] = n}
      left  == IF place = {} THEN f.array ELSE RemoveAt(f.array, CHOOSE i \in place : TRUE)
  IN /\ node[n].state = "stopped"
     /\ again => Len(node) < MaxNodes /\ output /\ buffer
     /\ UNCHANGED looping
     /\ \E g \in {IF f.throws THEN f
                 ELSE IF Contains(f.array, null) THEN [f EXCEPT !.array = left, !.throws = TRUE]
                 ELSE Cleared(f, left)} : Becomes(g)
     /\ modes' = IF again THEN modes \cup {mode} ELSE modes
     /\ UNCHANGED <<buffer, output, reversed, playbackRate, mode, calls>>

Next == \/ Load
        \/ \E loops, inRange \in BOOLEAN : Play(loops, inRange)
        \/ \E t \in Whens : Pause(t) \/ Stop(t)
        \/ Jump
        \/ \E anywhere \in BOOLEAN : ReverseBuffer(anywhere) \/ \E r \in -1..1 : Rate(r, anywhere)
        \/ \E b \in BOOLEAN : SetLoop(b)
        \/ \E m \in Modes : PlayMode(m)
        \/ Dispose
        \/ \E n \in DOMAIN node : NodeEnds(n)
        \/ \E n \in DOMAIN node, again \in BOOLEAN : Ended(n, again)

\* The browser ends each node that is to end, and says so.
Fairness == \A n \in 1..MaxNodes :
  WF_vars(n \in DOMAIN node /\ (NodeEnds(n) \/ \E again \in BOOLEAN : Ended(n, again)))

Spec == Init /\ [][Next]_vars /\ Fairness
-----------------------------------------------------------------------------
\* The variables have the types the methods give them.
TypeOK ==
  /\ {buffer, output, reversed, looping, playing, paused, overlap, failed} \subseteq BOOLEAN
  /\ playbackRate \in -1..1 /\ mode \in Modes /\ modes \subseteq Modes /\ calls \in Nat
  /\ node \in Seq([state : NodeStates, loop : BOOLEAN])
  /\ bufferSourceNode \in DOMAIN node \cup {null}
  /\ bufferSourceNodes \in Seq(DOMAIN node \cup {null})

\* A file none of whose calls threw, and that says it is playing, has a node whose `ended' is still
\* to be handled: isPlaying cannot stay true with nothing left to make it false.
PlayingHasNode == playing /\ ~failed => \E n \in InArray : node[n].state /= "done"

\* Played in one mode only, restart or untildone, a file has one voice: at most one of its nodes
\* plays with nothing to stop it, through pauses, jumps, late `ended' events and onended callbacks
\* that play the file again.
OneVoice == modes \in {{"restart"}, {"untildone"}} /\ ~failed => Cardinality(Unplayed(node)) <= 1

\* A file none of whose plays overlapped and none of whose calls threw is silent, or about to be,
\* when it says that it is not playing.
SilentWhenNotPlaying == ~playing /\ ~overlap /\ ~failed => Unplayed(node) = {}

\* Such a file stops playing unless it loops.
Finishes ==
  (playing /\ ~looping /\ ~overlap /\ ~failed) ~> (~playing \/ looping \/ overlap \/ failed)
=============================================================================
