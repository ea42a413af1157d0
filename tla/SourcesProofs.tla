---------------------------- MODULE SourcesProofs ----------------------------
(***************************************************************************)
(* What the parts that sound keep, for any bounds.  Each part has an       *)
(* invariant, which its first step sets up (...Init) and every step keeps  *)
(* (...Next):                                                              *)
(*   FileInv      the array of a file holds the nodes whose `ended' is to  *)
(*                come, with all that play, and without overlapping plays  *)
(*                only the last node plays                                 *)
(*   CueInv       the reports of a play that none disturbed meet, and      *)
(*                every cue that it went by was called                     *)
(*   SoundingInv  the latest nodes of a source play on while it is         *)
(*                started, and the others are silent when they are due     *)
(***************************************************************************)
EXTENDS Sources, SequenceTheorems, FiniteSetTheorems, WellFoundedInduction, TLAPS

\* The cardinality of a file's nodes is that of the theorems on finite sets.
LEMMA FileCounts == \A S : File!Cardinality(S) = Cardinality(S)
BY DEF File!Cardinality, Cardinality

\* What is in a set of one thing at most is that thing, or it is not there.
LEMMA OneAtMost == ASSUME NEW x, NEW S, S \subseteq {x}
                   PROVE  File!Cardinality(S) \in Nat /\ File!Cardinality(S) <= 1
<1>1. CASE S = {} BY <1>1, FS_EmptySet, FileCounts
<1>2. CASE S = {x}
  <2>1. IsFiniteSet({}) /\ Cardinality({}) = 0 BY FS_EmptySet
  <2>2. Cardinality({} \cup {x}) = 1 BY <2>1, FS_AddElement
  <2>3. S = {} \cup {x} BY <1>2
  <2> QED BY <2>2, <2>3, FileCounts
<1> QED BY <1>1, <1>2

\* Positions are a number of positions.
LEMMA PositionsCount == ASSUME NEW L \in Nat, NEW S, S \subseteq 1..L
                        PROVE  File!Cardinality(S) \in Nat
<1>1. IsFiniteSet(1..L) BY FS_Interval
<1>2. IsFiniteSet(S) BY <1>1, FS_Subset
<1> QED BY <1>2, FS_CardinalityType, FileCounts

\* Of positions, if there is one at most, and one is known, that is all.
LEMMA NoOther ==
  ASSUME NEW L \in Nat, NEW S, S \subseteq 1..L, NEW x \in S, File!Cardinality(S) <= 1
  PROVE  S = {x}
<1>0. Cardinality(S) <= 1 BY FileCounts
<1>1. IsFiniteSet(S)
  <2>1. IsFiniteSet(1..L) BY FS_Interval
  <2> QED BY <2>1, FS_Subset
<1>2. IsFiniteSet(S \ {x}) /\ Cardinality(S \ {x}) = Cardinality(S) - 1 BY <1>1, FS_RemoveElement
<1>3. Cardinality(S) \in Nat /\ Cardinality(S \ {x}) \in Nat BY <1>1, <1>2, FS_CardinalityType
<1>4. Cardinality(S \ {x}) = 0 BY <1>0, <1>2, <1>3
<1>5. S \ {x} = {} BY <1>2, <1>4, FS_EmptySet
<1> QED BY <1>5

-----------------------------------------------------------------------------
-----------------------------------------------------------------------------
LiveNode == [state : {"playing", "stopping", "stopped", "done"}, loop : BOOLEAN]

InRange(s) == {s[i] : i \in DOMAIN s}

\* A file none of whose calls threw: the nodes of the array, but for those in D, are some whose `ended'
\* is to come, each once, with all that play among them; and one that says it is playing has some.
Sound(f, D) ==
  /\ f.node \in Seq(LiveNode)
  /\ f.source \in DOMAIN f.node \cup {null}
  /\ f.array \in Seq(DOMAIN f.node \cup {null})
  /\ f.source = null => f.node = <<>>
  /\ \A i \in DOMAIN f.array : f.array[i] \notin D \cup {null} => f.node[f.array[i]].state /= "done"
  /\ \A i, j \in DOMAIN f.array : f.array[i] = f.array[j] /\ f.array[i] /= null => i = j
  /\ File!Unplayed(f.node) \subseteq InRange(f.array)
  /\ f.playing => f.array /= <<>> /\ f.source /= null

\* Its node made last is the only one that may play, and does not unless the file says so.
Single(f) == File!Unplayed(f.node) \subseteq {f.source}
  /\ (~f.playing => File!Unplayed(f.node) = {})

FileRecord == [playing : BOOLEAN, paused : BOOLEAN, source : Nat \cup {null},
               array : Seq(Nat \cup {null}), node : Seq(LiveNode), throws : BOOLEAN]

FileInv ==
  /\ looping \in BOOLEAN /\ overlap \in BOOLEAN /\ failed \in BOOLEAN
  /\ ~failed =>
       /\ playing \in BOOLEAN /\ paused \in BOOLEAN
       /\ Sound(File!File, {})
       /\ ~sf_buffer => bufferSourceNode = null
       /\ null \in InRange(bufferSourceNodes) => ~sf_output
       /\ ~sf_output => ~playing
       /\ ~overlap => Single(File!File)
       /\ modes \in {{}, {"restart"}, {"untildone"}} => ~overlap

-----------------------------------------------------------------------------
\* Stopping nodes leaves each one it was, and silences those it stops.
LEMMA StoppedNodesKept ==
  ASSUME NEW nodes \in Seq(LiveNode), NEW S, NEW t
  PROVE  /\ File!StoppedNodes(nodes, S, t) \in Seq(LiveNode)
         /\ DOMAIN File!StoppedNodes(nodes, S, t) = DOMAIN nodes
         /\ Len(File!StoppedNodes(nodes, S, t)) = Len(nodes)
         /\ \A n \in DOMAIN nodes :
              (File!StoppedNodes(nodes, S, t)[n].state = "done") <=> (nodes[n].state = "done")
         /\ File!Unplayed(File!StoppedNodes(nodes, S, t)) = File!Unplayed(nodes) \ S
         /\ nodes = <<>> => File!StoppedNodes(nodes, S, t) = <<>>
<1> DEFINE m == File!StoppedNodes(nodes, S, t)
<1>1. DOMAIN m = DOMAIN nodes /\ DOMAIN nodes = 1..Len(nodes) /\ Len(nodes) \in Nat
  BY DEF File!StoppedNodes
<1>2. ASSUME NEW n \in DOMAIN nodes
      PROVE  /\ m[n] \in LiveNode
             /\ (m[n].state = "done") <=> (nodes[n].state = "done")
             /\ (m[n].state = "playing") <=> (nodes[n].state = "playing" /\ n \notin S)
  <2> DEFINE v == nodes[n]
  <2>1. v \in LiveNode OBVIOUS
  <2>2. m[n] = IF n \in S THEN [v EXCEPT !.state = File!StopNode(@, t)] ELSE v
    BY DEF File!StoppedNodes
  <2> HIDE DEF v, m
  <2>3. ASSUME NEW e, e = [v EXCEPT !.state = File!StopNode(@, t)]
        PROVE  /\ e \in LiveNode
               /\ (e.state = "done") <=> (v.state = "done")
               /\ e.state /= "playing"
    BY <2>1, <2>3 DEF LiveNode, File!StopNode
  <2>4. CASE n \in S BY <2>2, <2>3, <2>4 DEF v
  <2>5. CASE n \notin S BY <2>1, <2>2, <2>5 DEF v
  <2> QED BY <2>4, <2>5
<1>3. m = [n \in 1..Len(nodes) |-> m[n]] BY <1>1 DEF File!StoppedNodes
<1>4. m \in Seq(LiveNode) /\ Len(m) = Len(nodes)
  <2>1. ASSUME NEW n \in 1..Len(nodes) PROVE m[n] \in LiveNode BY <1>1, <1>2
  <2> HIDE DEF m
  <2> QED BY <1>1, <1>3, <2>1, IsASeq, LenProperties
<1>5. File!Unplayed(m) = File!Unplayed(nodes) \ S
  <2> HIDE DEF m
  <2> QED BY <1>1, <1>2 DEF File!Unplayed
<1>6. ASSUME nodes = <<>> PROVE m = <<>>
  <2> HIDE DEF m
  <2> QED BY <1>4, <1>6, EmptySeq
<1> QED BY <1>1, <1>2, <1>4, <1>5, <1>6

\* A file is as sound when its nodes are stopped, and it may then say that it does not play.
LEMMA StillSound ==
  ASSUME NEW f \in FileRecord, NEW S, NEW t, NEW g \in FileRecord,
         g.node = File!StoppedNodes(f.node, S, t), g.source = f.source, g.array = f.array,
         g.playing => f.playing
  PROVE  /\ File!Unplayed(g.node) = File!Unplayed(f.node) \ S
         /\ \A D : Sound(f, D) => Sound(g, D)
<1>1. f.node \in Seq(LiveNode) BY DEF FileRecord
<1>2. /\ g.node \in Seq(LiveNode) /\ DOMAIN g.node = DOMAIN f.node
      /\ \A n \in DOMAIN f.node : (g.node[n].state = "done") <=> (f.node[n].state = "done")
      /\ File!Unplayed(g.node) = File!Unplayed(f.node) \ S
      /\ f.node = <<>> => g.node = <<>>
  BY <1>1, StoppedNodesKept
<1>3. ASSUME NEW D, Sound(f, D) PROVE Sound(g, D)
  <2>1. \A i \in DOMAIN f.array : f.array[i] /= null => f.array[i] \in DOMAIN f.node
    BY <1>3 DEF Sound
  <2> QED BY <1>2, <1>3, <2>1 DEF Sound
<1> QED BY <1>2, <1>3

\* stop: the file no longer says it is playing, and if its last node only could play, none does.
LEMMA StoppedKept ==
  ASSUME NEW f \in FileRecord, NEW D, Sound(f, D), ~f.throws, ~sf_buffer => f.source = null, NEW t
  PROVE  /\ File!StoppedFile(f, t) \in FileRecord
         /\ Sound(File!StoppedFile(f, t), D)
         /\ ~File!StoppedFile(f, t).throws /\ ~File!StoppedFile(f, t).playing
         /\ File!StoppedFile(f, t).source = f.source /\ File!StoppedFile(f, t).array = f.array
         /\ Single(f) => Single(File!StoppedFile(f, t))
<1> DEFINE S == IF mode = "restart" THEN {f.source}
  ELSE {f.array[i] : i \in DOMAIN f.array} \ {null}
           m == File!StoppedNodes(f.node, S, t)
           g == File!StoppedFile(f, t)
<1>0. f.node \in Seq(LiveNode) /\ (f.playing => f.source /= null) BY DEF Sound
<1>1. m \in Seq(LiveNode) BY <1>0, StoppedNodesKept
<1>2. CASE f.source = null
  <2>1. g = IF mode = "restart" THEN f ELSE [f EXCEPT !.playing = FALSE, !.paused = FALSE]
    BY <1>2 DEF File!StoppedFile
  <2>2. g \in FileRecord /\ ~g.throws /\ ~g.playing /\ g.source = f.source /\ g.array = f.array
        /\ g.node = f.node
    <3> HIDE DEF g
    <3> QED BY <2>1, <1>0, <1>2 DEF FileRecord
  <2>3. f.node = <<>> BY <1>2 DEF Sound
  <2>4. Sound(g, D) /\ Single(g)
    <3> HIDE DEF g
    <3>1. File!Unplayed(f.node) = {} BY <2>3 DEF File!Unplayed
    <3> QED BY <2>2, <3>1 DEF Sound, Single
  <2> QED BY <2>2, <2>4
<1>3. CASE f.source /= null
  <2>1. f.node[f.source].state /= "new"
    <3>1. f.source \in DOMAIN f.node /\ f.node[f.source] \in LiveNode BY <1>0, <1>3 DEF Sound
    <3> QED BY <3>1 DEF LiveNode
  <2>2. g = [f EXCEPT !.playing = FALSE, !.paused = FALSE, !.node = m]
    <3> DEFINE held == [f EXCEPT !.playing = FALSE, !.paused = FALSE]
    <3>1. g = [held EXCEPT !.node = File!StoppedNodes(@, S, t)]
      BY <1>3, <2>1 DEF File!StoppedFile
    <3>2. held.node = f.node BY DEF FileRecord
    <3>3. g = [held EXCEPT !.node = m] BY <3>1, <3>2
    <3> HIDE DEF g, m
    <3> QED BY <3>3 DEF FileRecord
  <2>3. g \in FileRecord /\ ~g.throws /\ ~g.playing /\ g.source = f.source /\ g.array = f.array
        /\ g.node = m
    <3> HIDE DEF g, m
    <3> QED BY <2>2, <1>1 DEF FileRecord
  <2>4. Sound(g, D) /\ File!Unplayed(g.node) = File!Unplayed(f.node) \ S
    <3>1. g.node = File!StoppedNodes(f.node, S, t) BY <2>3
    <3>2. g \in FileRecord /\ g.source = f.source /\ g.array = f.array /\ (g.playing => f.playing)
      BY <2>3
    <3> HIDE DEF g, S, m
    <3> QED BY <3>1, <3>2, StillSound
  <2>5. ASSUME Single(f) PROVE Single(g)
    <3>1. File!Unplayed(f.node) \subseteq S
      <4>1. CASE mode = "restart" BY <4>1, <2>5 DEF Single
      <4>2. CASE mode /= "restart"
        <5>1. File!Unplayed(f.node) \subseteq InRange(f.array) /\ null \notin File!Unplayed(f.node)
          BY <1>0, FileAssumption, LenProperties DEF Sound, File!Unplayed
        <5> QED BY <4>2, <5>1 DEF InRange
      <4> QED BY <4>1, <4>2
    <3> HIDE DEF g, S
    <3> QED BY <2>3, <2>4, <3>1 DEF Single
  <2> QED BY <2>3, <2>4, <2>5
<1> QED BY <1>2, <1>3

\* play, if it does not throw: it changes nothing, or starts a node that becomes the last.
LEMMA PlayedKept ==
  ASSUME NEW f \in FileRecord, NEW D, Sound(f, D), NEW inRange \in BOOLEAN, looping' \in BOOLEAN,
         ~File!Played(f, inRange).throws
  PROVE  /\ File!Played(f, inRange) \in FileRecord
         /\ Sound(File!Played(f, inRange), D)
         /\ null \in InRange(File!Played(f, inRange).array) => null \in InRange(f.array)
         /\ f.source /= null => File!Played(f, inRange).source /= null
         /\ \A n \in DOMAIN f.node :
              /\ n \in DOMAIN File!Played(f, inRange).node
              /\ File!Played(f, inRange).node[n].state = "done" <=> f.node[n].state = "done"
         /\ Single(f) /\ File!Cardinality(File!Unplayed(File!Played(f, inRange).node)) <= 1
              => Single(File!Played(f, inRange))
         /\ Single(f) /\ mode \in {"restart", "untildone"} => Single(File!Played(f, inRange))
<1> DEFINE nodes == IF File!Restarts(f) THEN File!StoppedNodes(f.node, {f.source}, "now")
  ELSE f.node
           new == Len(nodes) + 1
           v == [state |-> "playing", loop |-> looping']
           g == File!Played(f, inRange)
<1>1. CASE g = f BY <1>1
<1>2. CASE g /= f
  <2>1. g = [f EXCEPT !.node = Append(nodes, v), !.source = new, !.array = Append(@, new),
                      !.playing = TRUE, !.paused = FALSE]
    <3>1. ~(File!Restarts(f) /\ f.node[f.source].state = "new")
      <4>1. ASSUME File!Restarts(f) /\ f.node[f.source].state = "new" PROVE FALSE
        <5>1. g = [f EXCEPT !.throws = TRUE] BY <4>1 DEF File!Played
        <5>2. ~g.throws OBVIOUS
        <5> HIDE DEF g
        <5> QED BY <5>1, <5>2 DEF FileRecord
      <4> QED BY <4>1
    <3>2. inRange
      <4>1. ASSUME ~inRange PROVE FALSE
        <5>1. g = [f EXCEPT !.node = Append(nodes, [state |-> "new", loop |-> FALSE]),
                            !.source = new, !.throws = TRUE]
          BY <4>1, <3>1, <1>2 DEF File!Played
        <5>2. ~g.throws OBVIOUS
        <5> HIDE DEF g, nodes
        <5> QED BY <5>1, <5>2 DEF FileRecord
      <4> QED BY <4>1
    <3> QED BY <1>2, <3>1, <3>2 DEF File!Played
  <2>2. /\ nodes \in Seq(LiveNode) /\ Len(nodes) = Len(f.node) /\ DOMAIN nodes = DOMAIN f.node
        /\ \A n \in DOMAIN f.node : (nodes[n].state = "done") <=> (f.node[n].state = "done")
        /\ File!Unplayed(nodes) = File!Unplayed(f.node) \ (IF File!Restarts(f)
             THEN {f.source} ELSE {})
    <3>1. f.node \in Seq(LiveNode) BY DEF Sound
    <3>2. CASE File!Restarts(f)
      <4>1. nodes = File!StoppedNodes(f.node, {f.source}, "now") BY <3>2
      <4> HIDE DEF nodes
      <4> QED BY <3>1, <3>2, <4>1, StoppedNodesKept
    <3>3. CASE ~File!Restarts(f) BY <3>1, <3>3
    <3> QED BY <3>2, <3>3
  <2>3. v \in LiveNode /\ v.state = "playing" BY DEF LiveNode
  <2>4. new \in Nat \ {0} /\ new \notin DOMAIN f.node /\ new /= null
    <3>1. Len(nodes) \in Nat /\ DOMAIN nodes = 1..Len(nodes)
      <4> HIDE DEF nodes
      <4> QED BY <2>2, LenProperties
    <3> HIDE DEF nodes
    <3> QED BY <2>2, <3>1, FileAssumption
  <2> DEFINE m == Append(nodes, v)
             a == Append(f.array, new)
  <2>5. /\ m \in Seq(LiveNode) /\ DOMAIN m = DOMAIN f.node \cup {new} /\ m[new] = v
        /\ \A n \in DOMAIN f.node : m[n] = nodes[n]
    <3> HIDE DEF nodes, v
    <3>1. Len(nodes) \in Nat /\ DOMAIN nodes = 1..Len(nodes) BY <2>2, LenProperties
    <3>2. /\ m \in Seq(LiveNode) /\ Len(m) = new /\ m[new] = v
          /\ \A n \in 1..Len(nodes) : m[n] = nodes[n]
      BY <2>2, <2>3, AppendProperties
    <3>3. DOMAIN m = 1..new
      <4> HIDE DEF m
      <4> QED BY <3>2, LenProperties
    <3> QED BY <2>2, <3>1, <3>2, <3>3
  <2>6. /\ a \in Seq(Nat \cup {null}) /\ DOMAIN a = DOMAIN f.array \cup {Len(f.array) + 1}
        /\ Len(f.array) + 1 \notin DOMAIN f.array
        /\ a[Len(f.array) + 1] = new /\ a /= <<>>
        /\ \A i \in DOMAIN f.array : a[i] = f.array[i]
    <3> HIDE DEF new
    <3>1. f.array \in Seq(Nat \cup {null}) BY DEF FileRecord
    <3>2. Len(f.array) \in Nat /\ DOMAIN f.array = 1..Len(f.array) BY <3>1, LenProperties
    <3>3. /\ a \in Seq(Nat \cup {null}) /\ Len(a) = Len(f.array) + 1
          /\ a[Len(f.array) + 1] = new
          /\ \A i \in 1..Len(f.array) : a[i] = f.array[i]
      BY <2>4, <3>1, AppendProperties
    <3>4. DOMAIN a = 1..Len(a) /\ a /= <<>>
      <4> HIDE DEF a
      <4> QED BY <3>2, <3>3, LenProperties
    <3> QED BY <3>2, <3>3, <3>4
  <2>7. File!Unplayed(m) = File!Unplayed(nodes) \cup {new}
    <3> HIDE DEF nodes, m, new, v
    <3> QED BY <2>2, <2>3, <2>4, <2>5 DEF File!Unplayed
  <2>8. g = [f EXCEPT !.node = m, !.source = new, !.array = a, !.playing = TRUE, !.paused = FALSE]
    <3> HIDE DEF g, m, new
    <3> QED BY <2>1 DEF FileRecord, m
  <2>9. /\ g \in FileRecord
        /\ g.node = m /\ g.source = new /\ g.array = a /\ g.playing
    <3> HIDE DEF g, m, new, a
    <3> QED BY <2>8, <2>4, <2>5, <2>6 DEF FileRecord
  <2> HIDE DEF g, m, new, a, nodes, v
  <2>10. \A i \in DOMAIN f.array : f.array[i] \in DOMAIN f.node \cup {null} BY DEF Sound
  <2>11. Sound(g, D)
    <3>1. a \in Seq(DOMAIN m \cup {null})
      <4>1. \A i \in DOMAIN a : a[i] \in DOMAIN m \cup {null} BY <2>5, <2>6, <2>10
      <4>2. a = [i \in 1..Len(a) |-> a[i]] /\ Len(a) \in Nat /\ DOMAIN a = 1..Len(a)
        BY <2>6, LenProperties
      <4> QED BY <4>1, <4>2, IsASeq
    <3>2. \A i \in DOMAIN a : a[i] \notin D \cup {null} => m[a[i]].state /= "done"
      <4>1. m[new].state /= "done" BY <2>3, <2>5
      <4>2. \A i \in DOMAIN f.array :
              f.array[i] \notin D \cup {null} => m[f.array[i]].state /= "done"
        BY <2>2, <2>5, <2>10 DEF Sound
      <4> QED BY <2>6, <4>1, <4>2
    <3>3. \A i, j \in DOMAIN a : a[i] = a[j] /\ a[i] /= null => i = j
      BY <2>4, <2>6, <2>10 DEF Sound
    <3>4. File!Unplayed(m) \subseteq InRange(a)
      <4>1. File!Unplayed(f.node) \subseteq InRange(f.array) BY DEF Sound
      <4>2. InRange(f.array) \subseteq InRange(a) /\ new \in InRange(a) BY <2>6 DEF InRange
      <4> QED BY <2>2, <2>7, <4>1, <4>2
    <3> QED BY <2>4, <2>5, <2>6, <2>9, <3>1, <3>2, <3>3, <3>4 DEF Sound
  <2>12. null \in InRange(g.array) => null \in InRange(f.array) BY <2>4, <2>6, <2>9 DEF InRange
  <2>13. ASSUME File!Cardinality(File!Unplayed(g.node)) <= 1 PROVE Single(g)
    <3>1. File!Unplayed(m) \subseteq 1..Len(m) /\ Len(m) \in Nat
      BY <2>5, LenProperties DEF File!Unplayed
    <3>2. File!Unplayed(m) = {new} BY <2>7, <2>9, <2>13, <3>1, NoOther
    <3> QED BY <2>9, <3>2 DEF Single
  <2>14. ASSUME Single(f), mode \in {"restart", "untildone"} PROVE Single(g)
    <3>1. File!Unplayed(nodes) = {}
      <4>1. CASE File!Restarts(f) BY <2>2, <2>14, <4>1 DEF Single
      <4>2. CASE ~File!Restarts(f) /\ mode = "restart"
        <5>1. f.node = <<>> BY <4>2 DEF Sound, File!Restarts
        <5> QED BY <2>2, <5>1 DEF File!Unplayed
      <4>3. CASE mode = "untildone"
        <5>1. ~f.playing
          <6>1. ASSUME f.playing PROVE g = f
            BY <4>3, <6>1 DEF File!Played, File!Restarts, g
          <6> QED BY <1>2, <6>1
        <5> QED BY <2>2, <2>14, <4>3, <5>1 DEF Single, File!Restarts
      <4> QED BY <2>14, <4>1, <4>2, <4>3
    <3> QED BY <2>7, <2>9, <3>1 DEF Single
  <2>15. \A n \in DOMAIN f.node :
           n \in DOMAIN g.node /\ (g.node[n].state = "done" <=> f.node[n].state = "done")
    BY <2>2, <2>5, <2>9
  <2> QED BY <2>4, <2>9, <2>11, <2>12, <2>13, <2>14, <2>15 DEF g
<1> QED BY <1>1, <1>2

\* Taking out a place of an array.
LEMMA TakenOut ==
  ASSUME NEW T, NEW s \in Seq(T), NEW i \in DOMAIN s
  PROVE  /\ File!RemoveAt(s, i) \in Seq(T)
         /\ DOMAIN File!RemoveAt(s, i) = 1..(Len(s) - 1)
         /\ \A j \in 1..(Len(s) - 1) :
              File!RemoveAt(s, i)[j] = IF j < i THEN s[j] ELSE s[j + 1]
<1> DEFINE b == SubSeq(s, 1, i - 1)
           c == SubSeq(s, i + 1, Len(s))
           r == File!RemoveAt(s, i)
<1>1. i \in 1..Len(s) /\ Len(s) \in Nat BY LenProperties
<1>2. b \in Seq(T) /\ Len(b) = i - 1 /\ \A j \in 1..(i - 1) : b[j] = s[j]
  <2>1. 1 \in 1..(Len(s) + 1) /\ i - 1 \in 0..Len(s) BY <1>1
  <2>2. /\ b \in Seq(T)
        /\ Len(b) = IF 1 <= i - 1 THEN i - 1 - 1 + 1 ELSE 0
        /\ \A j \in 1..(i - 1 - 1 + 1) : b[j] = s[1 + j - 1]
    <3>1. \A j \in 1..(i - 1) : j \in 1..Len(s) BY <1>1
    <3> QED BY <2>1, <3>1, SubSeqProperties
  <2> HIDE DEF b
  <2> QED BY <1>1, <2>2
<1>3. c \in Seq(T) /\ Len(c) = Len(s) - i /\ \A j \in 1..(Len(s) - i) : c[j] = s[i + j]
  <2>1. i + 1 \in 1..(Len(s) + 1) /\ Len(s) \in 0..Len(s) BY <1>1
  <2>2. /\ c \in Seq(T)
        /\ Len(c) = IF i + 1 <= Len(s) THEN Len(s) - (i + 1) + 1 ELSE 0
        /\ \A j \in 1..(Len(s) - (i + 1) + 1) : c[j] = s[i + 1 + j - 1]
    BY <2>1, SubSeqProperties
  <2> HIDE DEF c
  <2> QED BY <1>1, <2>2
<1>4. r = b \o c BY DEF File!RemoveAt
<1> HIDE DEF b, c, r
<1>5. r \in Seq(T) /\ Len(r) = Len(s) - 1
      /\ \A j \in 1..(Len(s) - 1) : r[j] = IF j <= i - 1 THEN b[j] ELSE c[j - (i - 1)]
  <2>1. /\ b \o c \in Seq(T) /\ Len(b \o c) = Len(b) + Len(c)
        /\ \A j \in 1..Len(b) + Len(c) :
             (b \o c)[j] = IF j <= Len(b) THEN b[j] ELSE c[j - Len(b)]
    BY <1>2, <1>3, ConcatProperties
  <2>2. Len(b) + Len(c) = Len(s) - 1 BY <1>1, <1>2, <1>3
  <2> QED BY <1>2, <1>4, <2>1, <2>2
<1>6. DOMAIN r = 1..(Len(s) - 1) BY <1>5, LenProperties
<1>7. ASSUME NEW j \in 1..(Len(s) - 1) PROVE r[j] = IF j < i THEN s[j] ELSE s[j + 1]
  <2>1. CASE j < i BY <1>1, <1>2, <1>5, <2>1
  <2>2. CASE ~(j < i)
    <3> DEFINE k == j - (i - 1)
    <3>1. k \in 1..(Len(s) - i) /\ i + k = j + 1 BY <1>1, <2>2
    <3>2. r[j] = c[k]
      <4>1. ~(j <= i - 1) BY <1>1, <2>2
      <4> QED BY <1>5, <4>1
    <3> HIDE DEF k
    <3> QED BY <1>3, <2>2, <3>1, <3>2
  <2> QED BY <2>1, <2>2
<1> QED BY <1>5, <1>6, <1>7 DEF r

LEMMA FileIs == ASSUME FileInv, ~failed
                PROVE  /\ File!File \in FileRecord /\ Sound(File!File, {}) /\ ~File!File.throws
                       /\ ~sf_buffer => File!File.source = null
<1>1. playing \in BOOLEAN /\ paused \in BOOLEAN /\ Sound(File!File, {})
      /\ (~sf_buffer => bufferSourceNode = null)
  BY DEF FileInv
<1>2. /\ sf_node \in Seq(LiveNode) /\ bufferSourceNode \in DOMAIN sf_node \cup {null}
      /\ bufferSourceNodes \in Seq(DOMAIN sf_node \cup {null})
  BY <1>1 DEF Sound, File!File
<1>3. DOMAIN sf_node \subseteq Nat BY <1>2, LenProperties
<1>4. bufferSourceNodes \in Seq(Nat \cup {null})
  <2>1. /\ bufferSourceNodes = [i \in 1..Len(bufferSourceNodes) |-> bufferSourceNodes[i]]
        /\ Len(bufferSourceNodes) \in Nat
    BY <1>2, LenProperties
  <2>2. \A i \in 1..Len(bufferSourceNodes) : bufferSourceNodes[i] \in Nat \cup {null}
    BY <1>2, <1>3, LenProperties
  <2> QED BY <2>1, <2>2, IsASeq
<1> QED BY <1>1, <1>2, <1>3, <1>4 DEF FileRecord, File!File

LEMMA SingleIsOne ==
  ASSUME NEW f, Single(f) PROVE File!Cardinality(File!Unplayed(f.node)) <= 1
BY OneAtMost DEF Single

\* What the file becomes keeps the invariant when it is sound, and single where it has to be.
LEMMA Becoming ==
  ASSUME FileInv, NEW g, File!Becomes(g), looping' \in BOOLEAN,
         ~failed /\ ~g.throws =>
           /\ g \in FileRecord /\ Sound(g, {})
           /\ ~sf_buffer' => g.source = null
           /\ null \in InRange(g.array) => ~sf_output'
           /\ ~sf_output' => ~g.playing
           /\ ~overlap /\ File!Cardinality(File!Unplayed(g.node)) <= 1 => Single(g)
           /\ modes' \in {{}, {"restart"}, {"untildone"}} => ~overlap /\ Single(g)
  PROVE  FileInv'
<1>1. /\ playing' = g.playing /\ paused' = g.paused
      /\ bufferSourceNode' = g.source /\ bufferSourceNodes' = g.array /\ sf_node' = g.node
      /\ overlap' = (overlap \/ File!Cardinality(File!Unplayed(g.node)) > 1)
      /\ failed' = (failed \/ g.throws)
  BY DEF File!Becomes
<1>2. overlap' \in BOOLEAN /\ failed' \in BOOLEAN BY <1>1
<1>3. CASE failed' BY <1>2, <1>3 DEF FileInv
<1>4. CASE ~failed'
  <2>1. /\ g \in FileRecord /\ Sound(g, {})
        /\ ~sf_buffer' => g.source = null
        /\ null \in InRange(g.array) => ~sf_output'
        /\ ~sf_output' => ~g.playing
        /\ ~overlap /\ File!Cardinality(File!Unplayed(g.node)) <= 1 => Single(g)
        /\ modes' \in {{}, {"restart"}, {"untildone"}} => ~overlap /\ Single(g)
    BY <1>1, <1>4
  <2>2. Sound(File!File, {})' BY <1>1, <2>1 DEF Sound, File!File, File!Unplayed, InRange
  <2>3. Single(g) => Single(File!File)' BY <1>1 DEF Single, File!File, File!Unplayed
  <2>4. playing' \in BOOLEAN /\ paused' \in BOOLEAN BY <1>1, <2>1 DEF FileRecord
  <2>5. ASSUME ~overlap' PROVE Single(File!File)'
    <3>1. File!Cardinality(File!Unplayed(g.node)) \in Nat
      <4>1. File!Unplayed(g.node) \subseteq 1..Len(g.node) /\ Len(g.node) \in Nat
        BY <2>1, LenProperties DEF File!Unplayed, Sound
      <4> QED BY <4>1, PositionsCount
    <3>2. File!Cardinality(File!Unplayed(g.node)) <= 1
      <4> DEFINE k == File!Cardinality(File!Unplayed(g.node))
      <4>1. overlap' = (overlap \/ k > 1) /\ k \in Nat BY <1>1, <3>1
      <4> HIDE DEF k
      <4>2. ~(k > 1) BY <2>5, <4>1, Zenon
      <4>3. k <= 1 BY <4>1, <4>2
      <4> QED BY <4>3 DEF k
    <3> QED BY <1>1, <2>1, <2>3, <2>5, <3>2
  <2>6. ASSUME modes' \in {{}, {"restart"}, {"untildone"}} PROVE ~overlap'
    <3>1. ~overlap /\ Single(g) BY <2>1, <2>6
    <3>2. File!Cardinality(File!Unplayed(g.node)) <= 1 BY <3>1, SingleIsOne
    <3>3. File!Cardinality(File!Unplayed(g.node)) \in Int
      <4>1. File!Unplayed(g.node) \subseteq {g.source} BY <3>1 DEF Single
      <4> QED BY <4>1, OneAtMost
    <3> DEFINE k == File!Cardinality(File!Unplayed(g.node))
    <3>4. overlap' = (overlap \/ k > 1) /\ k \in Int /\ k <= 1 BY <1>1, <3>2, <3>3
    <3> HIDE DEF k
    <3>5. ~(k > 1) BY <3>4
    <3> QED BY <3>1, <3>4, <3>5, Zenon
  <2>7. null \in InRange(bufferSourceNodes)' => ~sf_output' BY <1>1, <2>1 DEF InRange
  <2> QED BY <1>1, <1>2, <2>1, <2>2, <2>4, <2>5, <2>6, <2>7 DEF FileInv
<1> QED BY <1>3, <1>4

\* Played once more in a mode, a file was played in one of two modes only if it was before.
LEMMA OneMode ==
  ASSUME modes' = modes \cup {mode}, modes' \in {{}, {"restart"}, {"untildone"}}
  PROVE  modes \in {{}, {"restart"}, {"untildone"}} /\ mode \in {"restart", "untildone"}
<1>1. CASE modes' = {} BY <1>1
<1>2. CASE modes' = {"restart"}
  <2>1. mode = "restart" BY <1>2
  <2>2. modes = {} \/ modes = {"restart"} BY <1>2
  <2> QED BY <2>1, <2>2
<1>3. CASE modes' = {"untildone"}
  <2>1. mode = "untildone" BY <1>3
  <2>2. modes = {} \/ modes = {"untildone"} BY <1>3
  <2> QED BY <2>1, <2>2
<1> QED BY <1>1, <1>2, <1>3

\* Nodes that only fall silent leave the rest as it was.
LEMMA Renoded ==
  ASSUME FileInv, looping' \in BOOLEAN,
         UNCHANGED <<sf_buffer, sf_output, playing, paused, bufferSourceNode, bufferSourceNodes,
                     overlap, modes, failed>>,
         ~failed =>
           /\ sf_node' \in Seq(LiveNode) /\ DOMAIN sf_node' = DOMAIN sf_node
           /\ \A n \in DOMAIN sf_node : (sf_node'[n].state = "done") <=> (sf_node[n].state = "done")
           /\ File!Unplayed(sf_node') \subseteq File!Unplayed(sf_node)
  PROVE  FileInv'
<1>1. CASE failed BY <1>1 DEF FileInv
<1>2. CASE ~failed
  <2>1. Sound(File!File, {}) BY <1>2 DEF FileInv
  <2>2. sf_node = <<>> => sf_node' = <<>>
    <3>1. sf_node' \in Seq(LiveNode) /\ DOMAIN sf_node' = DOMAIN sf_node BY <1>2
    <3>2. ASSUME sf_node = <<>> PROVE sf_node' = <<>>
      <4>1. DOMAIN sf_node' = 1..Len(sf_node') /\ Len(sf_node') \in Nat /\ DOMAIN sf_node' = {}
        BY <3>1, <3>2, LenProperties
      <4>2. Len(sf_node') = 0 BY <4>1
      <4> QED BY <3>1, <4>2, EmptySeq
    <3> QED BY <3>2
  <2>3. Sound(File!File, {})'
    <3>1. \A i \in DOMAIN bufferSourceNodes :
            bufferSourceNodes[i] \in DOMAIN sf_node \cup {null}
      BY <2>1 DEF Sound, File!File
    <3>2. File!Unplayed(sf_node)' \subseteq InRange(bufferSourceNodes)'
      BY <1>2, <2>1 DEF Sound, File!File, File!Unplayed, InRange
    <3> QED BY <1>2, <2>1, <2>2, <3>1, <3>2 DEF Sound, File!File
  <2>4. Single(File!File) => Single(File!File)' BY <1>2 DEF Single, File!File, File!Unplayed
  <2> QED BY <1>2, <2>3, <2>4 DEF FileInv, InRange
<1> QED BY <1>1, <1>2

LEMMA FileInit == File!Init => FileInv
<1> SUFFICES ASSUME File!Init PROVE FileInv OBVIOUS
<1>1. File!Unplayed(<<>>) = {} /\ InRange(<<>>) = {} BY DEF File!Unplayed, InRange
<1>2. Sound(File!File, {}) BY <1>1 DEF File!Init, Sound, File!File
<1>3. Single(File!File) BY <1>1 DEF File!Init, Single, File!File
<1> QED BY <1>1, <1>2, <1>3 DEF File!Init, FileInv

\* One lemma per action.
LEMMA LoadKeeps == ASSUME FileInv, File!Load PROVE FileInv'
<1>1. /\ sf_buffer'
      /\ UNCHANGED <<sf_output, reversed, playbackRate, mode, looping, playing, paused,
                     bufferSourceNode,
                     bufferSourceNodes, sf_node, sf_calls, overlap, modes, failed>>
  BY DEF File!Load
<1>2. File!File' = File!File BY <1>1 DEF File!File
<1>3. Sound(File!File, {})' <=> Sound(File!File, {}) BY <1>2 DEF Sound, File!Unplayed, InRange
<1>4. Single(File!File)' <=> Single(File!File) BY <1>2 DEF Single, File!Unplayed
<1> QED BY <1>1, <1>3, <1>4 DEF FileInv, InRange

\* A file that plays once more: f is what it was, perhaps stopped first.
LEMMA PlaysKeeps ==
  ASSUME FileInv, NEW f, NEW inRange \in BOOLEAN,
         ~failed => /\ f \in FileRecord /\ Sound(f, {}) /\ f.array = bufferSourceNodes
                    /\ Single(File!File) => Single(f),
         File!Becomes(File!Played(f, inRange)), looping' \in BOOLEAN, modes' = modes \cup {mode},
         UNCHANGED <<sf_buffer, sf_output>>, sf_buffer, sf_output
  PROVE  FileInv'
<1> DEFINE g == File!Played(f, inRange)
<1>1. ASSUME ~failed, ~g.throws
      PROVE  /\ g \in FileRecord /\ Sound(g, {})
             /\ null \in InRange(g.array) => ~sf_output'
             /\ ~overlap /\ File!Cardinality(File!Unplayed(g.node)) <= 1 => Single(g)
             /\ modes' \in {{}, {"restart"}, {"untildone"}} => ~overlap /\ Single(g)
  <2>1. /\ g \in FileRecord /\ Sound(g, {})
        /\ null \in InRange(g.array) => null \in InRange(f.array)
        /\ Single(f) /\ File!Cardinality(File!Unplayed(g.node)) <= 1 => Single(g)
        /\ Single(f) /\ mode \in {"restart", "untildone"} => Single(g)
    BY <1>1, PlayedKept
  <2>2. /\ null \in InRange(bufferSourceNodes) => ~sf_output
        /\ ~overlap => Single(File!File)
        /\ modes \in {{}, {"restart"}, {"untildone"}} => ~overlap
    BY <1>1 DEF FileInv
  <2>3. ~overlap => Single(f) BY <1>1, <2>2
  <2> HIDE DEF g
  <2>4. modes' \in {{}, {"restart"}, {"untildone"}} => ~overlap /\ Single(g)
    BY <2>1, <2>2, <2>3, OneMode
  <2> QED BY <1>1, <2>1, <2>2, <2>3, <2>4
<1> HIDE DEF g
<1>2. File!Becomes(g) BY DEF g
<1> QED BY <1>1, <1>2, Becoming

LEMMA PlayKeeps ==
  ASSUME FileInv, NEW loops \in BOOLEAN, NEW inRange \in BOOLEAN, File!Play(loops, inRange)
  PROVE  FileInv'
<1>1. looping' \in BOOLEAN /\ UNCHANGED <<sf_buffer, sf_output, mode>>
  <2>1. looping \in BOOLEAN BY DEF FileInv
  <2>2. looping' = (looping \/ loops) /\ UNCHANGED <<sf_buffer, sf_output, mode>> BY DEF File!Play
  <2> QED BY <2>1, <2>2
<1>2. CASE sf_output /\ sf_buffer
  <2>1. File!Becomes(File!Played(File!File, inRange)) /\ modes' = modes \cup {mode}
    BY <1>2 DEF File!Play
  <2>2. ~failed => /\ File!File \in FileRecord /\ Sound(File!File, {}) BY FileIs
  <2>3. File!File.array = bufferSourceNodes BY DEF File!File
  <2> QED BY <1>1, <1>2, <2>1, <2>2, <2>3, PlaysKeeps
<1>3. CASE ~(sf_output /\ sf_buffer)
  <2>1. UNCHANGED <<playing, paused, bufferSourceNode, bufferSourceNodes, sf_node, overlap, modes,
                    failed>>
    BY <1>3 DEF File!Play
  <2>2. ~failed => sf_node \in Seq(LiveNode) BY DEF FileInv, Sound, File!File
  <2> QED BY <1>1, <2>1, <2>2, Renoded
<1> QED BY <1>2, <1>3

\* A file that stops, at g, and does not play.
LEMMA StopsKeeps ==
  ASSUME FileInv, looping' \in BOOLEAN, NEW g, File!Becomes(g), UNCHANGED <<sf_buffer, modes>>,
         sf_output' => sf_output,
         ~failed => /\ g \in FileRecord /\ Sound(g, {}) /\ ~g.playing
                    /\ g.source = bufferSourceNode
                    /\ null \in InRange(g.array) => ~sf_output'
                    /\ Single(File!File) => Single(g)
  PROVE  FileInv'
<1>1. ~failed =>
        /\ ~sf_buffer => bufferSourceNode = null
        /\ ~overlap => Single(File!File)
        /\ modes \in {{}, {"restart"}, {"untildone"}} => ~overlap
  BY DEF FileInv
<1> QED BY <1>1, Becoming

LEMMA StopKeeps == ASSUME FileInv, NEW t, File!Stop(t) PROVE FileInv'
<1> DEFINE g == File!StoppedFile(File!File, t)
<1>1. File!Becomes(g) /\ UNCHANGED <<sf_buffer, sf_output, looping, modes>> BY DEF File!Stop
<1>2. looping' \in BOOLEAN BY <1>1 DEF FileInv
<1>3. ASSUME ~failed
      PROVE  /\ g \in FileRecord /\ Sound(g, {}) /\ ~g.playing
             /\ g.source = bufferSourceNode /\ (null \in InRange(g.array) => ~sf_output')
             /\ Single(File!File) => Single(g)
  <2>1. /\ File!File \in FileRecord /\ Sound(File!File, {}) /\ ~File!File.throws
        /\ ~sf_buffer => File!File.source = null
    BY <1>3, FileIs
  <2>2. /\ g \in FileRecord /\ Sound(g, {}) /\ ~g.playing
        /\ g.source = File!File.source /\ g.array = File!File.array
             /\ (Single(File!File) => Single(g))
    BY <2>1, StoppedKept
  <2>3. null \in InRange(bufferSourceNodes) => ~sf_output BY <1>3 DEF FileInv
  <2> HIDE DEF g
  <2> QED BY <1>1, <2>2, <2>3 DEF File!File
<1> HIDE DEF g
<1> QED BY <1>1, <1>2, <1>3, StopsKeeps

LEMMA PauseKeeps == ASSUME FileInv, NEW t, File!Pause(t) PROVE FileInv'
<1> DEFINE g == File!PausedFile(t)
           m == File!StoppedNodes(sf_node, {bufferSourceNode}, t)
<1>1. File!Becomes(g) /\ UNCHANGED <<sf_buffer, sf_output, looping, modes>>
      /\ bufferSourceNode /= null
  BY DEF File!Pause
<1>2. looping' \in BOOLEAN BY <1>1 DEF FileInv
<1>3. ASSUME ~failed
      PROVE  /\ g \in FileRecord /\ Sound(g, {}) /\ ~g.playing
             /\ g.source = bufferSourceNode /\ (null \in InRange(g.array) => ~sf_output')
             /\ Single(File!File) => Single(g)
  <2>1. File!File \in FileRecord /\ Sound(File!File, {}) BY <1>3, FileIs
  <2>2. sf_node \in Seq(LiveNode) /\ bufferSourceNode \in DOMAIN sf_node
    BY <1>1, <2>1 DEF File!File, Sound
  <2>3. File!StopThrows = FALSE
    <3>1. sf_node[bufferSourceNode] \in LiveNode BY <2>2
    <3>2. sf_node[bufferSourceNode].state /= "new" BY <3>1 DEF LiveNode
    <3> QED BY <3>2 DEF File!StopThrows
  <2>4. m \in Seq(LiveNode) BY <2>2, StoppedNodesKept
  <2>5. g = [File!File EXCEPT !.paused = TRUE, !.playing = FALSE, !.throws = FALSE, !.node = m]
    <3>1. g = [File!File EXCEPT !.paused = TRUE, !.playing = FALSE, !.throws = File!StopThrows,
                           !.node = File!StoppedNodes(@, {bufferSourceNode}, t)]
      BY DEF File!PausedFile
    <3>2. File!File.node = sf_node BY DEF File!File
    <3> HIDE DEF g
    <3> QED BY <2>3, <3>1, <3>2 DEF File!File
  <2>6. /\ g \in FileRecord /\ ~g.playing /\ g.node = m
        /\ g.source = File!File.source /\ g.array = File!File.array
    <3> HIDE DEF g, m
    <3> QED BY <2>1, <2>4, <2>5 DEF FileRecord
  <2>7. File!File.node = sf_node /\ File!File.source = bufferSourceNode
        /\ File!File.array = bufferSourceNodes
    BY DEF File!File
  <2>8. Sound(g, {}) /\ File!Unplayed(g.node) = File!Unplayed(sf_node) \ {bufferSourceNode}
    <3>1. g.node = File!StoppedNodes(File!File.node, {bufferSourceNode}, t) BY <2>6, <2>7
    <3>2. g \in FileRecord /\ g.source = File!File.source /\ g.array = File!File.array
          /\ (g.playing => File!File.playing)
      BY <2>6
    <3> HIDE DEF g, m
    <3>3. /\ File!Unplayed(g.node) = File!Unplayed(File!File.node) \ {bufferSourceNode}
          /\ \A D : Sound(File!File, D) => Sound(g, D)
      BY <2>1, <3>1, <3>2, StillSound
    <3> QED BY <2>1, <2>7, <3>3
  <2>9. Single(File!File) => Single(g)
    <3> HIDE DEF g
    <3> QED BY <2>6, <2>7, <2>8 DEF Single
  <2>10. null \in InRange(bufferSourceNodes) => ~sf_output BY <1>3 DEF FileInv
  <2> HIDE DEF g
  <2> QED BY <1>1, <2>6, <2>7, <2>8, <2>9, <2>10
<1> HIDE DEF g
<1> QED BY <1>1, <1>2, <1>3, StopsKeeps

\* setTime, and a file turned round: it stops and plays from elsewhere.
LEMMA JumpsKeeps ==
  ASSUME FileInv, NEW back, File!Jumps(back), playing, UNCHANGED <<looping, sf_buffer, sf_output>>
  PROVE  FileInv'
<1> DEFINE f == File!StoppedFile(File!File, "now")
<1>1. /\ looping' \in BOOLEAN /\ modes' = modes \cup {mode}
      /\ File!Becomes(File!JumpedFile)
  BY DEF FileInv, File!Jumps
<1>2. CASE failed
  <2>1. failed' = (failed \/ File!JumpedFile.throws)
        /\ overlap' = (overlap \/ File!Cardinality(File!Unplayed(File!JumpedFile.node)) > 1)
    BY <1>1 DEF File!Becomes
  <2> QED BY <1>1, <1>2, <2>1 DEF FileInv
<1>3. CASE ~failed
  <2>1. /\ File!File \in FileRecord /\ Sound(File!File, {}) /\ ~File!File.throws
        /\ ~sf_buffer => File!File.source = null
    BY <1>3, FileIs
  <2>2. /\ f \in FileRecord /\ Sound(f, {}) /\ ~f.throws /\ f.array = File!File.array
        /\ Single(File!File) => Single(f)
    BY <2>1, StoppedKept
  <2>3. sf_buffer /\ sf_output BY <1>3, <2>1 DEF FileInv, Sound, File!File
  <2>4. File!JumpedFile = File!Played(f, TRUE) BY <2>2 DEF File!JumpedFile
  <2>5. f.array = bufferSourceNodes
    <3>1. File!File.array = bufferSourceNodes BY DEF File!File
    <3> QED BY <2>2, <3>1
  <2>6. File!Becomes(File!Played(f, TRUE)) BY <1>1, <2>4
  <2> HIDE DEF f
  <2> QED BY <1>1, <2>2, <2>3, <2>5, <2>6, PlaysKeeps
<1> QED BY <1>2, <1>3

LEMMA JumpKeeps == ASSUME FileInv, File!Jump PROVE FileInv'
<1>1. File!Jumps(reversed) /\ playing /\ UNCHANGED <<looping, sf_buffer, sf_output>>
  BY DEF File!Jump
<1> QED BY <1>1, JumpsKeeps

LEMMA TurnsRoundKeeps ==
  ASSUME FileInv, NEW anywhere \in BOOLEAN, File!TurnsRound(anywhere)
  PROVE  FileInv'
<1>1. UNCHANGED <<looping, sf_buffer, sf_output, mode>> /\ looping' \in BOOLEAN
  BY DEF File!TurnsRound, FileInv
<1>2. CASE ~(sf_buffer /\ sf_output)
  <2>1. File!Becomes([File!File EXCEPT !.throws = TRUE]) BY <1>2 DEF File!TurnsRound
  <2>2. [File!File EXCEPT !.throws = TRUE].throws BY DEF File!File
  <2> QED BY <1>1, <2>1, <2>2, Becoming
<1>3. CASE sf_buffer /\ sf_output /\ playing /\ anywhere
  <2>1. File!Jumps(~reversed) BY <1>3 DEF File!TurnsRound
  <2> QED BY <1>1, <1>3, <2>1, JumpsKeeps
<1>4. CASE sf_buffer /\ sf_output /\ ~(playing /\ anywhere)
  <2>1. File!Becomes(File!File) /\ UNCHANGED modes BY <1>4 DEF File!TurnsRound
  <2>2. ASSUME ~failed
        PROVE  /\ File!File \in FileRecord /\ Sound(File!File, {})
               /\ ~sf_buffer' => File!File.source = null
               /\ null \in InRange(File!File.array) => ~sf_output'
               /\ ~sf_output' => ~File!File.playing
               /\ ~overlap => Single(File!File)
               /\ modes \in {{}, {"restart"}, {"untildone"}} => ~overlap
    <3>1. File!File \in FileRecord /\ Sound(File!File, {}) BY <2>2, FileIs
    <3>2. /\ null \in InRange(bufferSourceNodes) => ~sf_output
          /\ ~overlap => Single(File!File)
          /\ modes \in {{}, {"restart"}, {"untildone"}} => ~overlap
      BY <2>2 DEF FileInv
    <3>3. File!File.array = bufferSourceNodes BY DEF File!File
    <3> QED BY <1>1, <1>4, <3>1, <3>2, <3>3
  <2> QED BY <1>1, <2>1, <2>2, Becoming
<1> QED BY <1>2, <1>3, <1>4

LEMMA RateKeeps ==
  ASSUME FileInv, NEW r, NEW anywhere \in BOOLEAN, File!Rate(r, anywhere)
  PROVE  FileInv'
<1>1. CASE File!TurnsRound(anywhere) BY <1>1, TurnsRoundKeeps
<1>2. CASE UNCHANGED <<sf_buffer, sf_output, mode, looping, playing, paused, bufferSourceNode,
                       bufferSourceNodes, sf_node, overlap, modes, failed>>
  <2>1. File!File' = File!File BY <1>2 DEF File!File
  <2>2. Sound(File!File, {})' <=> Sound(File!File, {}) BY <2>1 DEF Sound, File!Unplayed, InRange
  <2>3. Single(File!File)' <=> Single(File!File) BY <2>1 DEF Single, File!Unplayed
  <2> QED BY <1>2, <2>2, <2>3 DEF FileInv, InRange
<1> QED BY <1>1, <1>2 DEF File!Rate

LEMMA SetLoopKeeps == ASSUME FileInv, NEW b \in BOOLEAN, File!SetLoop(b) PROVE FileInv'
<1>1. /\ looping' = b
      /\ sf_node' = File!NodesLooping(b)
      /\ UNCHANGED <<sf_buffer, sf_output, playing, paused, bufferSourceNode, bufferSourceNodes,
                     overlap, modes, failed>>
  BY DEF File!SetLoop
<1>2. ASSUME ~failed
      PROVE  /\ sf_node' \in Seq(LiveNode) /\ DOMAIN sf_node' = DOMAIN sf_node
             /\ \A n \in DOMAIN sf_node : sf_node'[n].state = sf_node[n].state
  <2>1. sf_node \in Seq(LiveNode) /\ bufferSourceNode \in DOMAIN sf_node \cup {null}
    BY <1>2 DEF FileInv, Sound, File!File
  <2>2. CASE bufferSourceNode = null BY <1>1, <2>1, <2>2 DEF File!NodesLooping
  <2>3. CASE bufferSourceNode /= null
    <3> DEFINE k == bufferSourceNode
               v == sf_node[k]
    <3>1. k \in DOMAIN sf_node /\ v \in LiveNode BY <2>1, <2>3
    <3>2. sf_node' = [sf_node EXCEPT ![k] = [v EXCEPT !.loop = b]]
      BY <1>1, <2>3 DEF File!NodesLooping
    <3> DEFINE e == [v EXCEPT !.loop = b]
    <3>3. e \in LiveNode /\ e.state = v.state
      <4> HIDE DEF v
      <4> QED BY <3>1 DEF LiveNode
    <3>4. sf_node' = [sf_node EXCEPT ![k] = e] BY <3>2
    <3> HIDE DEF e
    <3>5. sf_node' \in Seq(LiveNode) /\ DOMAIN sf_node' = DOMAIN sf_node
      <4>1. k \in 1..Len(sf_node) BY <2>1, <3>1, LenProperties
      <4> HIDE DEF k
      <4> QED BY <2>1, <3>3, <3>4, <4>1, ExceptSeq, LenProperties
    <3>6. \A n \in DOMAIN sf_node : sf_node'[n] = IF n = k THEN e ELSE sf_node[n] BY <3>4
    <3> QED BY <3>3, <3>5, <3>6
  <2> QED BY <2>1, <2>2, <2>3
<1>3. ~failed => File!Unplayed(sf_node') \subseteq File!Unplayed(sf_node) BY <1>2 DEF File!Unplayed
<1> QED BY <1>1, <1>2, <1>3, Renoded

LEMMA PlayModeKeeps == ASSUME FileInv, NEW m \in File!Modes, File!PlayMode(m) PROVE FileInv'
<1> DEFINE S == {bufferSourceNodes[i] : i \in 1..(Len(bufferSourceNodes) - 1)}
<1>1. /\ sf_node' = IF m = "restart" /\ sf_buffer /\ bufferSourceNode /= null
                 THEN File!StoppedNodes(sf_node, S, "now") ELSE sf_node
      /\ UNCHANGED <<sf_buffer, sf_output, looping, playing, paused, bufferSourceNode,
                     bufferSourceNodes, overlap, modes, failed>>
  BY DEF File!PlayMode
<1>2. looping' \in BOOLEAN BY <1>1 DEF FileInv
<1> HIDE DEF S
<1>3. ASSUME ~failed
      PROVE  /\ sf_node' \in Seq(LiveNode) /\ DOMAIN sf_node' = DOMAIN sf_node
             /\ \A n \in DOMAIN sf_node : (sf_node'[n].state = "done") <=> (sf_node[n].state
                  = "done")
             /\ File!Unplayed(sf_node') \subseteq File!Unplayed(sf_node)
  <2>1. sf_node \in Seq(LiveNode) BY <1>3 DEF FileInv, Sound, File!File
  <2>2. CASE sf_node' = sf_node BY <2>1, <2>2
  <2>3. CASE sf_node' = File!StoppedNodes(sf_node, S, "now") BY <2>1, <2>3, StoppedNodesKept
  <2> QED BY <1>1, <2>2, <2>3
<1> QED BY <1>1, <1>2, <1>3, Renoded

LEMMA NodeEndsKeeps == ASSUME FileInv, NEW n \in DOMAIN sf_node, File!NodeEnds(n) PROVE FileInv'
<1> DEFINE v == sf_node[n]
           e == [v EXCEPT !.state = "stopped"]
<1>1. /\ v.state \in {"playing", "stopping"}
      /\ sf_node' = [sf_node EXCEPT ![n] = e]
      /\ UNCHANGED <<sf_buffer, sf_output, looping, playing, paused, bufferSourceNode,
                     bufferSourceNodes, overlap, modes, failed>>
  BY DEF File!NodeEnds
<1>2. looping' \in BOOLEAN BY <1>1 DEF FileInv
<1>3. ASSUME ~failed
      PROVE  /\ sf_node' \in Seq(LiveNode) /\ DOMAIN sf_node' = DOMAIN sf_node
             /\ \A i \in DOMAIN sf_node : (sf_node'[i].state = "done") <=> (sf_node[i].state
                  = "done")
             /\ File!Unplayed(sf_node') \subseteq File!Unplayed(sf_node)
  <2>1. sf_node \in Seq(LiveNode) BY <1>3 DEF FileInv, Sound, File!File
  <2>2. v \in LiveNode BY <2>1
  <2>3. e \in LiveNode /\ e.state = "stopped"
    <3> HIDE DEF v
    <3> QED BY <2>2 DEF LiveNode
  <2> HIDE DEF e
  <2>4. sf_node' \in Seq(LiveNode) /\ DOMAIN sf_node' = DOMAIN sf_node
    <3>1. n \in 1..Len(sf_node) BY <2>1, LenProperties
    <3> QED BY <1>1, <2>1, <2>3, <3>1, ExceptSeq, LenProperties
  <2>5. \A i \in DOMAIN sf_node : sf_node'[i] = IF i = n THEN e ELSE sf_node[i] BY <1>1
  <2>6. v.state /= "done" BY <1>1
  <2> QED BY <2>3, <2>4, <2>5, <2>6 DEF File!Unplayed
<1> QED BY <1>1, <1>2, <1>3, Renoded

LEMMA DisposeKeeps == ASSUME FileInv, File!Dispose PROVE FileInv'
<1> DEFINE f == File!StoppedFile(File!File, "later")
           others == 1..(Len(bufferSourceNodes) - 1)
           S == {bufferSourceNodes[i] : i \in others}
           m == File!StoppedNodes(f.node, S, "now")
           a == [i \in DOMAIN f.array |-> IF i \in others THEN null ELSE f.array[i]]
           d == [f EXCEPT !.node = m, !.array = a]
           g == IF f.throws THEN f ELSE IF sf_buffer /\ bufferSourceNode /= null THEN d ELSE f
<1>1. /\ File!Becomes(g) /\ sf_output /\ sf_output' = f.throws
      /\ UNCHANGED <<sf_buffer, looping, modes>>
  <2>1. m = File!StoppedNodes(f.node, {bufferSourceNodes[i] : i \in others}, "now") OBVIOUS
  <2>2. d = [f EXCEPT !.node = File!StoppedNodes(@, {bufferSourceNodes[i] : i \in others}, "now"),
                      !.array = [i \in DOMAIN @ |-> IF i \in others THEN null ELSE @[i]]]
    OBVIOUS
  <2>3. g = IF f.throws THEN f
            ELSE IF sf_buffer /\ bufferSourceNode /= null
                 THEN [f EXCEPT
                         !.node = File!StoppedNodes(@, {bufferSourceNodes[i] : i \in others},
                           "now"),
                         !.array = [i \in DOMAIN @ |-> IF i \in others THEN null ELSE @[i]]]
                 ELSE f
    BY <2>2
  <2> HIDE DEF g
  <2> QED BY <2>3 DEF File!Dispose
<1>2. looping' \in BOOLEAN BY <1>1 DEF FileInv
<1> HIDE DEF g, f, a, m, d
<1>3. ASSUME ~failed
      PROVE  /\ g \in FileRecord /\ Sound(g, {}) /\ ~g.playing
             /\ g.source = bufferSourceNode /\ (null \in InRange(g.array) => ~sf_output')
             /\ Single(File!File) => Single(g)
  <2>1. /\ File!File \in FileRecord /\ Sound(File!File, {}) /\ ~File!File.throws
        /\ ~sf_buffer => File!File.source = null
    BY <1>3, FileIs
  <2>2. /\ f \in FileRecord /\ Sound(f, {}) /\ ~f.playing /\ ~f.throws
        /\ f.source = File!File.source /\ f.array = File!File.array
             /\ (Single(File!File) => Single(f))
    BY <2>1, StoppedKept DEF f
  <2>3. ~sf_output' BY <1>1, <2>2
  <2>4. File!File.source = bufferSourceNode /\ File!File.array = bufferSourceNodes BY DEF File!File
  <2>5. CASE g = f BY <2>2, <2>3, <2>4, <2>5
  <2>6. CASE g = d
    <3>1. /\ f.node \in Seq(LiveNode) /\ f.array \in Seq(DOMAIN f.node \cup {null})
          /\ f.array \in Seq(Nat \cup {null})
      BY <2>2 DEF Sound, FileRecord
    <3>2. /\ m \in Seq(LiveNode) /\ DOMAIN m = DOMAIN f.node
          /\ \A n \in DOMAIN f.node : (m[n].state = "done") <=> (f.node[n].state = "done")
          /\ File!Unplayed(m) = File!Unplayed(f.node) \ S
          /\ f.node = <<>> => m = <<>>
      BY <3>1, StoppedNodesKept DEF m
    <3>3. a \in Seq(DOMAIN f.node \cup {null}) /\ a \in Seq(Nat \cup {null})
          /\ DOMAIN a = DOMAIN f.array
      <4>1. DOMAIN f.array = 1..Len(f.array) /\ Len(f.array) \in Nat BY <3>1, LenProperties
      <4>2. a = [i \in 1..Len(f.array) |-> a[i]] BY <4>1 DEF a
      <4>3. \A i \in 1..Len(f.array) : a[i] \in DOMAIN f.node \cup {null}
              /\ a[i] \in Nat \cup {null}
        BY <3>1, <4>1 DEF a
      <4> QED BY <4>1, <4>2, <4>3, IsASeq
    <3>4. \A i \in DOMAIN f.array : a[i] = IF i \in others THEN null ELSE f.array[i] BY DEF a
    <3>5. /\ g \in FileRecord /\ g.node = m /\ g.array = a /\ ~g.playing
          /\ g.source = bufferSourceNode /\ ~g.throws
      BY <2>2, <2>4, <2>6, <3>2, <3>3 DEF d, FileRecord
    <3>6. File!Unplayed(m) \subseteq InRange(a)
      <4>1. ASSUME NEW n \in File!Unplayed(m) PROVE n \in InRange(a)
        <5>1. PICK i \in DOMAIN f.array : f.array[i] = n
          <6>1. n \in InRange(f.array) BY <3>2, <2>2 DEF Sound
          <6> QED BY <6>1 DEF InRange
        <5>2. i \notin others
          <6>1. n \notin S BY <3>2
          <6>2. f.array = bufferSourceNodes BY <2>2, <2>4
          <6> QED BY <5>1, <6>1, <6>2
        <5>3. a[i] = n BY <3>4, <5>1, <5>2
        <5> QED BY <3>3, <5>3 DEF InRange
      <4> QED BY <4>1
    <3>7. Sound(g, {})
      <4>1. \A i \in DOMAIN a : a[i] /= null => a[i] = f.array[i] BY <3>3, <3>4
      <4>2. \A i \in DOMAIN f.array : f.array[i] \in DOMAIN f.node \cup {null} BY <3>1
      <4>3. \A i \in DOMAIN a : a[i] \notin {} \cup {null} => m[a[i]].state /= "done"
        BY <2>2, <3>2, <3>3, <4>1, <4>2 DEF Sound
      <4>4. \A i, j \in DOMAIN a : a[i] = a[j] /\ a[i] /= null => i = j
        BY <2>2, <3>3, <4>1 DEF Sound
      <4>5. bufferSourceNode \in DOMAIN m \cup {null} /\ (bufferSourceNode = null => m = <<>>)
        BY <2>2, <2>4, <3>2 DEF Sound
      <4> QED BY <3>2, <3>3, <3>5, <3>6, <4>3, <4>4, <4>5 DEF Sound
    <3>8. Single(f) => Single(g) BY <2>2, <2>4, <3>2, <3>5 DEF Single
    <3> QED BY <2>2, <2>3, <3>5, <3>7, <3>8
  <2> QED BY <2>2, <2>5, <2>6 DEF g
<1> QED BY <1>1, <1>2, <1>3, StopsKeeps

\* The array without the node whose `ended' is handled.
Left(f, n) == LET place == {i \in DOMAIN f.array : f.array[i] = n}
              IN IF place = {} THEN f.array ELSE File!RemoveAt(f.array, CHOOSE i \in place : TRUE)

LEMMA ClearedKept ==
  ASSUME NEW f \in FileRecord, NEW n \in DOMAIN f.node, Sound(f, {n}),
         f.node[n].state = "done"
  PROVE  /\ File!Cleared(f, Left(f, n)) \in FileRecord
         /\ Sound(File!Cleared(f, Left(f, n)), {})
         /\ InRange(Left(f, n)) \subseteq InRange(f.array)
         /\ Single(f) => Single(File!Cleared(f, Left(f, n)))
<1> DEFINE left == Left(f, n)
           place == {i \in DOMAIN f.array : f.array[i] = n}
           g == File!Cleared(f, left)
<1>1. /\ f.node \in Seq(LiveNode) /\ f.array \in Seq(DOMAIN f.node \cup {null})
      /\ f.array \in Seq(Nat \cup {null}) /\ f.playing \in BOOLEAN
      /\ n /= null
  <2>1. f.node \in Seq(LiveNode) BY DEF FileRecord
  <2>2. DOMAIN f.node \subseteq Nat BY <2>1, LenProperties
  <2> QED BY <2>1, <2>2, FileAssumption DEF Sound, FileRecord
<1>2. /\ left \in Seq(DOMAIN f.node \cup {null}) /\ left \in Seq(Nat \cup {null})
      /\ n \notin InRange(left)
      /\ InRange(left) \subseteq InRange(f.array)
      /\ InRange(f.array) \ {n} \subseteq InRange(left)
      /\ \A i, j \in DOMAIN left : left[i] = left[j] /\ left[i] /= null => i = j
  <2>1. CASE place = {}
    <3>1. left = f.array BY <2>1 DEF Left
    <3> HIDE DEF left
    <3> QED BY <1>1, <2>1, <3>1 DEF InRange, Sound
  <2>2. CASE place /= {}
    <3> DEFINE p == CHOOSE i \in place : TRUE
    <3>1. p \in DOMAIN f.array /\ f.array[p] = n
      <4>1. p \in place BY <2>2
      <4> HIDE DEF p
      <4> QED BY <4>1
    <3>2. left = File!RemoveAt(f.array, p) BY <2>2 DEF Left
    <3> HIDE DEF p, left
    <3>3. /\ left \in Seq(DOMAIN f.node \cup {null}) /\ left \in Seq(Nat \cup {null})
          /\ DOMAIN left = 1..(Len(f.array) - 1)
          /\ \A j \in 1..(Len(f.array) - 1) :
               left[j] = IF j < p THEN f.array[j] ELSE f.array[j + 1]
      BY <1>1, <3>1, <3>2, TakenOut
    <3>4. DOMAIN f.array = 1..Len(f.array) /\ Len(f.array) \in Nat /\ p \in 1..Len(f.array)
      BY <1>1, <3>1, LenProperties
    <3> DEFINE at(j) == IF j < p THEN j ELSE j + 1
    <3>5. \A j \in DOMAIN left :
            at(j) \in DOMAIN f.array /\ at(j) /= p /\ left[j] = f.array[at(j)]
      BY <3>3, <3>4
    <3>6. \A i, j \in DOMAIN left : at(i) = at(j) => i = j BY <3>3, <3>4
    <3>7. \A i \in DOMAIN f.array : i /= p => \E j \in DOMAIN left : at(j) = i
      <4>1. ASSUME NEW i \in DOMAIN f.array, i /= p PROVE \E j \in DOMAIN left : at(j) = i
        <5>1. CASE i < p BY <3>3, <3>4, <4>1, <5>1
        <5>2. CASE ~(i < p)
          <6>1. i - 1 \in DOMAIN left /\ at(i - 1) = i BY <3>3, <3>4, <4>1, <5>2
          <6> QED BY <6>1
        <5> QED BY <5>1, <5>2
      <4> QED BY <4>1
    <3> HIDE DEF at
    <3>8. \A i, j \in DOMAIN f.array :
            f.array[i] = f.array[j] /\ f.array[i] /= null => i = j
      BY DEF Sound
    <3>9. n \notin InRange(left) BY <1>1, <3>1, <3>5, <3>8 DEF InRange
    <3>10. InRange(left) \subseteq InRange(f.array) BY <3>5 DEF InRange
    <3>11. InRange(f.array) \ {n} \subseteq InRange(left) BY <3>1, <3>5, <3>7 DEF InRange
    <3>12. \A i, j \in DOMAIN left : left[i] = left[j] /\ left[i] /= null => i = j
      BY <3>5, <3>6, <3>8
    <3> QED BY <3>3, <3>9, <3>10, <3>11, <3>12
  <2> QED BY <2>1, <2>2
<1> HIDE DEF left
<1>3. /\ g \in FileRecord /\ g.node = f.node /\ g.source = f.source /\ g.array = left
      /\ g.playing <=> f.playing /\ left /= <<>>
  BY <1>1, <1>2 DEF File!Cleared, FileRecord
<1> HIDE DEF g
<1>4. File!Unplayed(f.node) \subseteq InRange(left)
  <2>1. n \notin File!Unplayed(f.node) /\ File!Unplayed(f.node) \subseteq InRange(f.array)
    BY DEF File!Unplayed, Sound
  <2> QED BY <1>2, <2>1
<1>5. Sound(g, {})
  <2>1. ASSUME NEW i \in DOMAIN left, left[i] /= null PROVE f.node[left[i]].state /= "done"
    <3>1. left[i] \in InRange(f.array) /\ left[i] /= n BY <1>2 DEF InRange
    <3>2. PICK j \in DOMAIN f.array : f.array[j] = left[i] BY <3>1 DEF InRange
    <3> QED BY <2>1, <3>1, <3>2 DEF Sound
  <2>2. f.playing => f.source /= null BY DEF Sound
  <2>3. f.source \in DOMAIN f.node \cup {null} /\ (f.source = null => f.node = <<>>) BY DEF Sound
  <2> QED BY <1>1, <1>2, <1>3, <1>4, <2>1, <2>2, <2>3 DEF Sound
<1>6. ASSUME Single(f) PROVE Single(g)
  <2>1. left = <<>> => File!Unplayed(f.node) = {} BY <1>4 DEF InRange
  <2> QED BY <1>3, <1>6, <2>1 DEF Single
<1> QED BY <1>2, <1>3, <1>5, <1>6 DEF g, left

LEMMA EndedKeeps ==
  ASSUME FileInv, NEW n \in DOMAIN sf_node, NEW again \in BOOLEAN, File!Ended(n, again)
  PROVE  FileInv'
<1> DEFINE over == [File!File EXCEPT !.node = [@ EXCEPT ![n].state = "done"]]
           f == IF again /\ sf_output /\ sf_buffer THEN File!Played(over, TRUE) ELSE over
           g == IF f.throws THEN f
                ELSE IF File!Contains(f.array, null)
                  THEN [f EXCEPT !.array = Left(f, n), !.throws = TRUE]
                ELSE File!Cleared(f, Left(f, n))
<1>1. /\ File!Becomes(g) /\ UNCHANGED <<sf_buffer, sf_output, mode, looping>>
      /\ again => sf_output /\ sf_buffer
      /\ modes' = IF again THEN modes \cup {mode} ELSE modes
  <2>1. \E r \in {g} : File!Becomes(r) BY Zenon DEF File!Ended, Left
  <2>2. UNCHANGED <<sf_buffer, sf_output, mode, looping>> BY DEF File!Ended
  <2>3. /\ again => sf_output /\ sf_buffer
        /\ modes' = IF again THEN modes \cup {mode} ELSE modes
    BY DEF File!Ended
  <2> HIDE DEF g
  <2> QED BY ONLY <2>1, <2>2, <2>3
<1>2. looping' \in BOOLEAN BY <1>1 DEF FileInv
<1>3. ASSUME ~failed, ~g.throws
      PROVE  /\ g \in FileRecord /\ Sound(g, {})
             /\ ~sf_buffer' => g.source = null
             /\ null \in InRange(g.array) => ~sf_output'
             /\ ~sf_output' => ~g.playing
             /\ ~overlap /\ File!Cardinality(File!Unplayed(g.node)) <= 1 => Single(g)
             /\ modes' \in {{}, {"restart"}, {"untildone"}} => ~overlap /\ Single(g)
  <2>1. File!File \in FileRecord /\ Sound(File!File, {}) /\ ~File!File.throws BY <1>3, FileIs
  <2>2. /\ ~sf_buffer => bufferSourceNode = null
        /\ null \in InRange(bufferSourceNodes) => ~sf_output
        /\ ~sf_output => ~playing
        /\ ~overlap => Single(File!File)
        /\ modes \in {{}, {"restart"}, {"untildone"}} => ~overlap
    BY <1>3 DEF FileInv
  <2>3. /\ File!File.node = sf_node /\ File!File.source = bufferSourceNode
        /\ File!File.playing = playing
        /\ File!File.array = bufferSourceNodes
    BY DEF File!File
  <2> DEFINE v == sf_node[n]
             e == [v EXCEPT !.state = "done"]
             m == [sf_node EXCEPT ![n] = e]
  <2>4. v \in LiveNode /\ sf_node \in Seq(LiveNode) /\ n \in 1..Len(sf_node)
    <3>1. sf_node \in Seq(LiveNode) BY <2>1, <2>3 DEF Sound
    <3> QED BY <3>1, LenProperties
  <2>5. e \in LiveNode /\ e.state = "done"
    <3> HIDE DEF v
    <3> QED BY <2>4 DEF LiveNode
  <2>6. over = [File!File EXCEPT !.node = m] BY <2>3
  <2> HIDE DEF e
  <2>7. /\ m \in Seq(LiveNode) /\ DOMAIN m = DOMAIN sf_node
        /\ \A i \in DOMAIN sf_node : m[i] = IF i = n THEN e ELSE sf_node[i]
        /\ sf_node # <<>>
    <3>1. m \in Seq(LiveNode) BY <2>4, <2>5, ExceptSeq
    <3>2. sf_node # <<>> BY <2>4
    <3> QED BY <3>1, <3>2
  <2> HIDE DEF m
  <2>8. /\ over \in FileRecord /\ over.node = m /\ over.source = bufferSourceNode
        /\ over.array = bufferSourceNodes /\ over.playing = playing /\ ~over.throws
    <3> HIDE DEF over
    <3> QED BY <2>1, <2>3, <2>6, <2>7 DEF FileRecord
  <2> HIDE DEF over
  <2>9. File!Unplayed(m) \subseteq File!Unplayed(sf_node) BY <2>5, <2>7 DEF File!Unplayed
  <2>10. Sound(over, {n})
    <3>1. \A i \in DOMAIN bufferSourceNodes :
            bufferSourceNodes[i] \notin {n} \cup {null} => m[bufferSourceNodes[i]].state /= "done"
      <4>1. \A i \in DOMAIN bufferSourceNodes : bufferSourceNodes[i] \in DOMAIN sf_node \cup {null}
        BY <2>1, <2>3 DEF Sound
      <4> QED BY <2>1, <2>3, <2>7, <4>1 DEF Sound
    <3>2. File!Unplayed(m) \subseteq InRange(bufferSourceNodes) BY <2>1, <2>3, <2>9 DEF Sound
    <3>3. /\ bufferSourceNode \in DOMAIN m \cup {null} /\ bufferSourceNode /= null
          /\ bufferSourceNodes \in Seq(DOMAIN m \cup {null})
          /\ \A i, j \in DOMAIN bufferSourceNodes :
               bufferSourceNodes[i] = bufferSourceNodes[j] /\ bufferSourceNodes[i] /= null => i = j
          /\ playing => bufferSourceNodes /= <<>>
      BY <2>1, <2>3, <2>7 DEF Sound
    <3> QED BY <2>7, <2>8, <3>1, <3>2, <3>3 DEF Sound
  <2>11. Single(File!File) => Single(over) BY <2>3, <2>8, <2>9 DEF Single
  <2>12. ~f.throws
    <3>1. ASSUME f.throws PROVE FALSE
      <4>1. g = f BY <3>1
      <4> HIDE DEF f, g
      <4> QED BY <1>3, <3>1, <4>1
    <3> QED BY <3>1
  <2>13. /\ f \in FileRecord /\ Sound(f, {n})
         /\ null \in InRange(f.array) => null \in InRange(bufferSourceNodes)
         /\ n \in DOMAIN f.node /\ f.node[n].state = "done"
         /\ ~again => f.playing = playing /\ f.source = bufferSourceNode
         /\ again /\ Single(over) /\ File!Cardinality(File!Unplayed(f.node)) <= 1 => Single(f)
         /\ again /\ Single(over) /\ mode \in {"restart", "untildone"} => Single(f)
         /\ ~again => f = over
    <3>1. CASE again
      <4>1. f = File!Played(over, TRUE) BY <1>1, <3>1
      <4> HIDE DEF f
      <4>2. n \in DOMAIN over.node /\ over.node[n].state = "done" BY <2>5, <2>7, <2>8
      <4>3. /\ File!Played(over, TRUE) \in FileRecord /\ Sound(File!Played(over, TRUE), {n})
            /\ null \in InRange(File!Played(over, TRUE).array) => null \in InRange(over.array)
            /\ n \in DOMAIN File!Played(over, TRUE).node
            /\ File!Played(over, TRUE).node[n].state = "done"
            /\ Single(over) /\ File!Cardinality(File!Unplayed(File!Played(over, TRUE).node)) <= 1
                 => Single(File!Played(over, TRUE))
            /\ Single(over) /\ mode \in {"restart", "untildone"} => Single(File!Played(over, TRUE))
        <5>1. ~File!Played(over, TRUE).throws BY <2>12, <4>1
        <5> QED BY <1>2, <2>8, <2>10, <4>2, <5>1, PlayedKept
      <4> QED BY <2>8, <3>1, <4>1, <4>3
    <3>2. CASE ~again
      <4>1. f = over BY <3>2
      <4> HIDE DEF f
      <4> QED BY <2>5, <2>7, <2>8, <2>10, <3>2, <4>1
    <3> QED BY <3>1, <3>2
  <2> HIDE DEF f
  <2>14. ~File!Contains(f.array, null)
    <3>1. ASSUME File!Contains(f.array, null) PROVE FALSE
      <4>1. g = [f EXCEPT !.array = Left(f, n), !.throws = TRUE] BY <2>12, <3>1
      <4>2. g.throws
        <5> HIDE DEF g
        <5> QED BY <2>13, <4>1 DEF FileRecord
      <4> HIDE DEF g
      <4> QED BY <1>3, <4>2
    <3> QED BY <3>1
  <2>15. null \notin InRange(f.array)
    <3>1. f.array \in Seq(Nat \cup {null}) BY <2>13 DEF FileRecord
    <3>2. DOMAIN f.array = 1..Len(f.array) BY <3>1, LenProperties
    <3> QED BY <2>14, <3>2 DEF File!Contains, InRange
  <2>16. g = File!Cleared(f, Left(f, n)) BY <2>12, <2>14
  <2> HIDE DEF g
  <2>17. /\ g \in FileRecord /\ Sound(g, {})
         /\ InRange(Left(f, n)) \subseteq InRange(f.array)
         /\ Single(f) => Single(g)
    BY <2>13, <2>16, ClearedKept
  <2>18. g.array = Left(f, n) /\ g.node = f.node /\ g.source = f.source
         /\ (g.playing => f.playing)
    BY <2>13, <2>16 DEF File!Cleared, FileRecord
  <2>19. ~overlap /\ File!Cardinality(File!Unplayed(g.node)) <= 1 => Single(g)
    BY <2>2, <2>11, <2>13, <2>17, <2>18
  <2>20. modes' \in {{}, {"restart"}, {"untildone"}} => ~overlap /\ Single(g)
    <3>1. CASE again
      <4>1. modes' = modes \cup {mode} BY <1>1, <3>1
      <4> QED BY <2>2, <2>11, <2>13, <2>17, <3>1, <4>1, OneMode
    <3>2. CASE ~again BY <1>1, <2>2, <2>11, <2>13, <2>17, <3>2
    <3> QED BY <3>1, <3>2
  <2>21. ~sf_buffer' => g.source = null BY <1>1, <2>2, <2>13, <2>18
  <2>22. ~sf_output' => ~g.playing BY <1>1, <2>2, <2>13, <2>18
  <2>23. null \notin InRange(g.array) BY <2>15, <2>17, <2>18
  <2> QED BY <2>17, <2>19, <2>20, <2>21, <2>22, <2>23
<1> HIDE DEF g
<1> QED BY <1>1, <1>2, <1>3, Becoming

LEMMA FileNext == FileInv /\ [File!Next]_(File!vars) => FileInv'
<1> SUFFICES ASSUME FileInv, [File!Next]_(File!vars) PROVE FileInv' OBVIOUS
<1>1. CASE File!Load BY <1>1, LoadKeeps
<1>2. CASE \E loops, inRange \in BOOLEAN : File!Play(loops, inRange) BY <1>2, PlayKeeps
<1>3. CASE \E t \in File!Whens : File!Pause(t) \/ File!Stop(t) BY <1>3, PauseKeeps, StopKeeps
<1>4. CASE File!Jump BY <1>4, JumpKeeps
<1>5. CASE \E anywhere \in BOOLEAN : File!ReverseBuffer(anywhere) \/ \E r \in -1..1 : File!Rate(r,
        anywhere)
  <2>1. PICK anywhere \in BOOLEAN : \/ File!TurnsRound(anywhere)
                                   \/ \E r \in -1..1 : File!Rate(r, anywhere)
    BY <1>5 DEF File!ReverseBuffer
  <2> QED BY <2>1, TurnsRoundKeeps, RateKeeps
<1>6. CASE \E b \in BOOLEAN : File!SetLoop(b) BY <1>6, SetLoopKeeps
<1>7. CASE \E m \in File!Modes : File!PlayMode(m) BY <1>7, PlayModeKeeps
<1>8. CASE File!Dispose BY <1>8, DisposeKeeps
<1>9. CASE \E n \in DOMAIN sf_node : File!NodeEnds(n) BY <1>9, NodeEndsKeeps
<1>10. CASE \E n \in DOMAIN sf_node, again \in BOOLEAN : File!Ended(n, again) BY <1>10, EndedKeeps
<1>11. CASE UNCHANGED File!vars
  <2>1. File!File' = File!File BY <1>11 DEF File!vars, File!File
  <2>2. Sound(File!File, {})' <=> Sound(File!File, {}) BY <2>1 DEF Sound, File!Unplayed, InRange
  <2>3. Single(File!File)' <=> Single(File!File) BY <2>1 DEF Single, File!Unplayed
  <2> QED BY <1>11, <2>2, <2>3 DEF FileInv, InRange, File!vars
<1> QED BY <1>1, <1>2, <1>3, <1>4, <1>5, <1>6, <1>7, <1>8, <1>9, <1>10, <1>11 DEF File!Next

LEMMA FileSafe ==
  ASSUME FileInv
  PROVE  /\ playing /\ ~failed => \E n \in File!InArray : sf_node[n].state /= "done"
         /\ modes \in {{"restart"}, {"untildone"}}
              /\ ~failed => File!Cardinality(File!Unplayed(sf_node)) <= 1
         /\ ~playing /\ ~overlap /\ ~failed => File!Unplayed(sf_node) = {}
<1>1. CASE failed BY <1>1
<1>2. CASE ~failed
  <2>1. /\ Sound(File!File, {})
        /\ null \in InRange(bufferSourceNodes) => ~sf_output
        /\ ~sf_output => ~playing
        /\ ~overlap => Single(File!File)
        /\ modes \in {{}, {"restart"}, {"untildone"}} => ~overlap
    BY <1>2 DEF FileInv
  <2>2. /\ File!File.node = sf_node /\ File!File.source = bufferSourceNode
        /\ File!File.playing = playing
        /\ File!File.array = bufferSourceNodes
    BY DEF File!File
  <2>3. ASSUME playing PROVE \E n \in File!InArray : sf_node[n].state /= "done"
    <3>1. /\ bufferSourceNodes \in Seq(DOMAIN sf_node \cup {null}) /\ bufferSourceNodes /= <<>>
          /\ null \notin InRange(bufferSourceNodes)
      BY <2>1, <2>2, <2>3 DEF Sound
    <3>2. 1 \in DOMAIN bufferSourceNodes
      <4>1. Len(bufferSourceNodes) \in Nat /\ Len(bufferSourceNodes) /= 0
            /\ DOMAIN bufferSourceNodes = 1..Len(bufferSourceNodes)
        BY <3>1, LenProperties, EmptySeq
      <4> QED BY <4>1
    <3>3. bufferSourceNodes[1] /= null BY <3>1, <3>2 DEF InRange
    <3>4. bufferSourceNodes[1] \in File!InArray BY <3>2, <3>3 DEF File!InArray
    <3>5. sf_node[bufferSourceNodes[1]].state /= "done" BY <2>1, <2>2, <3>2, <3>3 DEF Sound
    <3> QED BY <3>4, <3>5
  <2>4. ASSUME ~overlap PROVE File!Cardinality(File!Unplayed(sf_node)) <= 1
                 /\ (~playing => File!Unplayed(sf_node) = {})
    <3>1. Single(File!File) BY <2>1, <2>4
    <3>2. File!Cardinality(File!Unplayed(File!File.node)) <= 1 BY <3>1, SingleIsOne
    <3> QED BY <2>2, <3>1, <3>2 DEF Single
  <2> QED BY <2>1, <2>3, <2>4
<1> QED BY <1>1, <1>2

\* Through pauses, stops, jumps, reversals, late `ended' events and callbacks that play again: a
\* file none of whose calls threw has a node whose `ended' is to come as long as it says it is
\* playing.
THEOREM PlayingEnds == File!Spec => []PlayingHasNode
<1>1. FileInv => PlayingHasNode BY FileSafe DEF PlayingHasNode, File!PlayingHasNode
<1> QED BY <1>1, FileInit, FileNext, PTL DEF File!Spec

\* Played in one mode, restart or untildone, it never has two nodes that play on.
THEOREM OneVoiceOnly == File!Spec => []OneVoice
<1>1. FileInv => OneVoice BY FileSafe DEF OneVoice, File!OneVoice
<1> QED BY <1>1, FileInit, FileNext, PTL DEF File!Spec

\* If its plays never overlapped, none of its nodes plays on once it says it is not playing.
THEOREM SilentWhenStopped == File!Spec => []SilentWhenNotPlaying
<1>1. FileInv => SilentWhenNotPlaying BY FileSafe DEF SilentWhenNotPlaying, File!SilentWhenNotPlaying
<1> QED BY <1>1, FileInit, FileNext, PTL DEF File!Spec

-----------------------------------------------------------------------------
(* Cues. *)

\* A set of natural numbers that is not empty has a least one.
LEMMA Least ==
  ASSUME NEW S \in SUBSET Nat, S /= {}
  PROVE  \E m \in S : \A y \in S : m <= y
<1> DEFINE R == OpToRel(<, Nat)
<1>1. IsWellFoundedOn(R, Nat) BY NatLessThanWellFounded
<1>2. \A x, y \in Nat : x < y => <<x, y>> \in R BY Zenon DEF OpToRel
<1> HIDE DEF R
<1>3. PICK x \in S : \A y \in S : ~(<<y, x>> \in R) BY <1>1, WFMin
<1>4. \A y \in S : x \in Nat /\ y \in Nat /\ ~(y < x) BY <1>2, <1>3, Zenon
<1> QED BY <1>4

\* Taking out a place of the array of cues.
LEMMA CueTaken ==
  ASSUME NEW T, NEW s \in Seq(T), NEW i \in DOMAIN s
  PROVE  /\ Cueing!RemoveAt(s, i) \in Seq(T)
         /\ DOMAIN Cueing!RemoveAt(s, i) = 1..(Len(s) - 1)
         /\ \A j \in 1..(Len(s) - 1) :
              Cueing!RemoveAt(s, i)[j] = IF j < i THEN s[j] ELSE s[j + 1]
<1>1. Cueing!RemoveAt(s, i) = File!RemoveAt(s, i) BY DEF Cueing!RemoveAt, File!RemoveAt
<1> QED BY <1>1, TakenOut

-----------------------------------------------------------------------------
CueRecord == [id : Cueing!Ids, time : Cueing!Times, once : BOOLEAN]

\* A cue that the play went by, after its first report and after it was added, was called.
Called(c) == first < c.time /\ since[c.id] < c.time /\ c.time <= position => fired[c.id] >= 1

\* The reports of an undisturbed play meet: the last one is where the next begins.
CueInv ==
  /\ cues \in Seq(CueRecord) /\ cueIDCounter \in 0..MaxCues
  /\ prevUpdateTime \in Cueing!Times /\ position \in Cueing!Times /\ first \in Cueing!Times
  /\ began \in Cueing!Times /\ heard \in BOOLEAN
  /\ fired \in [Cueing!Ids -> Nat] /\ since \in [Cueing!Ids -> Cueing!Times]
  /\ disturbed \in BOOLEAN
  /\ ~disturbed => /\ heard => prevUpdateTime = position
                   /\ ~heard => first = position
                   /\ \A i \in DOMAIN cues : Called(cues[i])

-----------------------------------------------------------------------------
(* An update. *)

\* What the loop of an update has done after n turns.
Turns(f, n, p) ==
  f = [i \in 0..n |-> IF i = 0 THEN [cues |-> cues, called |-> <<>>, throws |-> FALSE]
                      ELSE Cueing!Examined(f[i - 1], i, p)]

LEMMA TurnsExist == ASSUME NEW p, NEW n \in Nat PROVE \E f : Turns(f, n, p)
<1> DEFINE S == {k \in Nat : ~\E f : Turns(f, k, p)}
<1>1. SUFFICES ASSUME S /= {} PROVE FALSE OBVIOUS
<1>2. PICK m \in S : \A y \in S : m <= y
  <2>1. S \in SUBSET Nat OBVIOUS
  <2> HIDE DEF S
  <2> QED BY <1>1, <2>1, Least
<1>3. m \in Nat /\ ~\E f : Turns(f, m, p) OBVIOUS
<1>4. CASE m = 0
  <2> DEFINE g == [i \in 0..0 |-> [cues |-> cues, called |-> <<>>, throws |-> FALSE]]
  <2>1. \A i \in 0..0 : i = 0 OBVIOUS
  <2>2. Turns(g, 0, p) BY <2>1 DEF Turns
  <2> QED BY <1>3, <1>4, <2>2
<1>5. CASE m /= 0
  <2>1. m - 1 \in Nat /\ m - 1 \notin S BY <1>2, <1>3, <1>5
  <2>2. PICK f : Turns(f, m - 1, p) BY <2>1
  <2> DEFINE g == [i \in 0..m |-> IF i = m THEN Cueing!Examined(f[m - 1], m, p) ELSE f[i]]
  <2>3. \A i \in 0..(m - 1) : /\ f[i] = IF i = 0 THEN [cues |-> cues, called |-> <<>>,
                                                        throws |-> FALSE]
                                        ELSE Cueing!Examined(f[i - 1], i, p)
                              /\ g[i] = f[i]
    <3>1. \A i \in 0..(m - 1) : i \in 0..m /\ i /= m BY <1>3
    <3> HIDE DEF S
    <3> QED BY <2>2, <3>1 DEF Turns
  <2>4. ASSUME NEW i \in 0..m
        PROVE  g[i] = IF i = 0 THEN [cues |-> cues, called |-> <<>>, throws |-> FALSE]
                      ELSE Cueing!Examined(g[i - 1], i, p)
    <3>1. CASE i = m
      <4>1. m - 1 \in 0..(m - 1) BY <2>1
      <4>2. g[m] = Cueing!Examined(f[m - 1], m, p) BY <1>3
      <4>3. g[m - 1] = f[m - 1] BY <2>3, <4>1
      <4> HIDE DEF g
      <4> QED BY <3>1, <1>5, <4>2, <4>3
    <3>2. CASE i = 0
      <4>1. 0 \in 0..(m - 1) BY <2>1
      <4> HIDE DEF g
      <4> QED BY <3>2, <4>1, <2>3
    <3>3. CASE i \in 1..(m - 1)
      <4>1. i \in 0..(m - 1) /\ i - 1 \in 0..(m - 1) /\ i /= 0 BY <3>3, <1>3
      <4> HIDE DEF g
      <4> QED BY <4>1, <2>3
    <3> QED BY <3>1, <3>2, <3>3, <1>3
  <2>5. Turns(g, m, p)
    <3>1. g = [i \in 0..m |-> g[i]] OBVIOUS
    <3> HIDE DEF g
    <3> QED BY <3>1, <2>4 DEF Turns
  <2> QED BY <1>3, <2>5
<1> QED BY <1>4, <1>5

LEMMA UpdateTurns ==
  ASSUME NEW p, Len(cues) \in Nat
  PROVE  \E f : Turns(f, Len(cues), p) /\ Cueing!Update(p) = f[Len(cues)]
<1> DEFINE f == CHOOSE g : Turns(g, Len(cues), p)
<1>1. Turns(f, Len(cues), p) BY TurnsExist
<1>2. Cueing!Update(p) = f[Len(cues)] BY DEF Cueing!Update, Turns
<1> QED BY <1>1, <1>2

\* A cue that is taken out leaves the others, one fewer.
LEMMA WithoutOne ==
  ASSUME NEW list \in Seq(CueRecord), NEW i \in DOMAIN list
  PROVE  /\ Cueing!Without(list, list[i].id) \in Seq(CueRecord)
         /\ Len(Cueing!Without(list, list[i].id)) = Len(list) - 1
         /\ \A k \in DOMAIN Cueing!Without(list, list[i].id) :
              \E j \in DOMAIN list : Cueing!Without(list, list[i].id)[k] = list[j]
<1> DEFINE place == CHOOSE j \in DOMAIN list : list[j].id = list[i].id
           w == Cueing!Without(list, list[i].id)
<1>1. place \in DOMAIN list OBVIOUS
<1>2. w = Cueing!RemoveAt(list, place) BY DEF Cueing!Without
<1> HIDE DEF place, w
<1>3. /\ w \in Seq(CueRecord) /\ DOMAIN w = 1..(Len(list) - 1)
      /\ \A k \in 1..(Len(list) - 1) : w[k] = IF k < place THEN list[k] ELSE list[k + 1]
  BY <1>1, <1>2, CueTaken
<1>4. Len(list) \in Nat /\ DOMAIN list = 1..Len(list) /\ Len(list) - 1 \in Nat
  <2>1. Len(list) \in Nat /\ DOMAIN list = 1..Len(list) BY LenProperties
  <2>2. Len(list) >= 1 BY <2>1
  <2> QED BY <2>1, <2>2
<1>5. Len(w) = Len(list) - 1
  <2>1. Len(w) \in Nat /\ DOMAIN w = 1..Len(w) BY <1>3, LenProperties
  <2>2. \A k \in 1..Len(w) : k \in 1..(Len(list) - 1) BY <2>1, <1>3
  <2>3. \A k \in 1..(Len(list) - 1) : k \in 1..Len(w) BY <2>1, <1>3
  <2> DEFINE m == Len(w)   n == Len(list) - 1
  <2>4. /\ m \in Nat /\ n \in Nat
        /\ \A k \in 1..m : k \in 1..n
        /\ \A k \in 1..n : k \in 1..m
    BY <1>4, <2>1, <2>2, <2>3
  <2> HIDE DEF m, n
  <2>5. m > 0 => m \in 1..n BY <2>4
  <2>6. n > 0 => n \in 1..m BY <2>4
  <2>7. m = n BY <2>4, <2>5, <2>6
  <2> QED BY <2>7 DEF m, n
<1>6. ASSUME NEW k \in DOMAIN w PROVE \E j \in DOMAIN list : w[k] = list[j]
  <2>1. k \in DOMAIN list /\ k + 1 \in DOMAIN list BY <1>3, <1>4
  <2> QED BY <1>3, <2>1
<1> QED BY <1>3, <1>5, <1>6 DEF w

\* After i turns: the array is as it was, or is shorter; and if it is as it was, or all the turns
\* are done, without throwing, then each cue that was due among the first i was called.
Progress(r, i, p) ==
  /\ r \in [cues : Seq(CueRecord), called : Seq(Cueing!Ids), throws : BOOLEAN]
  /\ \A k \in DOMAIN r.cues : \E j \in DOMAIN cues : r.cues[k] = cues[j]
  /\ (r.cues = cues /\ ~r.throws) \/ Len(r.cues) < Len(cues)
  /\ (r.cues = cues \/ i = Len(cues)) /\ ~r.throws =>
       \A j \in 1..i : Cueing!Due(cues[j], p) => Cueing!Contains(r.called, cues[j].id)

LEMMA TurnProgress ==
  ASSUME cues \in Seq(CueRecord), NEW p, NEW i \in 1..Len(cues), NEW r, Progress(r, i - 1, p)
  PROVE  Progress(Cueing!Examined(r, i, p), i, p)
<1> DEFINE e == Cueing!Examined(r, i, p)
<1>a. /\ r \in [cues : Seq(CueRecord), called : Seq(Cueing!Ids), throws : BOOLEAN]
      /\ r.cues \in Seq(CueRecord) /\ r.called \in Seq(Cueing!Ids) /\ r.throws \in BOOLEAN
      /\ \A k \in DOMAIN r.cues : \E j \in DOMAIN cues : r.cues[k] = cues[j]
      /\ (r.cues = cues /\ ~r.throws) \/ Len(r.cues) < Len(cues)
      /\ r.cues = cues /\ ~r.throws =>
           \A j \in 1..(i - 1) : Cueing!Due(cues[j], p) => Cueing!Contains(r.called, cues[j].id)
  BY DEF Progress
<1>b. /\ Len(cues) \in Nat /\ i \in Nat /\ i >= 1 /\ i <= Len(cues) /\ Len(r.cues) \in Nat
      /\ DOMAIN r.cues = 1..Len(r.cues) /\ DOMAIN cues = 1..Len(cues)
  BY <1>a
<1>c. \A j \in 1..i : j /= i => j \in 1..(i - 1) OBVIOUS
<1>1. CASE r.throws \/ i > Len(r.cues)
  <2>1. e = [r EXCEPT !.throws = TRUE] BY <1>1 DEF Cueing!Examined
  <2> HIDE DEF e
  <2>2. /\ e \in [cues : Seq(CueRecord), called : Seq(Cueing!Ids), throws : BOOLEAN]
        /\ e.throws = TRUE /\ e.cues = r.cues
    BY <1>a, <2>1
  <2>3. Len(r.cues) < Len(cues) BY <1>1, <1>a, <1>b
  <2>4. Progress(e, i, p) BY <1>a, <2>2, <2>3 DEF Progress
  <2> QED BY <2>4 DEF e
<1>2. CASE ~(r.throws \/ i > Len(r.cues))
  <2> DEFINE c == r.cues[i]
  <2>0. i \in DOMAIN r.cues /\ ~r.throws BY <1>2, <1>b
  <2>1. c \in CueRecord /\ c.id \in Cueing!Ids /\ c.once \in BOOLEAN
    <3>1. c \in CueRecord BY <2>0, <1>a
    <3> QED BY <3>1 DEF CueRecord
  \* Of a shorter array the last turn is not this one.
  <2>2. Len(r.cues) < Len(cues) => i /= Len(cues) BY <1>2, <1>b
  <2>3. CASE ~Cueing!Due(c, p)
    <3>1. e = r BY <1>2, <2>3 DEF Cueing!Examined
    <3>2. (r.cues = cues \/ i = Len(cues)) =>
            \A j \in 1..i : Cueing!Due(cues[j], p) => Cueing!Contains(r.called, cues[j].id)
      <4> SUFFICES ASSUME r.cues = cues \/ i = Len(cues), NEW j \in 1..i, Cueing!Due(cues[j], p)
                   PROVE  Cueing!Contains(r.called, cues[j].id)
        OBVIOUS
      <4>1. r.cues = cues BY <2>2, <1>a
      <4>2. j /= i BY <4>1, <2>3
      <4>3. j \in 1..(i - 1) BY <4>2, <1>c
      <4> QED BY <4>1, <4>3, <2>0, <1>a
    <3> HIDE DEF e
    <3>3. Progress(e, i, p) BY <3>1, <3>2, <1>a DEF Progress
    <3> QED BY <3>3 DEF e
  <2>4. CASE Cueing!Due(c, p)
    <3> DEFINE left == IF c.once THEN Cueing!Without(r.cues, c.id) ELSE r.cues
               called == Append(r.called, c.id)
    <3>1. e = [r EXCEPT !.called = called, !.cues = left] BY <1>2, <2>4 DEF Cueing!Examined
    <3>2. /\ left \in Seq(CueRecord) /\ Len(left) \in Nat /\ Len(left) <= Len(r.cues)
          /\ \A k \in DOMAIN left : \E j \in DOMAIN r.cues : left[k] = r.cues[j]
          /\ left = r.cues \/ Len(left) < Len(r.cues)
      <4>1. CASE c.once
        <5>0. left = Cueing!Without(r.cues, r.cues[i].id) BY <4>1
        <5> HIDE DEF left
        <5>1. /\ left \in Seq(CueRecord) /\ Len(left) = Len(r.cues) - 1
              /\ \A k \in DOMAIN left : \E j \in DOMAIN r.cues : left[k] = r.cues[j]
          BY <5>0, <2>0, <1>a, WithoutOne
        <5>2. Len(left) \in Nat BY <5>1
        <5> QED BY <5>1, <5>2, <1>b
      <4>2. CASE ~c.once
        BY <4>2, <1>a, <1>b
      <4> QED BY <4>1, <4>2
    <3>3. called \in Seq(Cueing!Ids) /\ Len(called) = Len(r.called) + 1 /\ Len(r.called) \in Nat
            /\ called[Len(r.called) + 1] = c.id
            /\ \A k \in 1..Len(r.called) : called[k] = r.called[k]
      BY <1>a, <2>1
    <3> HIDE DEF left, called
    <3>4. Cueing!Contains(called, c.id)
            /\ \A x : Cueing!Contains(r.called, x) => Cueing!Contains(called, x)
      BY <3>3 DEF Cueing!Contains
    <3>5. /\ e \in [cues : Seq(CueRecord), called : Seq(Cueing!Ids), throws : BOOLEAN]
          /\ e.cues = left /\ e.called = called /\ e.throws = r.throws
      <4> HIDE DEF e
      <4> QED BY <1>a, <3>1, <3>2, <3>3
    <3>6. \A k \in DOMAIN left : \E j \in DOMAIN cues : left[k] = cues[j]
      BY <3>2, <1>a
    <3>7. left = cues \/ Len(left) < Len(cues) BY <3>2, <1>a, <1>b
    <3>8. left = cues \/ i = Len(cues) =>
            \A j \in 1..i : Cueing!Due(cues[j], p) => Cueing!Contains(called, cues[j].id)
      <4> SUFFICES ASSUME left = cues \/ i = Len(cues), NEW j \in 1..i, Cueing!Due(cues[j], p)
                   PROVE  Cueing!Contains(called, cues[j].id)
        OBVIOUS
      <4>1. r.cues = cues
        <5>1. left = cues => ~(Len(r.cues) < Len(cues)) BY <3>2, <1>b
        <5> QED BY <5>1, <2>2, <1>a
      <4>2. CASE j = i BY <4>1, <4>2, <3>4
      <4>3. CASE j /= i
        <5>1. j \in 1..(i - 1) BY <4>3, <1>c
        <5> QED BY <4>1, <5>1, <2>0, <1>a, <3>4
      <4> QED BY <4>2, <4>3
    <3> HIDE DEF e
    <3>9. Progress(e, i, p) BY <2>0, <3>5, <3>6, <3>7, <3>8 DEF Progress
    <3> QED BY <3>9 DEF e
  <2> QED BY <2>3, <2>4
<1> QED BY <1>1, <1>2

\* An update leaves cues that were there; and unless it throws, every cue that was due was called.
LEMMA UpdateCalls ==
  ASSUME cues \in Seq(CueRecord), NEW p
  PROVE  /\ Cueing!Update(p).cues \in Seq(CueRecord) /\ Cueing!Update(p).throws \in BOOLEAN
         /\ \A k \in DOMAIN Cueing!Update(p).cues : \E j \in DOMAIN cues :
              Cueing!Update(p).cues[k] = cues[j]
         /\ ~Cueing!Update(p).throws =>
              \A j \in DOMAIN cues : Cueing!Due(cues[j], p) =>
                Cueing!Contains(Cueing!Update(p).called, cues[j].id)
<1> DEFINE n == Len(cues)
<1>0. n \in Nat /\ DOMAIN cues = 1..n OBVIOUS
<1>1. PICK f : Turns(f, n, p) /\ Cueing!Update(p) = f[n] BY <1>0, UpdateTurns
<1> DEFINE S == {k \in 0..n : ~Progress(f[k], k, p)}
<1>2. S = {}
  <2>1. SUFFICES ASSUME S /= {} PROVE FALSE OBVIOUS
  <2>2. PICK m \in S : \A y \in S : m <= y
    <3>1. S \in SUBSET Nat BY <1>0
    <3> HIDE DEF S
    <3> QED BY <2>1, <3>1, Least
  <2>3. m \in 0..n /\ ~Progress(f[m], m, p) OBVIOUS
  <2>4. CASE m = 0
    <3>1. f[0] = [cues |-> cues, called |-> <<>>, throws |-> FALSE]
      <4>1. 0 \in 0..n BY <1>0
      <4> HIDE DEF S, n
      <4> QED BY <1>1, <4>1 DEF Turns
    <3>2. Progress([cues |-> cues, called |-> <<>>, throws |-> FALSE], 0, p)
      <4>1. 1..0 = {} OBVIOUS
      <4> QED BY <4>1 DEF Progress
    <3> QED BY <2>3, <2>4, <3>1, <3>2
  <2>5. CASE m /= 0
    <3>1. m \in 1..n /\ m - 1 \in 0..n /\ m - 1 < m BY <2>3, <2>5, <1>0
    <3>2. Progress(f[m - 1], m - 1, p)
      <4>1. m - 1 \notin S
        <5> HIDE DEF S
        <5> QED BY <2>2, <3>1, <1>0
      <4> QED BY <4>1, <3>1
    <3>3. f[m] = Cueing!Examined(f[m - 1], m, p)
      <4> HIDE DEF S, n
      <4> QED BY <1>1, <2>3, <2>5 DEF Turns
    <3> QED BY <2>3, <3>1, <3>2, <3>3, TurnProgress
  <2> QED BY <2>4, <2>5
<1>3. Progress(f[n], n, p) BY <1>0, <1>2
<1> DEFINE r == f[n]
<1> HIDE DEF r
<1>4. /\ r \in [cues : Seq(CueRecord), called : Seq(Cueing!Ids), throws : BOOLEAN]
      /\ \A k \in DOMAIN r.cues : \E j \in DOMAIN cues : r.cues[k] = cues[j]
      /\ ~r.throws => \A j \in 1..n : Cueing!Due(cues[j], p) =>
           Cueing!Contains(r.called, cues[j].id)
  BY <1>3 DEF Progress, r
<1>5. r.cues \in Seq(CueRecord) /\ r.throws \in BOOLEAN BY <1>4
<1> QED BY <1>0, <1>1, <1>4, <1>5 DEF r

-----------------------------------------------------------------------------
(* The steps. *)

LEMMA CueInit == Cueing!Init => CueInv
<1> SUFFICES ASSUME Cueing!Init PROVE CueInv OBVIOUS
<1>1. 0 \in Cueing!Times /\ 0 \in 0..MaxCues BY CueAssumption DEF Cueing!Times
<1>2. fired = [i \in Cueing!Ids |-> 0] /\ since = [i \in Cueing!Ids |-> 0] BY DEF Cueing!Init
<1>3. fired \in [Cueing!Ids -> Nat] /\ since \in [Cueing!Ids -> Cueing!Times] BY <1>1, <1>2
<1>4. /\ cues = <<>> /\ cueIDCounter = 0 /\ prevUpdateTime = 0 /\ position = 0 /\ first = 0
      /\ began = 0 /\ heard = FALSE /\ disturbed = FALSE
  BY DEF Cueing!Init
<1>5. cues \in Seq(CueRecord) /\ DOMAIN cues = {} BY <1>4
<1> QED BY <1>1, <1>3, <1>4, <1>5 DEF CueInv

\* A report while none was late or threw: what the play went by since the last one is called.
LEMMA ReportKeeps ==
  ASSUME CueInv, NEW p \in 1..Duration, Cueing!Report(p)
  PROVE  CueInv'
<1> DEFINE u == Cueing!Update(p)
<1>a. /\ cues \in Seq(CueRecord) /\ cueIDCounter \in 0..MaxCues
      /\ prevUpdateTime \in Cueing!Times /\ position \in Cueing!Times /\ first \in Cueing!Times
      /\ began \in Cueing!Times /\ heard \in BOOLEAN
      /\ fired \in [Cueing!Ids -> Nat] /\ since \in [Cueing!Ids -> Cueing!Times]
      /\ disturbed \in BOOLEAN
  BY DEF CueInv
<1>b. /\ u.cues \in Seq(CueRecord) /\ u.throws \in BOOLEAN
      /\ \A k \in DOMAIN u.cues : \E j \in DOMAIN cues : u.cues[k] = cues[j]
      /\ ~u.throws =>
           \A j \in DOMAIN cues : Cueing!Due(cues[j], p) => Cueing!Contains(u.called, cues[j].id)
  BY <1>a, UpdateCalls
<1>c. /\ position < p /\ position' = p /\ first' = IF heard THEN first ELSE p
      /\ cues' = u.cues /\ prevUpdateTime' = IF u.throws THEN prevUpdateTime ELSE p
      /\ disturbed' = (disturbed \/ FALSE \/ u.throws)
      /\ fired' = [i \in Cueing!Ids |-> IF disturbed' THEN 0
                                ELSE fired[i] + (IF Cueing!Contains(u.called, i) THEN 1 ELSE 0)]
      /\ heard' = TRUE /\ cueIDCounter' = cueIDCounter /\ since' = since /\ began' = began
  BY DEF Cueing!Report, Cueing!Reported
<1> HIDE DEF u
<1>d. p \in Cueing!Times BY CueAssumption DEF Cueing!Times
<1>e. disturbed' \in BOOLEAN /\ (~disturbed' => ~disturbed /\ ~u.throws) BY <1>a, <1>b, <1>c, Zenon
<1>1. fired' \in [Cueing!Ids -> Nat]
  <2>1. \A i \in Cueing!Ids : fired[i] \in Nat BY <1>a
  <2> QED BY <1>c, <2>1
<1>2. ASSUME ~disturbed', NEW k \in DOMAIN cues' PROVE Called(cues[k])'
  <2> DEFINE c == cues'[k]
  <2>1. PICK j \in DOMAIN cues : c = cues[j] BY <1>b, <1>c
  <2>2. c \in CueRecord BY <2>1, <1>a
  <2>3. c.id \in Cueing!Ids /\ c.time \in Cueing!Times BY <2>2 DEF CueRecord
  <2> HIDE DEF c
  <2>4. SUFFICES ASSUME first' < c.time, since[c.id] < c.time, c.time <= p
                 PROVE  fired'[c.id] >= 1
    BY <1>c DEF Called, c
  <2>5. fired[c.id] \in Nat
          /\ fired'[c.id] = fired[c.id] + (IF Cueing!Contains(u.called, c.id) THEN 1 ELSE 0)
    BY <1>a, <1>c, <1>2, <2>3
  <2>6. c.time \in Nat /\ p \in Nat /\ position \in Nat /\ prevUpdateTime \in Nat
    BY <2>3, <1>a, <1>d DEF Cueing!Times
  <2>7. heard /\ first' = first BY <1>c, <2>4, <2>6
  <2>8. prevUpdateTime = position /\ Called(c) BY <1>e, <1>2, <2>1, <2>7 DEF CueInv
  <2>9. CASE c.time <= position
    <3>1. fired[c.id] >= 1 BY <2>4, <2>7, <2>8, <2>9 DEF Called
    <3> QED BY <3>1, <2>5
  <2>10. CASE ~(c.time <= position)
    <3>1. Cueing!Due(c, p) BY <2>4, <2>6, <2>8, <2>10 DEF Cueing!Due
    <3>2. Cueing!Contains(u.called, c.id) BY <1>b, <1>e, <1>2, <2>1, <3>1
    <3> QED BY <3>2, <2>5
  <2> QED BY <2>9, <2>10
<1>3. ~disturbed' => prevUpdateTime' = position' /\ heard'
  BY <1>c, <1>e
<1>4. ~disturbed' => \A k \in DOMAIN cues' : Called(cues[k])' BY <1>2
<1>5. prevUpdateTime' \in Cueing!Times /\ position' \in Cueing!Times /\ first' \in Cueing!Times
  BY <1>a, <1>c, <1>d
<1> QED BY <1>a, <1>b, <1>c, <1>e, <1>1, <1>3, <1>4, <1>5 DEF CueInv, Cueing!Ids, Cueing!Times

LEMMA CueNext == CueInv /\ [Cueing!Next]_(Cueing!vars) => CueInv'
<1> SUFFICES ASSUME CueInv, [Cueing!Next]_(Cueing!vars) PROVE CueInv' OBVIOUS
<1>a. /\ cues \in Seq(CueRecord) /\ cueIDCounter \in 0..MaxCues
      /\ prevUpdateTime \in Cueing!Times /\ position \in Cueing!Times /\ first \in Cueing!Times
      /\ began \in Cueing!Times /\ heard \in BOOLEAN
      /\ fired \in [Cueing!Ids -> Nat] /\ since \in [Cueing!Ids -> Cueing!Times]
      /\ disturbed \in BOOLEAN
  BY DEF CueInv
<1>b. \A i \in DOMAIN cues : cues[i] \in CueRecord /\ cues[i].id \in Cueing!Ids
        /\ cues[i].time \in Cueing!Times
  <2>1. \A i \in DOMAIN cues : cues[i] \in CueRecord BY <1>a
  <2> QED BY <2>1 DEF CueRecord
<1>c. \A x, y \in Cueing!Times : ~(x < y /\ y <= x) BY DEF Cueing!Times
\* Cues that are taken out or cleared leave others as they were.
<1>d. ASSUME cues' \in Seq(CueRecord),
               \A k \in DOMAIN cues' : \E j \in DOMAIN cues : cues'[k] = cues[j],
             UNCHANGED <<cueIDCounter, prevUpdateTime, position, began, first, heard, since,
                         fired, disturbed>>
      PROVE  CueInv'
  <2>1. ASSUME ~disturbed', NEW k \in DOMAIN cues' PROVE Called(cues[k])'
    <3>1. PICK j \in DOMAIN cues : cues'[k] = cues[j] BY <1>d
    <3>2. Called(cues[j]) BY <1>d, <2>1 DEF CueInv
    <3> QED BY <1>d, <3>1, <3>2 DEF Called
  <2>2. ~disturbed' => \A k \in DOMAIN cues' : Called(cues[k])' BY <2>1
  <2> QED BY <1>d, <2>2 DEF CueInv, Cueing!Ids, Cueing!Times
<1>1. ASSUME NEW t \in Cueing!Times, NEW once \in BOOLEAN, Cueing!AddCue(t, once) PROVE CueInv'
  <2> DEFINE new == [id |-> cueIDCounter, time |-> t, once |-> once]
  <2>1. /\ cueIDCounter < MaxCues /\ cues' = Append(cues, new)
        /\ cueIDCounter' = cueIDCounter + 1
        /\ since' = [since EXCEPT ![cueIDCounter] = position]
        /\ UNCHANGED <<prevUpdateTime, position, began, first, heard, fired, disturbed>>
    BY <1>1 DEF Cueing!AddCue
  <2>2. cueIDCounter \in Cueing!Ids /\ cueIDCounter' \in 0..MaxCues
    BY <1>a, <2>1, CueAssumption DEF Cueing!Ids
  <2>3. new \in CueRecord BY <2>2 DEF CueRecord
  <2>4. cues' \in Seq(CueRecord) /\ \A k \in DOMAIN cues' :
          cues'[k] = new \/ \E j \in DOMAIN cues : cues'[k] = cues[j]
    BY <1>a, <2>1, <2>3
  <2>5. since' \in [Cueing!Ids -> Cueing!Times] BY <1>a, <2>1
  <2>6. ASSUME ~disturbed', NEW k \in DOMAIN cues' PROVE Called(cues[k])'
    <3> DEFINE c == cues'[k]
    <3>1. c \in CueRecord BY <2>4
    <3>2. c.id \in Cueing!Ids /\ c.time \in Cueing!Times BY <3>1 DEF CueRecord
    <3>3. c.id = cueIDCounter => since'[c.id] = position BY <3>2, <1>a, <2>1
    <3>4. c.id /= cueIDCounter => since'[c.id] = since[c.id] BY <1>a, <2>1
    <3>5. CASE c.id = cueIDCounter
      <4>1. ~(since'[c.id] < c.time /\ c.time <= position) BY <1>a, <1>c, <3>2, <3>3, <3>5
      <4> QED BY <4>1, <2>1 DEF Called
    <3>6. CASE c.id /= cueIDCounter
      <4>1. PICK j \in DOMAIN cues : c = cues[j] BY <2>4, <3>6
      <4>2. Called(cues[j]) BY <2>1, <2>6 DEF CueInv
      <4> QED BY <2>1, <3>4, <3>6, <4>1, <4>2 DEF Called
    <3> QED BY <3>5, <3>6
  <2>7. ~disturbed' => \A k \in DOMAIN cues' : Called(cues[k])' BY <2>6
  <2> QED BY <1>a, <2>1, <2>2, <2>4, <2>5, <2>7 DEF CueInv, Cueing!Ids, Cueing!Times
<1>2. ASSUME NEW id \in Cueing!Ids, Cueing!RemoveCue(id) PROVE CueInv'
  <2>1. PICK i \in DOMAIN cues : cues[i].id = id BY <1>2 DEF Cueing!RemoveCue
  <2>2. cues' = Cueing!Without(cues, cues[i].id) BY <1>2, <2>1 DEF Cueing!RemoveCue
  <2>3. /\ cues' \in Seq(CueRecord)
        /\ \A k \in DOMAIN cues' : \E j \in DOMAIN cues : cues'[k] = cues[j]
    BY <1>a, <2>2, WithoutOne
  <2> QED BY <1>2, <2>3, <1>d DEF Cueing!RemoveCue
<1>3. CASE Cueing!ClearCues
  <2>1. cues' = <<>> BY <1>3 DEF Cueing!ClearCues
  <2>2. cues' \in Seq(CueRecord) /\ DOMAIN cues' = {} BY <2>1
  <2> QED BY <1>3, <2>2, <1>d DEF Cueing!ClearCues
<1>4. ASSUME NEW t \in Cueing!Times, Cueing!Play(t) PROVE CueInv'
  <2>1. /\ position' = t /\ first' = t /\ began' = t /\ since' = [i \in Cueing!Ids |-> t]
        /\ fired' = [i \in Cueing!Ids |-> 0] /\ heard' = FALSE
        /\ UNCHANGED <<cues, cueIDCounter, prevUpdateTime, disturbed>>
    BY <1>4 DEF Cueing!Play
  <2>2. fired' \in [Cueing!Ids -> Nat] /\ since' \in [Cueing!Ids -> Cueing!Times] BY <2>1
  <2>3. \A k \in DOMAIN cues' : Called(cues[k])'
    <3> SUFFICES ASSUME NEW k \in DOMAIN cues' PROVE Called(cues[k])' OBVIOUS
    <3>1. cues[k].time \in Cueing!Times /\ cues'[k] = cues[k] BY <1>b, <2>1
    <3>2. ~(t < cues[k].time /\ cues[k].time <= t) BY <3>1, <1>c
    <3> QED BY <2>1, <3>1, <3>2 DEF Called
  <2> QED BY <1>a, <2>1, <2>2, <2>3 DEF CueInv, Cueing!Ids, Cueing!Times
<1>5. ASSUME NEW p \in 1..Duration, Cueing!LateReport(p) PROVE CueInv'
  <2> DEFINE u == Cueing!Update(p)
  <2>1. /\ cues' = u.cues /\ prevUpdateTime' = IF u.throws THEN prevUpdateTime ELSE p
        /\ disturbed' = (disturbed \/ TRUE \/ u.throws)
        /\ fired' = [i \in Cueing!Ids |-> IF disturbed' THEN 0
                                  ELSE fired[i] + (IF Cueing!Contains(u.called, i) THEN 1 ELSE 0)]
        /\ UNCHANGED <<cueIDCounter, position, began, first, heard, since>>
    BY <1>5 DEF Cueing!LateReport, Cueing!Reported
  <2>2. u.cues \in Seq(CueRecord) BY <1>a, UpdateCalls
  <2> HIDE DEF u
  <2>3. disturbed' = TRUE BY <2>1, Zenon
  <2>4. fired' \in [Cueing!Ids -> Nat] BY <2>1, <2>3
  <2>5. prevUpdateTime' \in Cueing!Times BY <1>a, <2>1, CueAssumption DEF Cueing!Times
  <2> QED BY <1>a, <2>1, <2>2, <2>3, <2>4, <2>5 DEF CueInv, Cueing!Ids, Cueing!Times
\* Nothing that a play came back to is further on than it is.
<1>7. ASSUME NEW p \in 1..Duration, Cueing!ReportAgain(p) PROVE CueInv'
  <2> DEFINE u == Cueing!Update(p)
             none == [i \in Cueing!Ids |-> 0]
  <2>1. /\ position' = p /\ first' = p /\ heard' = TRUE /\ since' = [i \in Cueing!Ids |-> began]
        /\ cues' = u.cues /\ prevUpdateTime' = IF u.throws THEN prevUpdateTime ELSE p
        /\ disturbed' = (disturbed \/ FALSE \/ u.throws)
        /\ fired' = [i \in Cueing!Ids |-> IF disturbed' THEN 0
                                  ELSE none[i] + (IF Cueing!Contains(u.called, i) THEN 1 ELSE 0)]
        /\ cueIDCounter' = cueIDCounter /\ began' = began
    BY <1>7 DEF Cueing!ReportAgain, Cueing!Reported
  <2>2. u.cues \in Seq(CueRecord) /\ u.throws \in BOOLEAN BY <1>a, UpdateCalls
  <2> HIDE DEF u
  <2>3. disturbed' \in BOOLEAN /\ (~disturbed' => ~u.throws) BY <1>a, <2>1, <2>2, Zenon
  <2>4. fired' \in [Cueing!Ids -> Nat]
    <3>1. \A i \in Cueing!Ids : none[i] = 0 OBVIOUS
    <3> HIDE DEF none
    <3> QED BY <2>1, <3>1
  <2>5. since' \in [Cueing!Ids -> Cueing!Times] BY <1>a, <2>1
  <2>6. p \in Cueing!Times /\ prevUpdateTime' \in Cueing!Times
    BY <1>a, <2>1, CueAssumption DEF Cueing!Times
  <2>7. \A k \in DOMAIN cues' : Called(cues[k])'
    <3> SUFFICES ASSUME NEW k \in DOMAIN cues' PROVE Called(cues[k])' OBVIOUS
    <3>1. cues'[k] \in CueRecord BY <2>1, <2>2
    <3>2. cues'[k].time \in Cueing!Times BY <3>1 DEF CueRecord
    <3>3. ~(p < cues'[k].time /\ cues'[k].time <= p) BY <3>2, <2>6, <1>c
    <3> QED BY <2>1, <3>3 DEF Called
  <2> QED BY <1>a, <2>1, <2>2, <2>3, <2>4, <2>5, <2>6, <2>7 DEF CueInv, Cueing!Ids, Cueing!Times
<1>6. CASE UNCHANGED Cueing!vars
  BY <1>6 DEF Cueing!vars, CueInv, Called, Cueing!Ids, Cueing!Times
<1> QED BY <1>1, <1>2, <1>3, <1>4, <1>5, <1>6, <1>7, ReportKeeps DEF Cueing!Next

LEMMA CueSafe == CueInv => Cueing!NoCueMissed
BY DEF CueInv, Called, Cueing!NoCueMissed

\* However far apart the reports of a play are, looping or not, and whatever its callbacks take out:
\* while reports come in order and none throws, every cue is called, each time, that the play went
\* by between two reports, or that was added since.
THEOREM EveryCue == Cueing!Spec => []NoCueMissed
<1>1. CueInv => NoCueMissed BY CueSafe DEF NoCueMissed
<1> QED BY <1>1, CueInit, CueNext, PTL DEF Cueing!Spec

-----------------------------------------------------------------------------
-----------------------------------------------------------------------------
NodeRecord == [voice : {"own", "osc2"}, from : Nat, until : Nat,
               to : {"output", "dNode", "ops", "none"}, mods : SUBSET Mods]

\* The latest of each voice sound as long as the source is started; the others, and all of a source
\* that is stopped, are silent when that was asked for, or disconnected.
SoundingInv ==
  /\ ge_now \in 0..ge_MaxTime /\ kind \in {"osc", "noise", "pulse"}
  /\ due \in Nat /\ due < Sounding!Never
  /\ ge_nodes \in Seq(NodeRecord) /\ _freqMods \subseteq Mods
  /\ started \in BOOLEAN /\ disposed \in BOOLEAN /\ threw \in BOOLEAN
  /\ disposed => ~started /\ \A i \in DOMAIN ge_nodes : ge_nodes[i].to = "none"
  /\ kind = "noise" => due <= ge_now
  /\ kind /= "pulse" => \A i \in DOMAIN ge_nodes : ge_nodes[i].voice = "own"
  /\ kind = "osc" =>
       /\ \A i \in DOMAIN ge_nodes \ Sounding!Current(ge_nodes) : ge_nodes[i].to = "none"
       /\ \A i \in Sounding!Current(ge_nodes) : ge_nodes[i].mods = _freqMods
  /\ \A i \in DOMAIN ge_nodes \ Sounding!Current(ge_nodes) :
       ge_nodes[i].from = Sounding!Never \/ ge_nodes[i].to = "none" \/ ge_nodes[i].until <= due
  /\ \A i \in Sounding!Current(ge_nodes) :
       /\ started => /\ ge_nodes[i].from /= Sounding!Never
                     /\ ge_nodes[i].until = Sounding!Never
                     /\ ~threw => ge_nodes[i].to /= "none"
       /\ ~started => disposed \/ ge_nodes[i].from = Sounding!Never \/ ge_nodes[i].until <= due

-----------------------------------------------------------------------------
\* Which nodes are the latest depends on their voices only.
LEMMA SameVoices ==
  ASSUME NEW s, NEW r, DOMAIN r = DOMAIN s, \A i \in DOMAIN s : r[i].voice = s[i].voice
  PROVE  Sounding!Current(r) = Sounding!Current(s)
BY DEF Sounding!Current

\* A function on the places of a sequence is a sequence.
LEMMA Placed ==
  ASSUME NEW T, NEW s \in Seq(T), NEW r, DOMAIN r = DOMAIN s,
         r = [i \in DOMAIN s |-> r[i]], \A i \in DOMAIN s : r[i] \in T
  PROVE  r \in Seq(T) /\ Len(r) = Len(s)
<1>1. DOMAIN s = 1..Len(s) /\ Len(s) \in Nat BY LenProperties
<1>2. r = [i \in 1..Len(s) |-> r[i]] BY <1>1
<1>3. \A i \in 1..Len(s) : r[i] \in T BY <1>1
<1> QED BY <1>1, <1>2, <1>3, IsASeq, LenProperties

LEMMA EndedAtKept ==
  ASSUME NEW s \in Seq(NodeRecord), NEW t \in Nat
  PROVE  /\ Sounding!EndedAt(s, t) \in Seq(NodeRecord) /\ Len(Sounding!EndedAt(s, t)) = Len(s)
         /\ DOMAIN Sounding!EndedAt(s, t) = DOMAIN s
         /\ Sounding!Current(Sounding!EndedAt(s, t)) = Sounding!Current(s)
         /\ \A i \in DOMAIN s :
              /\ Sounding!EndedAt(s, t)[i].voice = s[i].voice
              /\ Sounding!EndedAt(s, t)[i].from = s[i].from
              /\ Sounding!EndedAt(s, t)[i].to = s[i].to
              /\ Sounding!EndedAt(s, t)[i].mods = s[i].mods
              /\ i \in Sounding!Current(s) => Sounding!EndedAt(s, t)[i].until <= t
              /\ i \notin Sounding!Current(s) => Sounding!EndedAt(s, t)[i] = s[i]
<1> DEFINE r == Sounding!EndedAt(s, t)
<1>1. DOMAIN r = DOMAIN s /\ r = [i \in DOMAIN s |-> r[i]] BY DEF Sounding!EndedAt
<1>2. ASSUME NEW i \in DOMAIN s
      PROVE  /\ r[i] \in NodeRecord
             /\ r[i].voice = s[i].voice /\ r[i].from = s[i].from
             /\ r[i].to = s[i].to /\ r[i].mods = s[i].mods
             /\ i \in Sounding!Current(s) => r[i].until <= t
             /\ i \notin Sounding!Current(s) => r[i] = s[i]
  <2> DEFINE v == s[i]
             e == [v EXCEPT !.until = t]
  <2>1. v \in NodeRecord OBVIOUS
  <2>2. r[i] = IF i \in Sounding!Current(s) /\ t < v.until THEN e ELSE v BY DEF Sounding!EndedAt
  <2> HIDE DEF v, r
  <2>3. /\ e \in NodeRecord /\ e.voice = v.voice /\ e.from = v.from /\ e.to = v.to
        /\ e.mods = v.mods /\ e.until = t
    BY <2>1 DEF NodeRecord
  <2> HIDE DEF e
  <2>4. v.until \in Nat BY <2>1 DEF NodeRecord
  <2>5. CASE i \in Sounding!Current(s) /\ t < v.until BY <2>2, <2>3, <2>5 DEF v
  <2>6. CASE ~(i \in Sounding!Current(s) /\ t < v.until) BY <2>1, <2>2, <2>4, <2>6 DEF v
  <2> QED BY <2>5, <2>6
<1> HIDE DEF r
<1>3. r \in Seq(NodeRecord) /\ Len(r) = Len(s) BY <1>1, <1>2, Placed
<1>4. Sounding!Current(r) = Sounding!Current(s) BY <1>1, <1>2, SameVoices
<1> QED BY <1>1, <1>2, <1>3, <1>4 DEF r

LEMMA WiredKept ==
  ASSUME NEW s \in Seq(NodeRecord), NEW to \in {"output", "dNode", "ops", "none"}
  PROVE  /\ Sounding!Wired(s, to) \in Seq(NodeRecord) /\ Len(Sounding!Wired(s, to)) = Len(s)
         /\ DOMAIN Sounding!Wired(s, to) = DOMAIN s
         /\ Sounding!Current(Sounding!Wired(s, to)) = Sounding!Current(s)
         /\ \A i \in DOMAIN s :
              /\ Sounding!Wired(s, to)[i].voice = s[i].voice
              /\ Sounding!Wired(s, to)[i].from = s[i].from
              /\ Sounding!Wired(s, to)[i].until = s[i].until
              /\ Sounding!Wired(s, to)[i].mods = s[i].mods
              /\ Sounding!Wired(s, to)[i].to \in {s[i].to, to}
              /\ i \in Sounding!Current(s) /\ s[i].voice = "own" => Sounding!Wired(s, to)[i].to = to
              /\ i \notin Sounding!Current(s) => Sounding!Wired(s, to)[i] = s[i]
<1> DEFINE r == Sounding!Wired(s, to)
<1>1. DOMAIN r = DOMAIN s /\ r = [i \in DOMAIN s |-> r[i]] BY DEF Sounding!Wired
<1>2. ASSUME NEW i \in DOMAIN s
      PROVE  /\ r[i] \in NodeRecord
             /\ r[i].voice = s[i].voice /\ r[i].from = s[i].from
             /\ r[i].until = s[i].until /\ r[i].mods = s[i].mods
             /\ r[i].to \in {s[i].to, to}
             /\ i \in Sounding!Current(s) /\ s[i].voice = "own" => r[i].to = to
             /\ i \notin Sounding!Current(s) => r[i] = s[i]
  <2> DEFINE v == s[i]
             e == [v EXCEPT !.to = to]
  <2>1. v \in NodeRecord OBVIOUS
  <2>2. r[i] = IF i \in Sounding!Current(s) /\ v.voice = "own" THEN e ELSE v BY DEF Sounding!Wired
  <2> HIDE DEF v, r
  <2>3. /\ e \in NodeRecord /\ e.voice = v.voice /\ e.from = v.from /\ e.until = v.until
        /\ e.mods = v.mods /\ e.to = to
    BY <2>1 DEF NodeRecord
  <2> HIDE DEF e
  <2>5. CASE i \in Sounding!Current(s) /\ v.voice = "own" BY <2>2, <2>3, <2>5 DEF v
  <2>6. CASE ~(i \in Sounding!Current(s) /\ v.voice = "own") BY <2>1, <2>2, <2>6 DEF v
  <2> QED BY <2>5, <2>6
<1> HIDE DEF r
<1>3. r \in Seq(NodeRecord) /\ Len(r) = Len(s) BY <1>1, <1>2, Placed
<1>4. Sounding!Current(r) = Sounding!Current(s) BY <1>1, <1>2, SameVoices
<1> QED BY <1>1, <1>2, <1>3, <1>4 DEF r

\* A node that comes after all others is the latest of its voice.
LEMMA Appended ==
  ASSUME NEW s \in Seq(NodeRecord), NEW v \in NodeRecord
  PROVE  /\ Append(s, v) \in Seq(NodeRecord) /\ Len(Append(s, v)) = Len(s) + 1
         /\ DOMAIN Append(s, v) = DOMAIN s \cup {Len(s) + 1} /\ Len(s) + 1 \notin DOMAIN s
         /\ Append(s, v)[Len(s) + 1] = v
         /\ \A i \in DOMAIN s : Append(s, v)[i] = s[i]
         /\ Sounding!Current(Append(s,
              v)) = {i \in Sounding!Current(s) : s[i].voice /= v.voice} \cup {Len(s) + 1}
<1> DEFINE r == Append(s, v)
           n == Len(s) + 1
<1>1. Len(s) \in Nat /\ DOMAIN s = 1..Len(s) BY LenProperties
<1>2. r \in Seq(NodeRecord) /\ Len(r) = n /\ r[n] = v /\ \A i \in 1..Len(s) : r[i] = s[i]
  BY AppendProperties
<1> HIDE DEF r
<1>3. DOMAIN r = 1..n BY <1>2, LenProperties
<1>4. DOMAIN r = DOMAIN s \cup {n} /\ n \notin DOMAIN s BY <1>1, <1>3
<1>5. n \in Sounding!Current(r)
  <2>1. \A j \in DOMAIN r : j <= n BY <1>1, <1>3
  <2> QED BY <1>4, <2>1 DEF Sounding!Current
<1>6. ASSUME NEW i \in DOMAIN s
      PROVE  i \in Sounding!Current(r) <=> i \in Sounding!Current(s) /\ s[i].voice /= v.voice
  <2>1. ~(n <= i) BY <1>1
  <2> HIDE DEF n
  <2> QED BY <1>1, <1>2, <1>4, <2>1 DEF Sounding!Current
<1>7. Sounding!Current(s) \subseteq DOMAIN s /\ Sounding!Current(r) \subseteq DOMAIN r
  BY DEF Sounding!Current
<1> HIDE DEF n
<1>8. Sounding!Current(r) = {i \in Sounding!Current(s) : s[i].voice /= v.voice} \cup {n}
  BY <1>4, <1>5, <1>6, <1>7
<1> QED BY <1>1, <1>2, <1>4, <1>8 DEF r, n

LEMMA TwoAppended ==
  ASSUME NEW T, NEW s \in Seq(T), NEW v \in T, NEW w \in T
  PROVE  s \o <<v, w>> = Append(Append(s, v), w)
<1> DEFINE r == s \o <<v, w>>
           q == Append(Append(s, v), w)
<1>1. /\ Append(s, v) \in Seq(T) /\ Len(Append(s, v)) = Len(s) + 1 /\ Len(s) \in Nat
      /\ Append(s, v)[Len(s) + 1] = v /\ \A i \in 1..Len(s) : Append(s, v)[i] = s[i]
  BY AppendProperties, LenProperties
<1>2. /\ q \in Seq(T) /\ Len(q) = Len(s) + 2 /\ q[Len(s) + 2] = w /\ q[Len(s) + 1] = v
      /\ \A i \in 1..Len(s) : q[i] = s[i]
  <2> DEFINE p == Append(s, v)
  <2>1. p \in Seq(T) /\ Len(p) = Len(s) + 1 /\ p[Len(s) + 1] = v
        /\ \A i \in 1..Len(s) : p[i] = s[i]
    BY <1>1
  <2> HIDE DEF p
  <2>2. Append(p, w) \in Seq(T) /\ Len(Append(p, w)) = Len(p) + 1 /\ Append(p, w)[Len(p) + 1] = w
        /\ \A i \in 1..Len(p) : Append(p, w)[i] = p[i]
    BY <2>1, AppendProperties
  <2>3. q = Append(p, w) BY DEF p
  <2> HIDE DEF q
  <2> QED BY <1>1, <2>1, <2>2, <2>3
<1>3. <<v, w>> \in Seq(T) /\ Len(<<v, w>>) = 2 /\ <<v, w>>[1] = v /\ <<v, w>>[2] = w
  OBVIOUS
<1>4. /\ r \in Seq(T) /\ Len(r) = Len(s) + 2
      /\ \A i \in 1..(Len(s) + 2) : r[i] = IF i <= Len(s) THEN s[i] ELSE <<v, w>>[i - Len(s)]
  <2> DEFINE t == <<v, w>>
  <2>1. t \in Seq(T) /\ Len(t) = 2 BY <1>3
  <2> HIDE DEF t
  <2>2. /\ s \o t \in Seq(T) /\ Len(s \o t) = Len(s) + Len(t)
        /\ \A i \in 1..Len(s) + Len(t) : (s \o t)[i] = IF i <= Len(s) THEN s[i] ELSE t[i - Len(s)]
    BY <2>1, ConcatProperties
  <2> QED BY <1>1, <2>1, <2>2 DEF t
<1> HIDE DEF r, q
<1>5. \A i \in 1..(Len(s) + 2) : r[i] = q[i]
  <2>1. ASSUME NEW i \in 1..(Len(s) + 2) PROVE r[i] = q[i]
    <3>1. CASE i <= Len(s) BY <1>1, <1>2, <1>4, <3>1
    <3>2. CASE i = Len(s) + 1
      <4>1. ~(i <= Len(s)) /\ i - Len(s) = 1 BY <1>1, <3>2
      <4> QED BY <1>2, <1>3, <1>4, <3>2, <4>1
    <3>3. CASE i = Len(s) + 2
      <4>1. ~(i <= Len(s)) /\ i - Len(s) = 2 BY <1>1, <3>3
      <4> QED BY <1>2, <1>3, <1>4, <3>3, <4>1
    <3> QED BY <1>1, <3>1, <3>2, <3>3
  <2> QED BY <2>1
<1>6. r = q BY <1>2, <1>4, <1>5, SeqEqual
<1> QED BY <1>6 DEF r, q

LEMMA NodeIs ==
  ASSUME NEW voice \in {"own", "osc2"}, NEW from \in Nat, NEW mods \in SUBSET Mods
  PROVE  /\ Sounding!Node(voice, from, mods) \in NodeRecord
         /\ Sounding!Node(voice, from, mods).voice = voice
         /\ Sounding!Node(voice, from, mods).from = from
         /\ Sounding!Node(voice, from, mods).until = Sounding!Never
         /\ Sounding!Node(voice, from, mods).to = "output"
         /\ Sounding!Node(voice, from, mods).mods = mods
BY DEF Sounding!Node, NodeRecord, Sounding!Never

LEMMA SoundingInit == Sounding!Init => SoundingInv
<1> SUFFICES ASSUME Sounding!Init PROVE SoundingInv OBVIOUS
<1> DEFINE v == Sounding!Node("own", Sounding!Never, {})
           w == Sounding!Node("osc2", Sounding!Never, {})
<1>1. /\ v \in NodeRecord /\ v.voice = "own" /\ v.from = Sounding!Never /\ v.mods = {}
      /\ w \in NodeRecord /\ w.voice = "osc2" /\ w.from = Sounding!Never
  BY NodeIs DEF Sounding!Never
<1> HIDE DEF v, w
<1>2. kind \in {"osc", "noise", "pulse"} BY SoundingAssumption DEF Sounding!Init
<1>3. ge_nodes = CASE kind = "osc" -> <<v>> [] kind = "noise" -> <<>> [] kind = "pulse" -> <<v, w>>
  BY DEF Sounding!Init, v, w
<1>4. /\ ge_now = 0 /\ due = 0 /\ started = FALSE /\ disposed = FALSE /\ threw = FALSE
      /\ _freqMods = {} /\ ge_now \in 0..ge_MaxTime
  <2>1. /\ ge_now = 0 /\ due = 0 /\ started = FALSE /\ disposed = FALSE /\ threw = FALSE
        /\ _freqMods = {}
    BY DEF Sounding!Init
  <2> QED BY <2>1, SoundingAssumption
<1>5. /\ ge_nodes \in Seq(NodeRecord)
      /\ \A i \in DOMAIN ge_nodes : ge_nodes[i].from = Sounding!Never
      /\ kind /= "pulse" => \A i \in DOMAIN ge_nodes : ge_nodes[i].voice = "own"
      /\ kind = "osc" => DOMAIN ge_nodes = {1} /\ ge_nodes[1].mods = {}
  <2>1. CASE kind = "osc" BY <1>1, <1>3, <2>1
  <2>2. CASE kind = "noise" BY <1>3, <2>2
  <2>3. CASE kind = "pulse" BY <1>1, <1>3, <2>3
  <2> QED BY <1>2, <2>1, <2>2, <2>3
<1>6. Sounding!Current(ge_nodes) \subseteq DOMAIN ge_nodes BY DEF Sounding!Current
<1>7. kind = "osc" => Sounding!Current(ge_nodes) = {1} BY <1>5 DEF Sounding!Current
<1>8. /\ kind = "osc" =>
           /\ \A i \in DOMAIN ge_nodes \ Sounding!Current(ge_nodes) : ge_nodes[i].to = "none"
           /\ \A i \in Sounding!Current(ge_nodes) : ge_nodes[i].mods = _freqMods
      /\ \A i \in Sounding!Current(ge_nodes) : ge_nodes[i].from = Sounding!Never
  BY <1>4, <1>5, <1>6, <1>7
<1>9. /\ due \in Nat /\ due < Sounding!Never /\ _freqMods \subseteq Mods
      /\ started \in BOOLEAN /\ disposed \in BOOLEAN /\ threw \in BOOLEAN
      /\ kind = "noise" => due <= ge_now
  <2>1. due \in Nat /\ due < Sounding!Never BY <1>4 DEF Sounding!Never
  <2>2. _freqMods \subseteq Mods BY <1>4
  <2>3. started \in BOOLEAN /\ disposed \in BOOLEAN /\ threw \in BOOLEAN BY <1>4
  <2>4. due <= ge_now BY <1>4
  <2> QED BY <2>1, <2>2, <2>3, <2>4
<1> QED BY <1>2, <1>4, <1>5, <1>6, <1>8, <1>9 DEF SoundingInv

\* One lemma per action.
LEMMA OscStartKeeps ==
  ASSUME SoundingInv, NEW d \in ge_Delays, Sounding!Start(d), kind = "osc"
  PROVE  SoundingInv'
<1> DEFINE s == IF started THEN Sounding!EndedAt(ge_nodes, ge_now + ge_now) ELSE ge_nodes
           r == Sounding!Wired(s, "none")
           v == Sounding!Node("own", ge_now + d, _freqMods)
           n == Len(ge_nodes) + 1
<1>0. ge_now + d \in Nat /\ ge_now + d /= Sounding!Never /\ ge_now + ge_now \in Nat
  BY SoundingAssumption DEF SoundingInv, Sounding!Never
<1>1. /\ ge_nodes' = Append(r, v) /\ started' = TRUE /\ ~disposed
      /\ UNCHANGED <<ge_now, kind, _freqMods, disposed, threw, due>>
  BY DEF Sounding!Start, Sounding!OscillatorStarted, Sounding!Call
<1>2. v \in NodeRecord /\ v.voice = "own" /\ v.from = ge_now + d /\ v.until = Sounding!Never
      /\ v.to = "output" /\ v.mods = _freqMods
  BY <1>0, NodeIs DEF SoundingInv
<1> HIDE DEF v
<1>3. /\ s \in Seq(NodeRecord) /\ Len(s) = Len(ge_nodes) /\ DOMAIN s = DOMAIN ge_nodes
      /\ Sounding!Current(s) = Sounding!Current(ge_nodes)
      /\ \A i \in DOMAIN ge_nodes : s[i].voice = ge_nodes[i].voice /\ s[i].to = ge_nodes[i].to
  <2>1. ge_nodes \in Seq(NodeRecord) BY DEF SoundingInv
  <2>2. CASE started
    <3>1. s = Sounding!EndedAt(ge_nodes, ge_now + ge_now) BY <2>2
    <3> HIDE DEF s
    <3> QED BY <1>0, <2>1, <3>1, EndedAtKept
  <2>3. CASE ~started BY <2>1, <2>3
  <2> QED BY <2>2, <2>3
<1> HIDE DEF s
<1>4. /\ r \in Seq(NodeRecord) /\ Len(r) = Len(ge_nodes) /\ DOMAIN r = DOMAIN ge_nodes
      /\ Sounding!Current(r) = Sounding!Current(ge_nodes)
      /\ \A i \in DOMAIN ge_nodes : r[i].voice = "own" /\ r[i].to = "none"
  <2>1. /\ r \in Seq(NodeRecord) /\ Len(r) = Len(s) /\ DOMAIN r = DOMAIN s
        /\ Sounding!Current(r) = Sounding!Current(s)
        /\ \A i \in DOMAIN s :
             /\ r[i].voice = s[i].voice
             /\ i \in Sounding!Current(s) /\ s[i].voice = "own" => r[i].to = "none"
             /\ i \notin Sounding!Current(s) => r[i] = s[i]
    BY <1>3, WiredKept
  <2>2. \A i \in DOMAIN ge_nodes : ge_nodes[i].voice = "own"
    BY DEF SoundingInv
  <2>3. \A i \in DOMAIN ge_nodes : i \notin Sounding!Current(ge_nodes) => ge_nodes[i].to = "none"
    BY DEF SoundingInv
  <2> HIDE DEF r
  <2> QED BY <1>3, <2>1, <2>2, <2>3
<1> HIDE DEF r
<1>5. /\ ge_nodes' \in Seq(NodeRecord) /\ DOMAIN ge_nodes' = DOMAIN ge_nodes \cup {n}
      /\ ge_nodes'[n] = v /\ \A i \in DOMAIN ge_nodes : ge_nodes'[i] = r[i]
      /\ Sounding!Current(ge_nodes') = {i \in Sounding!Current(r) : r[i].voice /= v.voice} \cup {n}
  BY <1>1, <1>2, <1>4, Appended
<1>6. Sounding!Current(ge_nodes') = {n}
  <2>1. Sounding!Current(r) \subseteq DOMAIN ge_nodes BY <1>4 DEF Sounding!Current
  <2> QED BY <1>2, <1>4, <1>5, <2>1
<1>7. /\ \A i \in DOMAIN ge_nodes' : ge_nodes'[i].voice = "own"
      /\ \A i \in DOMAIN ge_nodes' \ Sounding!Current(ge_nodes') : ge_nodes'[i].to = "none"
  BY <1>2, <1>4, <1>5, <1>6
<1>8. Sounding!Current(ge_nodes)' = Sounding!Current(ge_nodes') BY DEF Sounding!Current
<1> HIDE DEF n
<1> QED BY <1>0, <1>1, <1>2, <1>5, <1>6, <1>7, <1>8 DEF SoundingInv

\* Noise: its node is stopped, if there was one playing, and another made.
LEMMA NoiseKeeps ==
  ASSUME SoundingInv, kind = "noise", ge_nodes' = Sounding!NoiseStarted, started' = TRUE,
           due' = ge_now, ~disposed,
         UNCHANGED <<ge_now, kind, _freqMods, disposed, threw>>
  PROVE  SoundingInv'
<1> DEFINE s == IF started THEN Sounding!EndedAt(ge_nodes, ge_now) ELSE ge_nodes
           v == Sounding!Node("own", ge_now, {})
           n == Len(ge_nodes) + 1
<1>0. ge_now \in Nat /\ ge_now /= Sounding!Never /\ ge_now < Sounding!Never /\ due <= ge_now
      /\ due \in Nat
  <2>1. ge_now \in 0..ge_MaxTime /\ due \in Nat /\ due < Sounding!Never /\ due <= ge_now
    BY DEF SoundingInv
  <2> QED BY <2>1, SoundingAssumption DEF Sounding!Never
<1>1. ge_nodes' = Append(s, v) BY DEF Sounding!NoiseStarted
<1>2. v \in NodeRecord /\ v.voice = "own" /\ v.from = ge_now /\ v.until = Sounding!Never
      /\ v.to = "output"
  BY <1>0, NodeIs
<1> HIDE DEF v
<1>3. /\ s \in Seq(NodeRecord) /\ Len(s) = Len(ge_nodes) /\ DOMAIN s = DOMAIN ge_nodes
      /\ Sounding!Current(s) = Sounding!Current(ge_nodes)
      /\ \A i \in DOMAIN ge_nodes :
           s[i].voice = "own"
           /\ (s[i].from = Sounding!Never \/ s[i].to = "none" \/ s[i].until <= ge_now)
  <2>1. ge_nodes \in Seq(NodeRecord) /\ \A i \in DOMAIN ge_nodes : ge_nodes[i].voice = "own"
    BY DEF SoundingInv
  <2>2. \A i \in DOMAIN ge_nodes : i \notin Sounding!Current(ge_nodes) =>
          ge_nodes[i].from = Sounding!Never \/ ge_nodes[i].to = "none" \/ ge_nodes[i].until <= due
    BY DEF SoundingInv
  <2>3. \A i \in DOMAIN ge_nodes : ge_nodes[i].until \in Nat
    <3>1. \A i \in DOMAIN ge_nodes : ge_nodes[i] \in NodeRecord BY <2>1
    <3> QED BY <3>1 DEF NodeRecord
  <2>4. CASE started
    <3>1. s = Sounding!EndedAt(ge_nodes, ge_now) BY <2>4
    <3> HIDE DEF s
    <3>2. /\ s \in Seq(NodeRecord) /\ Len(s) = Len(ge_nodes) /\ DOMAIN s = DOMAIN ge_nodes
          /\ Sounding!Current(s) = Sounding!Current(ge_nodes)
          /\ \A i \in DOMAIN ge_nodes :
               /\ s[i].voice = ge_nodes[i].voice /\ s[i].from = ge_nodes[i].from
               /\ s[i].to = ge_nodes[i].to
               /\ i \in Sounding!Current(ge_nodes) => s[i].until <= ge_now
               /\ i \notin Sounding!Current(ge_nodes) => s[i] = ge_nodes[i]
      BY <1>0, <2>1, <3>1, EndedAtKept
    <3> QED BY <1>0, <2>1, <2>2, <2>3, <3>2
  <2>5. CASE ~started
    <3>1. \A i \in DOMAIN ge_nodes : i \in Sounding!Current(ge_nodes) =>
            ge_nodes[i].from = Sounding!Never \/ ge_nodes[i].until <= due
      BY <2>5 DEF SoundingInv
    <3> QED BY <1>0, <2>1, <2>2, <2>3, <2>5, <3>1
  <2> QED BY <2>4, <2>5 DEF SoundingInv
<1> HIDE DEF s
<1>4. /\ ge_nodes' \in Seq(NodeRecord) /\ DOMAIN ge_nodes' = DOMAIN ge_nodes \cup {n}
      /\ ge_nodes'[n] = v /\ \A i \in DOMAIN ge_nodes : ge_nodes'[i] = s[i]
      /\ Sounding!Current(ge_nodes') = {i \in Sounding!Current(s) : s[i].voice /= v.voice} \cup {n}
  BY <1>1, <1>2, <1>3, Appended
<1>5. Sounding!Current(ge_nodes') = {n}
  <2>1. Sounding!Current(s) \subseteq DOMAIN ge_nodes BY <1>3 DEF Sounding!Current
  <2> QED BY <1>2, <1>3, <1>4, <2>1
<1>6. /\ \A i \in DOMAIN ge_nodes' : ge_nodes'[i].voice = "own"
      /\ \A i \in DOMAIN ge_nodes' \ Sounding!Current(ge_nodes') :
           ge_nodes'[i].from = Sounding!Never \/ ge_nodes'[i].to
             = "none" \/ ge_nodes'[i].until <= ge_now
  BY <1>2, <1>3, <1>4, <1>5
<1>7. Sounding!Current(ge_nodes)' = Sounding!Current(ge_nodes') BY DEF Sounding!Current
<1> HIDE DEF n
<1> QED BY <1>0, <1>2, <1>4, <1>5, <1>6, <1>7 DEF SoundingInv

\* Pulse: two more oscillators.
LEMMA PulseStartKeeps ==
  ASSUME SoundingInv, NEW d \in ge_Delays, Sounding!Start(d), kind = "pulse"
  PROVE  SoundingInv'
<1> DEFINE v == Sounding!Node("own", ge_now + d, {})
           w == Sounding!Node("osc2", ge_now + d + ge_now, {})
           r == Append(ge_nodes, v)
           n == Len(ge_nodes) + 1
<1>0. ge_now + d \in Nat /\ ge_now + d /= Sounding!Never /\ ge_now + d + ge_now \in Nat
      /\ ge_now + d + ge_now /= Sounding!Never
  <2>1. ge_now \in Nat /\ ge_now <= ge_MaxTime /\ d \in Nat BY SoundingAssumption DEF SoundingInv
  <2>2. ge_MaxTime + ge_MaxTime + d < 99 /\ ge_MaxTime \in Nat BY SoundingAssumption
  <2>3. ge_now + d + ge_now <= ge_MaxTime + ge_MaxTime + d BY <2>1, <2>2
  <2> QED BY <2>1, <2>2, <2>3 DEF Sounding!Never
<1>1. /\ ge_nodes' = ge_nodes \o <<v, w>> /\ started' = TRUE /\ ~started /\ ~disposed
      /\ UNCHANGED <<ge_now, kind, _freqMods, disposed, threw, due>>
  BY DEF Sounding!Start, Sounding!PulseStarted, Sounding!Call
<1>2. /\ v \in NodeRecord /\ v.voice = "own" /\ v.from /= Sounding!Never /\ v.until = Sounding!Never
      /\ v.to = "output"
      /\ w \in NodeRecord /\ w.voice = "osc2" /\ w.from /= Sounding!Never
      /\ w.until = Sounding!Never
      /\ w.to = "output"
  BY <1>0, NodeIs
<1> HIDE DEF v, w
<1>3. ge_nodes \in Seq(NodeRecord) BY DEF SoundingInv
<1>4. ge_nodes' = Append(r, w) BY <1>1, <1>2, <1>3, TwoAppended
<1>5. /\ r \in Seq(NodeRecord) /\ Len(r) = n
      /\ DOMAIN r = DOMAIN ge_nodes \cup {n} /\ n \notin DOMAIN ge_nodes
      /\ r[n] = v /\ \A i \in DOMAIN ge_nodes : r[i] = ge_nodes[i]
      /\ Sounding!Current(r)
           = {i \in Sounding!Current(ge_nodes) : ge_nodes[i].voice /= v.voice} \cup {n}
  BY <1>2, <1>3, Appended
<1> HIDE DEF r
<1>6. /\ ge_nodes' \in Seq(NodeRecord) /\ DOMAIN ge_nodes' = DOMAIN r \cup {n + 1}
      /\ n + 1 \notin DOMAIN r
      /\ ge_nodes'[n + 1] = w /\ \A i \in DOMAIN r : ge_nodes'[i] = r[i]
      /\ Sounding!Current(ge_nodes') = {i \in Sounding!Current(r) : r[i].voice /= w.voice}
           \cup {n + 1}
  BY <1>2, <1>4, <1>5, Appended
<1>7. Sounding!Current(ge_nodes') = {n, n + 1}
  <2>1. Sounding!Current(ge_nodes) \subseteq DOMAIN ge_nodes BY DEF Sounding!Current
  <2>2. \A i \in DOMAIN ge_nodes : ge_nodes[i].voice \in {"own", "osc2"}
    <3>1. \A i \in DOMAIN ge_nodes : ge_nodes[i] \in NodeRecord BY <1>3
    <3> QED BY <3>1 DEF NodeRecord
  <2>3. \A i \in Sounding!Current(r) : r[i].voice /= w.voice => i = n
    <3>1. ASSUME NEW i \in Sounding!Current(r), i /= n, r[i].voice /= w.voice PROVE FALSE
      <4>1. i \in Sounding!Current(ge_nodes) /\ ge_nodes[i].voice /= v.voice BY <1>5, <3>1
      <4>2. ge_nodes[i].voice = "osc2" BY <1>2, <2>1, <2>2, <4>1
      <4> QED BY <1>2, <1>5, <2>1, <3>1, <4>1, <4>2
    <3> QED BY <3>1
  <2>4. n \in Sounding!Current(r) /\ r[n].voice /= w.voice BY <1>2, <1>5
  <2> QED BY <1>6, <2>3, <2>4
<1>8. \A i \in DOMAIN ge_nodes :
        ge_nodes[i].from = Sounding!Never \/ ge_nodes[i].to = "none" \/ ge_nodes[i].until <= due
  BY <1>1 DEF SoundingInv
<1>9. /\ \A i \in DOMAIN ge_nodes' \ Sounding!Current(ge_nodes') :
           ge_nodes'[i].from = Sounding!Never \/ ge_nodes'[i].to
             = "none" \/ ge_nodes'[i].until <= due
      /\ ge_nodes'[n] = v
  BY <1>5, <1>6, <1>7, <1>8
<1>10. Sounding!Current(ge_nodes)' = Sounding!Current(ge_nodes') BY DEF Sounding!Current
<1> HIDE DEF n
<1> QED BY <1>1, <1>2, <1>6, <1>7, <1>9, <1>10 DEF SoundingInv

\* What stops is silent when that was asked for.
LEMMA StopsKeep ==
  ASSUME SoundingInv, NEW t \in Nat, t < Sounding!Never, ge_nodes' = Sounding!EndedAt(ge_nodes,
           t), started' = FALSE,
         t <= due', due <= due' \/ kind = "osc", due' \in Nat, due' < Sounding!Never,
         kind = "noise" => due' <= ge_now, ~disposed,
         UNCHANGED <<ge_now, kind, _freqMods, disposed, threw>>
  PROVE  SoundingInv'
<1>1. ge_nodes \in Seq(NodeRecord) BY DEF SoundingInv
<1>2. /\ ge_nodes' \in Seq(NodeRecord) /\ DOMAIN ge_nodes' = DOMAIN ge_nodes
      /\ Sounding!Current(ge_nodes') = Sounding!Current(ge_nodes)
      /\ \A i \in DOMAIN ge_nodes :
           /\ ge_nodes'[i].voice = ge_nodes[i].voice /\ ge_nodes'[i].from = ge_nodes[i].from
           /\ ge_nodes'[i].to = ge_nodes[i].to /\ ge_nodes'[i].mods = ge_nodes[i].mods
           /\ i \in Sounding!Current(ge_nodes) => ge_nodes'[i].until <= t
           /\ i \notin Sounding!Current(ge_nodes) => ge_nodes'[i] = ge_nodes[i]
  BY <1>1, EndedAtKept
<1>3. Sounding!Current(ge_nodes)' = Sounding!Current(ge_nodes') BY DEF Sounding!Current
<1>4. Sounding!Current(ge_nodes) \subseteq DOMAIN ge_nodes BY DEF Sounding!Current
<1>5. \A i \in DOMAIN ge_nodes : ge_nodes[i].until \in Nat /\ ge_nodes'[i].until \in Nat
  <2>1. \A i \in DOMAIN ge_nodes : ge_nodes[i] \in NodeRecord /\ ge_nodes'[i] \in NodeRecord
    BY <1>1, <1>2
  <2> QED BY <2>1 DEF NodeRecord
<1>6. \A i \in Sounding!Current(ge_nodes) : ge_nodes'[i].until <= due'
  BY <1>2, <1>4, <1>5
<1>7. \A i \in DOMAIN ge_nodes \ Sounding!Current(ge_nodes) :
        ge_nodes'[i].from = Sounding!Never \/ ge_nodes'[i].to = "none" \/ ge_nodes'[i].until <= due'
  <2>1. ASSUME NEW i \in DOMAIN ge_nodes \ Sounding!Current(ge_nodes)
        PROVE  ge_nodes'[i].from = Sounding!Never \/ ge_nodes'[i].to
                 = "none" \/ ge_nodes'[i].until <= due'
    <3>1. ge_nodes'[i] = ge_nodes[i] BY <1>2
    <3>2. ge_nodes[i].from = Sounding!Never \/ ge_nodes[i].to = "none" \/ ge_nodes[i].until <= due
      BY DEF SoundingInv
    <3>3. kind = "osc" => ge_nodes[i].to = "none" BY DEF SoundingInv
    <3>4. due \in Nat BY DEF SoundingInv
    <3> QED BY <1>5, <3>1, <3>2, <3>3, <3>4
  <2> QED BY <2>1
<1>8. kind /= "pulse" => \A i \in DOMAIN ge_nodes : ge_nodes'[i].voice = "own"
  BY <1>2 DEF SoundingInv
<1>9. kind = "osc" =>
        /\ \A i \in DOMAIN ge_nodes \ Sounding!Current(ge_nodes) : ge_nodes'[i].to = "none"
        /\ \A i \in Sounding!Current(ge_nodes) : ge_nodes'[i].mods = _freqMods
  BY <1>2, <1>4 DEF SoundingInv
<1> QED BY <1>2, <1>3, <1>6, <1>7, <1>8, <1>9 DEF SoundingInv

\* Oscillators that are wired elsewhere: the latest stay connected, unless the call throws.
LEMMA WiresKeep ==
  ASSUME SoundingInv, kind /= "noise", ~disposed, NEW to \in {"dNode", "ops", "none"},
         ge_nodes' \in {ge_nodes, Sounding!Wired(ge_nodes, to)}, threw' \in BOOLEAN,
         ~threw' => ~threw /\ to /= "none",
         UNCHANGED <<ge_now, kind, started, _freqMods, disposed, due>>
  PROVE  SoundingInv'
<1>1. ge_nodes \in Seq(NodeRecord) BY DEF SoundingInv
<1>2. /\ ge_nodes' \in Seq(NodeRecord) /\ DOMAIN ge_nodes' = DOMAIN ge_nodes
      /\ Sounding!Current(ge_nodes') = Sounding!Current(ge_nodes)
      /\ \A i \in DOMAIN ge_nodes :
           /\ ge_nodes'[i].voice = ge_nodes[i].voice /\ ge_nodes'[i].from = ge_nodes[i].from
           /\ ge_nodes'[i].until = ge_nodes[i].until /\ ge_nodes'[i].mods = ge_nodes[i].mods
           /\ ge_nodes'[i].to \in {ge_nodes[i].to, to}
           /\ i \notin Sounding!Current(ge_nodes) => ge_nodes'[i] = ge_nodes[i]
  <2>1. CASE ge_nodes' = ge_nodes BY <1>1, <2>1
  <2>2. CASE ge_nodes' = Sounding!Wired(ge_nodes, to) BY <1>1, <2>2, WiredKept
  <2> QED BY <2>1, <2>2
<1>3. Sounding!Current(ge_nodes)' = Sounding!Current(ge_nodes') BY DEF Sounding!Current
<1>4. Sounding!Current(ge_nodes) \subseteq DOMAIN ge_nodes BY DEF Sounding!Current
<1>5. \A i \in DOMAIN ge_nodes \ Sounding!Current(ge_nodes) :
        ge_nodes'[i].from = Sounding!Never \/ ge_nodes'[i].to = "none" \/ ge_nodes'[i].until <= due
  BY <1>2 DEF SoundingInv
<1>6. \A i \in Sounding!Current(ge_nodes) :
       /\ started => /\ ge_nodes'[i].from /= Sounding!Never
                     /\ ge_nodes'[i].until = Sounding!Never
                     /\ ~threw' => ge_nodes'[i].to /= "none"
       /\ ~started => ge_nodes'[i].from = Sounding!Never \/ ge_nodes'[i].until <= due
  <2>1. ASSUME NEW i \in Sounding!Current(ge_nodes)
        PROVE  /\ started => /\ ge_nodes'[i].from /= Sounding!Never
                             /\ ge_nodes'[i].until = Sounding!Never
                             /\ ~threw' => ge_nodes'[i].to /= "none"
               /\ ~started => ge_nodes'[i].from = Sounding!Never \/ ge_nodes'[i].until <= due
    <3>1. /\ started => /\ ge_nodes[i].from /= Sounding!Never
                        /\ ge_nodes[i].until = Sounding!Never
                        /\ ~threw => ge_nodes[i].to /= "none"
          /\ ~started => ge_nodes[i].from = Sounding!Never \/ ge_nodes[i].until <= due
      BY DEF SoundingInv
    <3> QED BY <1>2, <1>4, <3>1
  <2> QED BY <2>1
<1>7. kind /= "pulse" => \A i \in DOMAIN ge_nodes : ge_nodes'[i].voice = "own"
  BY <1>2 DEF SoundingInv
<1>8. kind = "osc" =>
        /\ \A i \in DOMAIN ge_nodes \ Sounding!Current(ge_nodes) : ge_nodes'[i].to = "none"
        /\ \A i \in Sounding!Current(ge_nodes) : ge_nodes'[i].mods = _freqMods
  BY <1>2, <1>4 DEF SoundingInv
<1> QED BY <1>2, <1>3, <1>5, <1>6, <1>7, <1>8 DEF SoundingInv

\* Nodes of which only the modulation changes.
LEMMA ModsKeep ==
  ASSUME SoundingInv, ~disposed, _freqMods' \subseteq Mods,
         ge_nodes' \in Seq(NodeRecord), DOMAIN ge_nodes' = DOMAIN ge_nodes,
         \A i \in DOMAIN ge_nodes :
           /\ ge_nodes'[i].voice = ge_nodes[i].voice /\ ge_nodes'[i].from = ge_nodes[i].from
           /\ ge_nodes'[i].until = ge_nodes[i].until /\ ge_nodes'[i].to = ge_nodes[i].to,
         kind = "osc" => \A i \in Sounding!Current(ge_nodes) : ge_nodes'[i].mods = _freqMods',
         UNCHANGED <<ge_now, kind, started, disposed, due, threw>>
  PROVE  SoundingInv'
<1>1. Sounding!Current(ge_nodes') = Sounding!Current(ge_nodes) BY SameVoices
<1>2. Sounding!Current(ge_nodes)' = Sounding!Current(ge_nodes') BY DEF Sounding!Current
<1>3. Sounding!Current(ge_nodes) \subseteq DOMAIN ge_nodes BY DEF Sounding!Current
<1>4. \A i \in DOMAIN ge_nodes \ Sounding!Current(ge_nodes) :
        ge_nodes'[i].from = Sounding!Never \/ ge_nodes'[i].to = "none" \/ ge_nodes'[i].until <= due
  BY DEF SoundingInv
<1>5. \A i \in Sounding!Current(ge_nodes) :
       /\ started => /\ ge_nodes'[i].from /= Sounding!Never
                     /\ ge_nodes'[i].until = Sounding!Never
                     /\ ~threw => ge_nodes'[i].to /= "none"
       /\ ~started => ge_nodes'[i].from = Sounding!Never \/ ge_nodes'[i].until <= due
  BY <1>3 DEF SoundingInv
<1>6. kind /= "pulse" => \A i \in DOMAIN ge_nodes : ge_nodes'[i].voice = "own"
  BY DEF SoundingInv
<1>7. kind = "osc" =>
        \A i \in DOMAIN ge_nodes \ Sounding!Current(ge_nodes) : ge_nodes'[i].to = "none"
  BY DEF SoundingInv
<1> QED BY <1>1, <1>2, <1>4, <1>5, <1>6, <1>7 DEF SoundingInv

LEMMA ModulateKeeps == ASSUME SoundingInv, NEW m \in Mods, Sounding!Modulate(m) PROVE SoundingInv'
<1>1. /\ ge_nodes' = [i \in DOMAIN ge_nodes |->
                     [ge_nodes[i] EXCEPT !.mods = IF i \in Sounding!Current(ge_nodes)
                       THEN @ \cup {m}
                                               ELSE IF kind = "pulse" THEN @ \ {m} ELSE @]]
      /\ _freqMods' = IF kind = "osc" THEN _freqMods \cup {m} ELSE {m}
      /\ UNCHANGED <<ge_now, kind, started, disposed, due, threw>> /\ ~disposed
  BY DEF Sounding!Modulate, Sounding!Call
<1>2. ASSUME NEW i \in DOMAIN ge_nodes
      PROVE  /\ ge_nodes'[i] \in NodeRecord
             /\ ge_nodes'[i].voice = ge_nodes[i].voice /\ ge_nodes'[i].from = ge_nodes[i].from
             /\ ge_nodes'[i].until = ge_nodes[i].until /\ ge_nodes'[i].to = ge_nodes[i].to
             /\ i \in Sounding!Current(ge_nodes) => ge_nodes'[i].mods = ge_nodes[i].mods \cup {m}
  <2> DEFINE v == ge_nodes[i]
             x == IF i \in Sounding!Current(ge_nodes) THEN v.mods \cup {m}
                  ELSE IF kind = "pulse" THEN v.mods \ {m} ELSE v.mods
             e == [v EXCEPT !.mods = x]
  <2>1. v \in NodeRecord BY DEF SoundingInv
  <2>2. ge_nodes'[i] = e BY <1>1
  <2>3. v.mods \subseteq Mods
    <3> HIDE DEF v
    <3> QED BY <2>1 DEF NodeRecord
  <2>4. x \subseteq Mods /\ (i \in Sounding!Current(ge_nodes) => x = v.mods \cup {m})
    <3> HIDE DEF v
    <3> QED BY <2>3
  <2> HIDE DEF x, v
  <2>5. /\ e \in NodeRecord /\ e.voice = v.voice /\ e.from = v.from /\ e.until = v.until
        /\ e.to = v.to /\ e.mods = x
    BY <2>1, <2>4 DEF NodeRecord
  <2> HIDE DEF e
  <2> QED BY <2>2, <2>4, <2>5 DEF v
<1>3. ge_nodes' \in Seq(NodeRecord) /\ DOMAIN ge_nodes' = DOMAIN ge_nodes
  <2>1. DOMAIN ge_nodes' = DOMAIN ge_nodes /\ ge_nodes' = [i \in DOMAIN ge_nodes |-> ge_nodes'[i]]
    BY <1>1
  <2>2. ge_nodes \in Seq(NodeRecord) BY DEF SoundingInv
  <2> QED BY <1>2, <2>1, <2>2, Placed
<1>4. _freqMods' \subseteq Mods BY <1>1 DEF SoundingInv
<1>5. kind = "osc" => \A i \in Sounding!Current(ge_nodes) : ge_nodes'[i].mods = _freqMods'
  <2>1. Sounding!Current(ge_nodes) \subseteq DOMAIN ge_nodes BY DEF Sounding!Current
  <2>2. kind = "osc" => \A i \in Sounding!Current(ge_nodes) : ge_nodes[i].mods = _freqMods
    BY DEF SoundingInv
  <2>3. kind = "osc" => _freqMods' = _freqMods \cup {m} BY <1>1
  <2>4. \A i \in Sounding!Current(ge_nodes) : ge_nodes'[i].mods = ge_nodes[i].mods \cup {m}
    BY <1>2, <2>1
  <2> QED BY <2>2, <2>3, <2>4
<1> QED BY ONLY SoundingInv, <1>1, <1>2, <1>3, <1>4, <1>5, ModsKeep

LEMMA SetFreqKeeps == ASSUME SoundingInv, Sounding!SetFreq PROVE SoundingInv'
<1>1. /\ ge_nodes' = [i \in DOMAIN ge_nodes |-> [ge_nodes[i] EXCEPT !.mods = @ \ _freqMods]]
      /\ _freqMods' = {} /\ kind = "pulse"
      /\ UNCHANGED <<ge_now, kind, started, disposed, due, threw>> /\ ~disposed
  BY DEF Sounding!SetFreq, Sounding!Call
<1>2. ASSUME NEW i \in DOMAIN ge_nodes
      PROVE  /\ ge_nodes'[i] \in NodeRecord
             /\ ge_nodes'[i].voice = ge_nodes[i].voice /\ ge_nodes'[i].from = ge_nodes[i].from
             /\ ge_nodes'[i].until = ge_nodes[i].until /\ ge_nodes'[i].to = ge_nodes[i].to
  <2> DEFINE v == ge_nodes[i]
             e == [v EXCEPT !.mods = @ \ _freqMods]
  <2>1. v \in NodeRecord BY DEF SoundingInv
  <2>2. ge_nodes'[i] = e BY <1>1
  <2> HIDE DEF v
  <2>3. /\ e \in NodeRecord /\ e.voice = v.voice /\ e.from = v.from /\ e.until = v.until
        /\ e.to = v.to
    BY <2>1 DEF NodeRecord
  <2> HIDE DEF e
  <2> QED BY <2>2, <2>3 DEF v
<1>3. ge_nodes' \in Seq(NodeRecord) /\ DOMAIN ge_nodes' = DOMAIN ge_nodes
  <2>1. DOMAIN ge_nodes' = DOMAIN ge_nodes /\ ge_nodes' = [i \in DOMAIN ge_nodes |-> ge_nodes'[i]]
    BY <1>1
  <2>2. ge_nodes \in Seq(NodeRecord) BY DEF SoundingInv
  <2> QED BY <1>2, <2>1, <2>2, Placed
<1>4. _freqMods' \subseteq Mods BY <1>1
<1>5. kind /= "osc" BY <1>1
<1> QED BY ONLY SoundingInv, <1>1, <1>2, <1>3, <1>4, <1>5, ModsKeep

LEMMA SourceStartKeeps == ASSUME SoundingInv, NEW d \in ge_Delays, Sounding!Start(d)
  PROVE SoundingInv'
<1>1. CASE kind = "osc" BY <1>1, OscStartKeeps
<1>2. CASE kind = "noise"
  <2>1. /\ ge_nodes' = Sounding!NoiseStarted /\ started' = TRUE /\ due' = ge_now /\ ~disposed
        /\ UNCHANGED <<ge_now, kind, _freqMods, disposed, threw>>
    BY <1>2 DEF Sounding!Start, Sounding!Call
  <2> QED BY <1>2, <2>1, NoiseKeeps
<1>3. CASE kind = "pulse" BY <1>3, PulseStartKeeps
<1> QED BY <1>1, <1>2, <1>3 DEF SoundingInv

LEMMA SourceStopKeeps == ASSUME SoundingInv, NEW d \in ge_Delays, Sounding!Stop(d)
  PROVE SoundingInv'
<1> DEFINE t == ge_now + d
<1>1. /\ kind /= "noise" /\ ge_nodes' = Sounding!EndedAt(ge_nodes, t) /\ started' = FALSE
      /\ ~disposed
      /\ due' = IF kind = "pulse" /\ t < due THEN due ELSE t
      /\ UNCHANGED <<ge_now, kind, _freqMods, disposed, threw>>
  BY DEF Sounding!Stop, Sounding!Call
<1>2. t \in Nat /\ t < Sounding!Never
  <2>1. ge_now \in Nat /\ ge_now <= ge_MaxTime /\ d \in Nat /\ ge_MaxTime \in Nat
        /\ ge_MaxTime + ge_MaxTime + d < 99
    BY SoundingAssumption DEF SoundingInv
  <2> QED BY <2>1 DEF Sounding!Never
<1>3. due \in Nat /\ due < Sounding!Never /\ kind \in {"osc", "noise", "pulse"} BY DEF SoundingInv
<1> HIDE DEF t
<1>4. t <= due' /\ (due <= due' \/ kind = "osc") /\ due' \in Nat /\ due' < Sounding!Never
  BY <1>1, <1>2, <1>3
<1> QED BY <1>1, <1>2, <1>4, StopsKeep

LEMMA StopNoiseKeeps == ASSUME SoundingInv, Sounding!StopNoise PROVE SoundingInv'
<1>1. /\ kind = "noise" /\ ge_nodes' = Sounding!EndedAt(ge_nodes, ge_now) /\ started' = FALSE
      /\ ~disposed
      /\ due' = ge_now /\ UNCHANGED <<ge_now, kind, _freqMods, disposed, threw>>
  BY DEF Sounding!StopNoise, Sounding!Call
<1>2. ge_now \in Nat /\ ge_now < Sounding!Never /\ due <= ge_now
  <2>1. ge_now \in 0..ge_MaxTime /\ due <= ge_now BY <1>1 DEF SoundingInv
  <2> QED BY <2>1, SoundingAssumption DEF Sounding!Never
<1>3. ge_now <= due' /\ due <= due' /\ due' \in Nat /\ due' < Sounding!Never /\ due' <= ge_now
  BY <1>1, <1>2
<1> QED BY <1>1, <1>2, <1>3, StopsKeep

LEMMA SetTypeKeeps == ASSUME SoundingInv, Sounding!SetType PROVE SoundingInv'
<1>1. /\ kind = "noise" /\ ge_nodes' = Sounding!NoiseStarted /\ started /\ due' = ge_now
      /\ ~disposed
      /\ UNCHANGED <<ge_now, kind, started, _freqMods, disposed, threw>>
  BY DEF Sounding!SetType, Sounding!Call
<1>2. started' = TRUE BY <1>1 DEF SoundingInv
<1> QED BY <1>1, <1>2, NoiseKeeps

LEMMA PhaseKeeps == ASSUME SoundingInv, Sounding!Phase PROVE SoundingInv'
<1>1. /\ kind /= "noise" /\ ~disposed
      /\ ge_nodes' = IF dNode THEN ge_nodes ELSE Sounding!Wired(ge_nodes, "dNode")
      /\ UNCHANGED <<ge_now, kind, started, _freqMods, disposed, due, threw>>
  BY DEF Sounding!Phase, Sounding!Call
<1>2. threw' \in BOOLEAN BY <1>1 DEF SoundingInv
<1>3. ge_nodes' \in {ge_nodes, Sounding!Wired(ge_nodes, "dNode")} BY <1>1
<1> QED BY <1>1, <1>2, <1>3, WiresKeep

LEMMA ArithmeticKeeps == ASSUME SoundingInv, NEW type, Sounding!Arithmetic(type) PROVE SoundingInv'
<1> DEFINE again == Sounding!Contains(mathOps, type)
<1>1. /\ kind /= "noise" /\ ~threw /\ ~disposed
      /\ ge_nodes' = IF again THEN Sounding!Wired(ge_nodes, "none")
                  ELSE IF mathOps = <<>> THEN Sounding!Wired(ge_nodes, "ops") ELSE ge_nodes
      /\ threw' = again
      /\ UNCHANGED <<ge_now, kind, started, _freqMods, disposed, due>>
  BY DEF Sounding!Arithmetic, Sounding!Call
<1>2. again \in BOOLEAN BY DEF Sounding!Contains
<1> HIDE DEF again
<1>3. CASE again
  <2>1. ge_nodes' \in {ge_nodes, Sounding!Wired(ge_nodes, "none")} /\ threw' \in BOOLEAN /\ threw'
    BY <1>1, <1>2, <1>3
  <2> QED BY <1>1, <2>1, WiresKeep
<1>4. CASE ~again
  <2>1. ge_nodes' \in {ge_nodes, Sounding!Wired(ge_nodes, "ops")} /\ threw' \in BOOLEAN /\ ~threw'
    BY <1>1, <1>2, <1>4
  <2> QED BY <1>1, <2>1, WiresKeep
<1> QED BY <1>3, <1>4

LEMMA SourceDisposeKeeps == ASSUME SoundingInv, Sounding!Dispose PROVE SoundingInv'
<1> DEFINE t == IF kind = "noise" THEN ge_now ELSE ge_now + ge_now
           s == IF started THEN Sounding!EndedAt(ge_nodes, t) ELSE ge_nodes
<1>1. /\ ge_nodes' = [i \in DOMAIN ge_nodes |-> [s[i] EXCEPT !.to = "none"]]
      /\ started' = FALSE /\ disposed' = TRUE
      /\ UNCHANGED <<ge_now, kind, _freqMods, due, threw>>
  BY DEF Sounding!Dispose
<1>2. t \in Nat
  <2>1. ge_now \in Nat BY SoundingAssumption DEF SoundingInv
  <2> QED BY <2>1
<1>3. /\ s \in Seq(NodeRecord) /\ DOMAIN s = DOMAIN ge_nodes
      /\ \A i \in DOMAIN ge_nodes : /\ s[i].voice = ge_nodes[i].voice
           /\ s[i].mods = ge_nodes[i].mods
  <2>1. ge_nodes \in Seq(NodeRecord) BY DEF SoundingInv
  <2> HIDE DEF t
  <2>2. CASE started
    <3>1. s = Sounding!EndedAt(ge_nodes, t) BY <2>2
    <3> HIDE DEF s
    <3> QED BY <1>2, <2>1, <3>1, EndedAtKept
  <2>3. CASE ~started BY <2>1, <2>3
  <2> QED BY <2>2, <2>3
<1> HIDE DEF s
<1>4. ASSUME NEW i \in DOMAIN ge_nodes
      PROVE  /\ ge_nodes'[i] \in NodeRecord /\ ge_nodes'[i].to = "none"
             /\ ge_nodes'[i].voice = ge_nodes[i].voice /\ ge_nodes'[i].mods = ge_nodes[i].mods
  <2> DEFINE v == s[i]
             e == [v EXCEPT !.to = "none"]
  <2>1. v \in NodeRecord BY <1>3
  <2>2. ge_nodes'[i] = e BY <1>1
  <2> HIDE DEF v
  <2>3. e \in NodeRecord /\ e.voice = v.voice /\ e.mods = v.mods /\ e.to = "none"
    BY <2>1 DEF NodeRecord
  <2> HIDE DEF e
  <2> QED BY <1>3, <2>2, <2>3 DEF v
<1>5. ge_nodes' \in Seq(NodeRecord) /\ DOMAIN ge_nodes' = DOMAIN ge_nodes
  <2>1. DOMAIN ge_nodes' = DOMAIN ge_nodes /\ ge_nodes' = [i \in DOMAIN ge_nodes |-> ge_nodes'[i]]
    BY <1>1
  <2>2. ge_nodes \in Seq(NodeRecord) BY DEF SoundingInv
  <2> QED BY <1>4, <2>1, <2>2, Placed
<1>6. Sounding!Current(ge_nodes') = Sounding!Current(ge_nodes) BY <1>4, <1>5, SameVoices
<1>7. Sounding!Current(ge_nodes)' = Sounding!Current(ge_nodes')
      /\ Sounding!Current(ge_nodes) \subseteq DOMAIN ge_nodes BY DEF Sounding!Current
<1> QED BY <1>1, <1>4, <1>5, <1>6, <1>7 DEF SoundingInv

LEMMA AdvanceKeeps == ASSUME SoundingInv, Sounding!Advance PROVE SoundingInv'
<1>1. ge_now < ge_MaxTime /\ ge_now' = ge_now + 1
      /\ UNCHANGED <<kind, ge_nodes, started, mathOps, dNode, _freqMods, disposed, ge_calls, due,
           threw>>
  BY DEF Sounding!Advance
<1>2. ge_now \in 0..ge_MaxTime /\ due \in Nat BY DEF SoundingInv
<1>3. ge_now' \in 0..ge_MaxTime /\ (due <= ge_now => due' <= ge_now')
  BY <1>1, <1>2, SoundingAssumption
<1>4. Sounding!Current(ge_nodes)' = Sounding!Current(ge_nodes) BY <1>1 DEF Sounding!Current
<1> QED BY <1>1, <1>3, <1>4 DEF SoundingInv

LEMMA SoundingNext == SoundingInv /\ [Sounding!Next]_(Sounding!vars) => SoundingInv'
<1> SUFFICES ASSUME SoundingInv, [Sounding!Next]_(Sounding!vars) PROVE SoundingInv' OBVIOUS
<1>1. CASE \E d \in ge_Delays : Sounding!Start(d) \/ Sounding!Stop(d)
  BY <1>1, SourceStartKeeps, SourceStopKeeps
<1>2. CASE Sounding!StopNoise BY <1>2, StopNoiseKeeps
<1>3. CASE Sounding!SetType BY <1>3, SetTypeKeeps
<1>4. CASE Sounding!SetFreq BY <1>4, SetFreqKeeps
<1>5. CASE Sounding!Phase BY <1>5, PhaseKeeps
<1>6. CASE Sounding!Dispose BY <1>6, SourceDisposeKeeps
<1>7. CASE \E m \in Mods : Sounding!Modulate(m) BY <1>7, ModulateKeeps
<1>8. CASE \E type \in Types : Sounding!Arithmetic(type) BY <1>8, ArithmeticKeeps
<1>9. CASE Sounding!Advance BY <1>9, AdvanceKeeps
<1>10. CASE UNCHANGED Sounding!vars
  <2>1. Sounding!Current(ge_nodes)' = Sounding!Current(ge_nodes)
    BY <1>10 DEF Sounding!vars, Sounding!Current
  <2> QED BY <1>10, <2>1 DEF Sounding!vars, SoundingInv
<1> QED BY <1>1, <1>2, <1>3, <1>4, <1>5, <1>6, <1>7, <1>8, <1>9, <1>10 DEF Sounding!Next

LEMMA SoundingSafe == SoundingInv => Sounding!SoundsAsTold
<1> SUFFICES ASSUME SoundingInv PROVE Sounding!SoundsAsTold OBVIOUS
<1> DEFINE wired == {i \in DOMAIN ge_nodes :
  ge_nodes[i].from /= Sounding!Never /\ ge_nodes[i].to /= "none"}
           unended == {i \in wired : ge_nodes[i].until = Sounding!Never}
<1>1. Sounding!Current(ge_nodes) \subseteq DOMAIN ge_nodes BY DEF Sounding!Current
<1>2. \A i \in DOMAIN ge_nodes : ge_nodes[i].until \in Nat
  <2>1. \A i \in DOMAIN ge_nodes : ge_nodes[i] \in NodeRecord BY DEF SoundingInv
  <2> QED BY <2>1 DEF NodeRecord
<1>3. due \in Nat /\ due < Sounding!Never /\ Sounding!Never \in Nat
  BY DEF SoundingInv, Sounding!Never
<1>4. \A i \in wired : i \notin Sounding!Current(ge_nodes) \/ ~started => ge_nodes[i].until <= due
  BY <1>1 DEF SoundingInv
<1>5. \A i \in Sounding!Current(ge_nodes) : started => /\ ge_nodes[i].from /= Sounding!Never
                                                       /\ ge_nodes[i].until = Sounding!Never
                                                       /\ ~threw => ge_nodes[i].to /= "none"
  BY DEF SoundingInv
<1>6. ~threw => unended = IF started THEN Sounding!Current(ge_nodes) ELSE {}
  <2>1. ASSUME ~threw, NEW i \in unended PROVE started /\ i \in Sounding!Current(ge_nodes)
    <3>1. ~(ge_nodes[i].until <= due) BY <1>2, <1>3
    <3> QED BY <1>4, <3>1
  <2>2. ASSUME ~threw, started, NEW i \in Sounding!Current(ge_nodes) PROVE i \in unended
    BY <1>1, <1>5, <2>2
  <2> HIDE DEF unended
  <2>3. CASE started BY <2>1, <2>2, <2>3
  <2>4. CASE ~started BY <2>1, <2>4
  <2> QED BY <2>3, <2>4
<1>7. \A i \in wired \ unended : ge_nodes[i].until <= due
  BY <1>1, <1>4, <1>5
<1>8. kind = "osc" => \A i \in Sounding!Current(ge_nodes) : ge_nodes[i].mods = _freqMods
  BY DEF SoundingInv
<1>9. disposed => wired = {} BY DEF SoundingInv
<1> QED BY <1>6, <1>7, <1>8, <1>9 DEF Sounding!SoundsAsTold

\* However an oscillator, a noise or a pulse is started, stopped, modulated, wired and disposed of:
\* unless a call threw, what plays on is the latest it made, while it is started, and what it stopped
\* is silent, or disconnected, when that was asked for.
THEOREM SoundsAsAsked == Sounding!Spec => []SoundsAsTold
<1>1. SoundingInv => SoundsAsTold BY SoundingSafe DEF SoundsAsTold
<1> QED BY <1>1, SoundingInit, SoundingNext, PTL DEF Sounding!Spec
=============================================================================
