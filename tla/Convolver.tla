----------------------------- MODULE Convolver -----------------------------
(* A p5.Convolver gives a sound the reverberation of a recorded impulse.  It   *)
(* extends p5.Reverb, whose impulse is computed.  Each impulse is set by a new *)
(* convolver node of the Web Audio API, wired between the input and the output *)
(* in place of the one before; impulses are loaded from the server.            *)
EXTENDS Naturals, Sequences, SequencesExt, FiniteSets

CONSTANTS Names,      \* of impulses on the server
          computed,   \* the impulse of a Reverb
          none,
          MaxNodes,   \* bound on the convolver nodes
          MaxLoads,   \* bound on the requests
          MaxCalls    \* bound on the other calls

VARIABLES
  set,            \* the object has the method set: it is a Reverb, and no Convolver
  nodes,          \* every convolver node: [buffer, connected]
  convolverNode,  \* the one that counts
  impulses,       \* the names loaded
  ac,             \* the object was not disposed of
  requests,       \* external: the loads not answered, [id, name]
  loads, calls,
  wanted,         \* history: the impulse asked for last, to be loaded or from the list
  latest,         \* history: the latest call asking for one that was answered
  ordered         \* history: it is the one answered last, and has set its impulse

vars == <<set, nodes, convolverNode, impulses, ac, requests, loads, calls, wanted, latest,
          ordered>>

-----------------------------------------------------------------------------
\* The nodes, for the methods that call each other: [nodes, node].
Teardown(s) == IF s.node = none THEN s
               ELSE [nodes |-> [s.nodes EXCEPT ![s.node].connected = FALSE], node |-> none]

InitNode(s) == [nodes |-> Append(s.nodes, [buffer |-> none, connected |-> TRUE]),
                node |-> Len(s.nodes) + 1]

\* Mutant: the node before is not torn down.
MutantSetBuffer(s, b) == LET new == InitNode(s) IN [new EXCEPT !.nodes[new.node].buffer = b]

\* _setBuffer and, of an object disposed of, its first line, after which it throws.
SetBuffer(s, b) == LET new == InitNode(Teardown(s)) IN [new EXCEPT !.nodes[new.node].buffer = b]
WithBuffer(s, b) == IF ac THEN SetBuffer(s, b) ELSE Teardown(s)

BuildImpulse(s) == SetBuffer(s, computed)

\* The constructor of Reverb makes a node and computes an impulse, which takes another node.
Reverb == BuildImpulse(InitNode([nodes |-> <<>>, node |-> none]))

\* The constructor of Convolver makes a node more, and the one of Reverb stays connected; with no
\* path it computes an impulse again.
Built(path) == LET third == InitNode(Reverb)
               IN IF path = none THEN BuildImpulse(third) ELSE third

Init == \E path \in Names \cup {none} :
          LET s == IF set THEN Reverb ELSE Built(path) IN
          /\ set \in BOOLEAN /\ (set => path = none)
          /\ nodes = s.nodes /\ convolverNode = s.node
          /\ impulses = <<>> /\ ac = TRUE
          /\ requests = IF path = none THEN {} ELSE {[id |-> 1, name |-> path]}
          /\ loads = 1 /\ calls = 0
          /\ wanted = IF path = none THEN computed ELSE path
          /\ latest = 0 /\ ordered = TRUE

Becomes(s) == nodes' = s.nodes /\ convolverNode' = s.node
Current == [nodes |-> nodes, node |-> convolverNode]

Larger(m, n) == IF m < n THEN n ELSE m

\* The calls are numbered from 1, the constructor being the first.
Number == loads + calls

\* set and process of a Reverb; a Convolver has no set, and its process only connects.
Set(seconds) ==
  /\ set /\ ac
  /\ calls < MaxCalls /\ calls' = calls + 1
  /\ Len(nodes) < MaxNodes
  /\ Becomes(IF seconds THEN BuildImpulse(Current) ELSE Current)
  /\ UNCHANGED <<set, impulses, ac, requests, loads, wanted, latest, ordered>>

\* _loadBuffer, of addImpulse or resetImpulse, which empties the list first.
Load(name, resets) ==
  /\ ~set
  /\ loads < MaxLoads /\ loads' = loads + 1
  /\ requests' = requests \cup {[id |-> Number + 1, name |-> name]}
  /\ impulses' = IF resets THEN <<>> ELSE impulses
  /\ wanted' = name
  /\ UNCHANGED <<set, nodes, convolverNode, ac, calls, latest, ordered>>

\* toggleImpulse, by number or by name, of an impulse in the list, whatever is on its way.
ToggleImpulse(i) ==
  /\ calls < MaxCalls /\ calls' = calls + 1
  /\ Len(nodes) < MaxNodes
  /\ Becomes(WithBuffer(Current, impulses[i]))
  /\ wanted' = impulses[i]
  /\ latest' = Number + 1 /\ ordered' = ac
  /\ UNCHANGED <<set, impulses, ac, requests, loads>>

\* The impulse arrives: it is put in the list and set, whatever was asked for since.
Loaded(r) ==
  /\ r \in requests /\ requests' = requests \ {r}
  /\ Len(nodes) < MaxNodes
  /\ impulses' = Append(impulses, r.name)
  /\ Becomes(WithBuffer(Current, r.name))
  /\ latest' = Larger(latest, r.id) /\ ordered' = (ac /\ r.id > latest)
  /\ UNCHANGED <<set, ac, loads, calls, wanted>>

\* The server or the decoder fails, or nobody answers.
Failed(r) ==
  /\ r \in requests /\ requests' = requests \ {r}
  /\ latest' = Larger(latest, r.id) /\ ordered' = (ordered /\ r.id < latest)
  /\ UNCHANGED <<set, nodes, convolverNode, impulses, ac, loads, calls, wanted>>

\* dispose tears the node down and empties the places of the list.
Dispose ==
  /\ ac /\ ac' = FALSE
  /\ calls < MaxCalls /\ calls' = calls + 1
  /\ Becomes(Teardown(Current))
  /\ impulses' = [i \in DOMAIN impulses |-> none]
  /\ ordered' = FALSE
  /\ UNCHANGED <<set, requests, loads, wanted, latest>>

Next == \/ \E seconds \in BOOLEAN : Set(seconds)
        \/ \E name \in Names, resets \in BOOLEAN : Load(name, resets)
        \/ \E i \in DOMAIN impulses : impulses[i] /= none /\ ToggleImpulse(i)
        \/ \E r \in requests : Loaded(r) \/ Failed(r)
        \/ Dispose

Spec == Init /\ [][Next]_vars
-----------------------------------------------------------------------------
\* The variables have the types the methods give them.
TypeOK ==
  /\ nodes \in Seq([buffer : Names \cup {computed, none}, connected : BOOLEAN])
  /\ convolverNode \in DOMAIN nodes \cup {none}
  /\ impulses \in Seq(Names \cup {none})
  /\ requests \subseteq [id : 1..(MaxLoads + MaxCalls), name : Names]
  /\ loads \in 0..MaxLoads /\ calls \in 0..MaxCalls
  /\ wanted \in Names \cup {computed} /\ latest \in 0..(MaxLoads + MaxCalls)
  /\ {set, ac, ordered} \subseteq BOOLEAN

\* Besides the node that the constructor of Reverb leaves in a Convolver, the second one, only the
\* node that counts is connected, however impulses are computed again, added, reset, toggled, late,
\* or disposed of. When no load is on its way and the object not disposed of, it has the impulse
\* asked for last, loaded or toggled: unless the loading of that one failed, or an impulse asked
\* for earlier came after it, which then takes its place.
OneImpulse ==
  /\ \A n \in DOMAIN nodes : nodes[n].connected => n = convolverNode \/ (n = 2 /\ ~set)
  /\ ordered /\ requests = {} => nodes[convolverNode].buffer = wanted
=============================================================================
