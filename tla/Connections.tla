----------------------------- MODULE Connections ------------------------------
(* The objects that a sketch makes with the library, and how they are connected.  *)
EXTENDS Integers, Sequences, FiniteSets

CONSTANTS
  gr_Kinds, MaxObjects, gr_MaxCalls, EQBands, gr_maxVoices,
  gr_main

VARIABLES
  objects, soundArray, metered, gr_calls, twice, given

Graph == INSTANCE SoundGraph WITH
  Kinds <- gr_Kinds, MaxCalls <- gr_MaxCalls, maxVoices <- gr_maxVoices, main <- gr_main,
  calls <- gr_calls

GraphVars == <<objects, soundArray, metered, gr_calls, twice, given>>

\* The sketch makes no band by itself, the output of the page is no object, an EQ has 3 or 8 bands.
ASSUME GraphAssumption ==
  /\ gr_Kinds \subseteq Graph!AllKinds \ {"band"}
  /\ MaxObjects \in Nat /\ gr_MaxCalls \in Nat /\ gr_maxVoices \in Nat
  /\ EQBands \in {3, 8} /\ gr_main \notin Nat
-----------------------------------------------------------------------------
\* The page's end finds every object not disposed of in the array (soundArray and the classes).
Registered == Graph!Registered

\* A live source reaches its output, an effect does from its input, and meters hear the page.
Audible == Graph!Audible
=============================================================================
