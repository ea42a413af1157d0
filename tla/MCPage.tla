------------------------------ MODULE MCPage ------------------------------
(* Small pages: the values of the constants of Page that the configuration      *)
(* cannot write down.                                                           *)
EXTENDS Page

CONSTANTS a, b      \* names

LoopIntervals == {[type |-> "s", value |-> 1], [type |-> "n", value |-> 8]}
FilesGiven == {[array |-> FALSE, paths |-> <<[name |-> a, ext |-> "mp3"]>>],
               [array |-> FALSE, paths |-> <<[name |-> b, ext |-> "mp3"]>>],
               [array |-> TRUE,
                paths |-> <<[name |-> b, ext |-> "mp3"], [name |-> a, ext |-> "ogg"]>>]}
FormatsGiven == {<<"mp3", "ogg">>, <<"mp3", "aif">>}
GraphKinds == {"eq", "delay", "poly", "mono", "pulse", "audioin", "osc", "fft"}
=============================================================================
