----------------------------- MODULE MCTecnicoFS -----------------------------
(* Two threads and two names; both are interchangeable.                      *)
EXTENDS TecnicoFS, TLC
MCFlags == {{"creat"}, {"trunc"}, {"creat", "append"}}
MCSymmetry == Permutations(Thread) \cup Permutations(Name)
=============================================================================
