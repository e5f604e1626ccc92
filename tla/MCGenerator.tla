----------------------------- MODULE MCGenerator -----------------------------
(* The instances of the code generator that TLC checks. *)
EXTENDS Generator, TLC

\* Nothing distinguishes two temporaries, or two variables.
Symmetry == Permutations(Temps) \cup Permutations(Variables)
=============================================================================
