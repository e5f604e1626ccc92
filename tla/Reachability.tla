----------------------------- MODULE Reachability -----------------------------
(***************************************************************************)
(* What a graph's edges lead to, for the walks over flowgraphs (module     *)
(* LiveVars) and along chains of copies (module CopyProp).                 *)
(***************************************************************************)
EXTENDS Integers

\* What is in start, or is reached from there by at most n edges; next has the
\* successors of each node.
Reach(next, start, n) ==
    LET f[k \in 0..n] ==
            IF k = 0 THEN start
            ELSE LET before == f[k - 1] IN before \cup UNION {next[c] : c \in before}
    IN  f[n]
=============================================================================
