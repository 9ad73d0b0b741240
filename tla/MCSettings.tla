----------------------------- MODULE MCSettings -----------------------------
(***************************************************************************)
(* A small instance of Settings.                                           *)
(***************************************************************************)
EXTENDS Settings, TLC

CONSTANTS n1, n2, n3, a, b, c

SomeNodes == {Root, n1, n2, n3}

\* Three names, for a vector that is longer than a chunk.  A caller may also pass
\* "a.x", which is taken for the name "a".
SomeNames == {a, b, c}
SomePaths == SomeNames \cup {<<n, "x">> : n \in SomeNames}
UpToDot == [path \in SomePaths |-> IF path \in SomeNames THEN path ELSE path[1]]

Alike == Permutations({n1, n2, n3}) \cup Permutations(SomeNames)
=============================================================================
