---------------------------- MODULE MCCppWrapper ----------------------------
(***************************************************************************)
(* A small instance of CppWrapper.                                         *)
(***************************************************************************)
EXTENDS CppWrapper, TLC

CONSTANTS n1, n2, n3, w1, w2, w3, w4

SomeNodes == {Root, n1, n2, n3}
Objects == {w1, w2, w3, w4}
TheNames == {"a", "b"}
ItsOwn == [n \in TheNames |-> n]
Addresses == Permutations({n1, n2, n3}) \cup Permutations(Objects)
=============================================================================
