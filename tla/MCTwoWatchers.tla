---------------------------- MODULE MCTwoWatchers ----------------------------
(***************************************************************************)
(* Small instances of TwoWatchers for TLC: one file, one folder.           *)
(***************************************************************************)
EXTENDS TwoWatchers

CONSTANT f1

Numbers == 0..2
LeadDiffers == [c \in Numbers |-> <<c, 9>>]
Fresh == [v \in 1..MaxVer |-> {v}]
OneFolder == [i \in {1} |-> {f1}]
OneFile   == [f \in {f1} |-> {f1}]
=============================================================================
