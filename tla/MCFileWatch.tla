----------------------------- MODULE MCFileWatch -----------------------------
(***************************************************************************)
(* Small instances of FileWatch for TLC.  Contents are numbers, 0 is the   *)
(* mixture a torn read sees; a digest has two digits.                      *)
(***************************************************************************)
EXTENDS FileWatch

CONSTANTS f1, f2

Numbers == 0..4

\* Digests that differ in their first digit.
LeadDiffers == [c \in Numbers |-> <<c, 9>>]

\* Contents 1 and 2 share the first digit of their digests.
LeadShared == [c \in Numbers |-> IF c = 2 THEN <<1, 2>> ELSE <<c, 9>>]

\* Version v holds content v: no content ever comes back.
Fresh == [v \in 1..MaxVer |-> IF v = 1 THEN {1} ELSE {v, Absent}]

\* A file may be missing at first and may be removed; the third version may bring
\* back the content of the first, and repeat that of the second.
Recurring ==
  [v \in 1..MaxVer |-> CASE v = 1 -> {1, Absent} [] v = 2 -> {2, Absent}
                         [] OTHER -> {1, 2}]

\* Two entries for the folder of one file, and one for a folder that is missing.
Overlapping == [i \in 1..3 |-> {f1}]
OneFile == [f \in {f1} |-> {f1}]

\* The same, and the second entry's pattern matches a directory f2 too, when there is
\* one.
AndDirectory == [i \in 1..3 |-> IF i = 2 THEN {f1, f2} ELSE {f1}]
Apart == [f \in {f1, f2} |-> {f}]

\* A folder of two files; f1's name is part of f2's.
TwoFiles == [i \in {1} |-> {f1, f2}]
Neighbours == [f \in {f1, f2} |-> IF f = f1 THEN {f1, f2} ELSE {f2}]
=============================================================================
